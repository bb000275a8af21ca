----------------------------- MODULE HookScopes -----------------------------
(***************************************************************************)
(* What a hook does around the JNI function it stands for, on one thread:   *)
(* the re-entrancy counter it raises and lowers in some thirty places, the  *)
(* critical-section counter, the exceptions it meets, clears and throws     *)
(* again, and the app code that runs inside, called or merely rendered      *)
(* (toString, getName).  All of this state is thread-local.                 *)
(*                                                                          *)
(* A hook is the sequence of the operations it performs.  The name of a     *)
(* helper in it is replaced, when it is reached, by one of the helper's     *)
(* sequences: helpers look at the state first.  The logger's own calls into *)
(* the JVM are the operations jni and fail (a call that succeeds, or throws) *)
(* made by the helpers of visualize.c, render (app code run by one of them), *)
(* clear, throw and delete (ExceptionClear, Throw, DeleteLocalRef), and mint *)
(* (the NewGlobalRef for an object that the reader thread is to render: it   *)
(* may not come to it, when no reader is ready or an event is filtered).     *)
(* log is the emission of an event, which calls no JNI function but          *)
(* DeleteGlobalRef, when the socket refuses it.                              *)
(***************************************************************************)
EXTENDS Integers, Sequences, FiniteSets

CONSTANTS
  MaxNesting,   \* app frames on the stack
  MaxSections   \* critical sections open at a time, refused ones included

VARIABLES
  inHook,      \* g_in_hook
  critical,    \* g_jni_critical
  pending,     \* an exception is pending in the JVM
  sections,    \* critical sections the app is in
  entitled,    \* the app's own calls left an exception pending
  refusals,    \* heard Get...Critical calls that returned NULL
  stack        \* app frames and the operations left of hooks, innermost first

scopeVars == <<inHook, critical, pending, sections, entitled, refusals, stack>>

App(rendered, kept) == [kind |-> "app", rendered |-> rendered, kept |-> kept]
Hook(ops) == [kind |-> "hook", ops |-> ops]

ScopeInit ==
  /\ inHook = 0 /\ critical = 0
  /\ pending = FALSE /\ entitled = FALSE
  /\ sections = 0 /\ refusals = 0
  /\ stack = <<App(FALSE, FALSE)>>

Top == Head(stack)
AppFrames == {i \in DOMAIN stack : stack[i].kind = "app"}

\* Wrong variant: exceptions are not looked at.
SafeOutsideCritical == critical = 0

\* vis_safe_to_call.
Safe == critical = 0 /\ ~pending

\* None, one or two of S: the elements of an array, the arguments of a call.
Few(S) == {<<>>} \cup S \cup {a \o b : a, b \in S}

\* Rendering an object: a string, a class, any other.
AnObject == {
  <<"IsInstance", "StringValue">>,
  <<"IsInstance", "IsInstance", "ClassName">>,
  <<"IsInstance", "IsInstance", "ObjectClassName", "ToString">>}

\* One element of an object array; reading it may fail and ends the loop.
Element ==
  {<<"down", "jni">> \o e \o <<"up">> :
     e \in {<<>>, <<"IsInstance", "StringValue">>, <<"IsInstance", "ObjectClassName", "ToString">>}}
BadElement == {<<>>, <<"down", "fail", "clear", "up">>}

\* What a visualize.c helper does once vis_safe_to_call let it.
Visualize == [
  IsInstance |-> {<<"up", "jni", "down">>, <<"up", "fail", "clear", "down">>},
  ClassName |-> {
    <<"up", "jni", "clear", "down">>,
    <<"up", "jni", "fail", "clear", "down">>,
    <<"up", "jni", "render", "clear", "jni", "down">>},
  ObjectClassName |-> {
    <<"up", "jni", "down">>,
    <<"up", "jni", "down", "ClassName", "up", "delete", "down">>},
  ToString |-> {a \o b :
    a \in {<<>>, <<"ObjectClassName">>},
    b \in {<<>>, <<"up", "jni", "down">>, <<"up", "jni", "fail", "clear", "down">>,
           <<"up", "jni", "render", "clear", "jni", "down">>}},
  StringValue |-> {<<"up", "jni", "down">>},
  ArrayItems |-> {<<"up", "jni", "down">>},
  ObjectArrayItems |-> {<<"up", "jni">> \o e \o b \o <<"down">> :
    e \in Few(Element), b \in BadElement}]

\* fill_object_strings, field_obj_parts: nothing, deferred, or rendered in place.
Fill == {<<>>, <<"mint">>} \cup AnObject

\* vis_encode_typed_args.
TypedArguments == Few(AnObject \cup {<<"ArrayItems">>, <<"ObjectArrayItems">>})

\* log_method_return_value, log_field_access_result.
Result ==
  CASE inHook > 0 -> {<<>>}
    [] inHook = 0 /\ pending -> {<<"log">>}
    [] OTHER -> {<<"up">> \o f \o <<"log", "down">> : f \in Fill}

Expansions(h) ==
  CASE h = "Fill" -> Fill
    [] h = "Arguments" -> TypedArguments
    [] h = "Result" -> Result
    [] OTHER -> IF Safe THEN Visualize[h] ELSE {<<>>}

Helpers == {"Fill", "Arguments", "Result"} \cup DOMAIN Visualize
-----------------------------------------------------------------------------
(* The hooks.                                                               *)

Families == {"Lookup", "Register", "Reference", "Throw", "Elements", "ObjectArray", "ArrayLength",
             "Call", "GetField", "SetField", "Occurred", "Check", "Clear", "Describe",
             "Release", "DeleteRef", "PopFrame", "EnterCritical", "LeaveCritical"}

\* JNI functions that may be called with an exception pending.  Release stands for
\* Release...Chars, Release...ArrayElements, MonitorExit and PushLocalFrame.
Anytime == {"Occurred", "Check", "Clear", "Describe", "Release", "DeleteRef", "PopFrame", "LeaveCritical"}

\* The original function, alone: what a hook does when it is re-entered or its
\* caller is out of range.  Method-id hooks then still read the class name, and
\* critical hooks of the app's own count the section.
Bare(h) ==
  LET count(op) == IF inHook = 0 THEN <<op>> ELSE <<>>
  IN CASE h = "Lookup" -> {<<"method", "ClassName">>}
       [] h \in {"Throw"} -> {<<"throw_own">>}
       [] h = "Call" -> {<<"method">>}
       [] h \in {"Occurred", "Check"} -> {<<>>}
       [] h \in {"Clear", "Describe"} -> {<<"clear_own">>}
       [] h = "EnterCritical" -> {<<e>> \o count("count") : e \in {"enter", "refuse"}}
       [] h = "LeaveCritical" -> {<<"leave">> \o count("uncount")}
       [] OTHER -> {<<"original">>}

Bracket(ops) == <<"up">> \o ops \o <<"down">>

\* log_jni_lookup_deferred, LOG_OBJ_CALL and LOG_OBJ_RET.
Deferred == Bracket(<<"mint", "log">>)

\* The hook of a caller that is logged, outside any other hook.  An argument or a
\* result is deferred whatever the original function left pending.
Logged(h) ==
  CASE h = "Lookup" -> {b \o Deferred : b \in Bare(h)}
    [] h = "Register" -> {<<"original">> \o Bracket(<<"ClassName", "log">>)}
    [] h = "Reference" -> {<<"original">> \o a \o r :
         a \in {Deferred, Bracket(<<"mint", "mint", "log">>), Bracket(<<"log">>)},
         r \in {Deferred, <<"log">>}}
    [] h = "Throw" -> {<<"throw_own">> \o s : s \in {Deferred \o <<"log">>, Bracket(<<"ClassName", "log">>)}}
    [] h = "Elements" -> {<<"original">> \o Bracket(s) :
         s \in {<<"log">>, <<"ArrayItems">>, <<"ArrayItems", "log">>, <<"log", "ArrayItems", "log">>}}
    [] h = "ObjectArray" -> {<<"original">> \o Bracket(s) :
         s \in {<<"ObjectArrayItems">>, <<"ObjectArrayItems", "log", "mint", "log">>,
                <<"ObjectArrayItems", "mint", "log">>, <<"log", "ObjectArrayItems", "log">>}}
    [] h = "ArrayLength" -> {<<"original">> \o Bracket(<<"ObjectClassName", i, "log">>) :
         i \in {"ArrayItems", "ObjectArrayItems"}}
    [] h = "Call" -> {Bracket(<<"Fill">>) \o a \o <<"log", "method", "Result">> :
         a \in {<<>>, Bracket(<<"Arguments">>)}}
    [] h = "GetField" -> {Bracket(s) \o <<"original", "Result">> : s \in {<<>>, <<"Fill">>}}
    [] h = "SetField" -> {Bracket(s) \o v \o Bracket(<<"log">>) \o <<"original">> :
         s \in {<<>>, <<"Fill">>}, v \in {<<>>, Bracket(<<"Fill">>)}}
    [] h = "Occurred" ->
         IF pending THEN {Bracket(<<"clear", "log", "mint", "log", "clear", "throw">>)} ELSE {<<>>}
    [] h = "Check" -> IF pending THEN {Bracket(<<"log", "mint", "log", "delete">>)} ELSE {<<>>}
    [] h = "Clear" ->
         IF pending
         THEN {Bracket(<<"clear_own", "ObjectClassName", "ToString", "IsInstance">> \o v \o <<"log", "delete">>) :
                 v \in {<<>>, <<"StringValue">>}}
         ELSE {Bracket(<<"log">>)}
    [] h = "Describe" -> {<<"log", "clear_own">>}
    [] h = "Release" -> {<<"log", "original">>, <<"original", "log">>, <<"original">> \o Bracket(<<"log">>)}
    [] h = "DeleteRef" -> {Deferred \o <<"log", "original">>}
    [] h = "PopFrame" -> {<<"original">> \o Deferred \o Deferred}
    [] OTHER -> {b \o Bracket(<<"log">>) : b \in Bare(h)}

Bodies(h) == IF inHook > 0 THEN Bare(h) ELSE Bare(h) \cup Logged(h)
-----------------------------------------------------------------------------
(* Steps of the app.                                                        *)

\* App code calls a JNI function: only those it may call in its state.
AppCalls ==
  /\ Top.kind = "app"
  /\ \E h \in Families :
       /\ pending => h \in Anytime
       /\ sections > 0 => h \in {"EnterCritical", "LeaveCritical"}
       /\ h = "LeaveCritical" => sections > 0
       /\ h = "EnterCritical" => sections + refusals < MaxSections
       /\ h \in {"Lookup", "Call"} => Cardinality(AppFrames) < MaxNesting
       /\ \E body \in Bodies(h) : stack' = <<Hook(body)>> \o stack
  /\ UNCHANGED <<inHook, critical, pending, sections, entitled, refusals>>

\* App code returns, with an exception of its own perhaps.  What it was entitled
\* to see is its caller's business if it was called, and nobody's if rendered.
AppReturns ==
  /\ Top.kind = "app"
  /\ Len(stack) > 1
  /\ sections = 0
  /\ \E thrown \in {pending, TRUE} :
       /\ pending' = thrown
       /\ entitled' = IF Top.rendered THEN Top.kept ELSE thrown
  /\ stack' = Tail(stack)
  /\ UNCHANGED <<inHook, critical, sections, refusals>>
-----------------------------------------------------------------------------
(* Steps of a hook.                                                         *)

Reached(op) == Top.kind = "hook" /\ Top.ops # <<>> /\ Head(Top.ops) = op

Rest == <<Hook(Tail(Top.ops))>> \o Tail(stack)
Proceed == stack' = Rest

\* A helper is reached.
Expand ==
  /\ \E h \in Helpers :
       /\ Reached(h)
       /\ \E ops \in Expansions(h) : stack' = <<Hook(ops \o Tail(Top.ops))>> \o Tail(stack)
  /\ UNCHANGED <<inHook, critical, pending, sections, entitled, refusals>>

\* Wrong variant: a flag instead of a counter.
SetReentrantFlag ==
  /\ \/ Reached("up") /\ inHook' = 1
     \/ Reached("down") /\ inHook' = 0
  /\ Proceed
  /\ UNCHANGED <<critical, pending, sections, entitled, refusals>>

\* set_reentrant_call.
SetReentrant ==
  /\ \/ Reached("up") /\ inHook' = inHook + 1
     \/ Reached("down") /\ inHook' = IF inHook > 0 THEN inHook - 1 ELSE 0
  /\ Proceed
  /\ UNCHANGED <<critical, pending, sections, entitled, refusals>>

\* Wrong variant: one section ends, all of them count as ended.
SetCriticalFlag ==
  /\ \/ Reached("count") /\ critical' = critical + 1
     \/ Reached("uncount") /\ critical' = 0
  /\ Proceed
  /\ UNCHANGED <<inHook, pending, sections, entitled, refusals>>

\* set_jni_critical: raised whatever the original returned.
SetCritical ==
  /\ \/ Reached("count") /\ critical' = critical + 1
     \/ Reached("uncount") /\ critical' = IF critical > 0 THEN critical - 1 ELSE 0
  /\ Proceed
  /\ UNCHANGED <<inHook, pending, sections, entitled, refusals>>

\* Wrong variant: what was cleared to log it is not thrown again.
OwnCallNotThrowing ==
  /\ \/ \E op \in {"jni", "mint", "delete", "log", "throw"} : Reached(op) /\ UNCHANGED pending
     \/ Reached("fail") /\ pending' = TRUE
     \/ Reached("clear") /\ pending' = FALSE
  /\ Proceed
  /\ UNCHANGED <<inHook, critical, sections, entitled, refusals>>

\* A call of the logger's own into the JVM: one that changes nothing here (and
\* log, which makes none but for a refused event), one that fails,
\* ExceptionClear, Throw.
OwnCall ==
  /\ \/ \E op \in {"jni", "mint", "delete", "log"} : Reached(op) /\ UNCHANGED pending
     \/ \E op \in {"fail", "throw"} : Reached(op) /\ pending' = TRUE
     \/ Reached("clear") /\ pending' = FALSE
  /\ Proceed
  /\ UNCHANGED <<inHook, critical, sections, entitled, refusals>>

\* The function the hook stands for.
Original ==
  /\ \/ Reached("original") /\ entitled' \in {entitled, TRUE} /\ UNCHANGED <<sections, refusals>>
     \/ Reached("throw_own") /\ entitled' = TRUE /\ UNCHANGED <<sections, refusals>>
     \/ Reached("clear_own") /\ entitled' = FALSE /\ UNCHANGED <<sections, refusals>>
     \/ Reached("enter") /\ sections' = sections + 1 /\ UNCHANGED <<entitled, refusals>>
     \/ Reached("refuse") /\ refusals' = (IF inHook = 0 THEN refusals + 1 ELSE refusals) /\ UNCHANGED <<entitled, sections>>
     \/ Reached("leave") /\ sections' = sections - 1 /\ UNCHANGED <<entitled, refusals>>
  /\ pending' = entitled'
  /\ Proceed
  /\ UNCHANGED <<inHook, critical>>

\* App code runs: the method called, a class initializer, or the toString or
\* getName that the logger renders with.
RunApp ==
  /\ \/ Reached("method") /\ stack' = <<App(FALSE, FALSE)>> \o Rest /\ UNCHANGED entitled
     \/ Reached("render") /\ stack' = <<App(TRUE, entitled)>> \o Rest /\ entitled' = FALSE
  /\ UNCHANGED <<inHook, critical, pending, sections, refusals>>

HookReturns ==
  /\ Top.kind = "hook" /\ Top.ops = <<>>
  /\ stack' = Tail(stack)
  /\ UNCHANGED <<inHook, critical, pending, sections, entitled, refusals>>

ScopeNext ==
  \/ AppCalls \/ AppReturns
  \/ Expand \/ SetReentrant \/ SetCritical \/ OwnCall \/ Original \/ RunApp \/ HookReturns

ScopeSpec == ScopeInit /\ [][ScopeNext]_scopeVars
-----------------------------------------------------------------------------
(* Properties.                                                              *)

\* Whenever app code runs, its JNI calls are heard exactly if it was called: the
\* counter is back at zero after every hook and every helper, on every path and
\* at any depth, and it is above zero while the logger renders, so that the
\* logger's own calls are not logged.
RenderingIsSilent == Top.kind = "app" =>
  (inHook > 0 <=> \E i \in DOMAIN stack : stack[i].kind = "app" /\ stack[i].rendered)

\* The app sees the exceptions that it would see without the logger: none that
\* rendering left behind, and none lost that it still has to handle.
ExceptionsKept == Top.kind = "app" => (pending <=> entitled)

\* Where the logger calls into the JVM.  Rendering (vis_safe_to_call) does so only
\* outside critical sections and with no exception pending (visualize.c: "JNI
\* calls prohibited during critical sections"), even after app code ran in
\* between, and so does the Throw of an exception taken to be logged.  Deferring
\* is not guarded: NewGlobalRef is called outside critical sections, but perhaps
\* with an exception pending, in ExceptionCheck or after a Throw or a failed
\* lookup.  That exception is then the app's, never one that rendering left.
\* The DeleteGlobalRef of a refused event is not counted, see log.
CallsWhenAllowed ==
  /\ (\E op \in {"jni", "fail", "render", "throw"} : Reached(op)) => sections = 0 /\ ~pending
  /\ (\E op \in {"mint", "delete", "clear"} : Reached(op)) => sections = 0
  /\ Reached("mint") /\ pending => entitled

\* The counter of critical sections is right again whenever called app code
\* runs, also when sections nest or were opened while rendering, but for those
\* the JVM refused: each of them leaves it one too high for good, which this
\* allows for and does not forbid.
SectionsCounted ==
  Top.kind = "app" /\ inHook = 0 => critical = sections + refusals
=============================================================================
