--------------------------- MODULE LifecycleProofs ---------------------------
(***************************************************************************)
(* Proofs about Lifecycle, for any set of threads and any number of calls   *)
(* of the entry points.                                                    *)
(***************************************************************************)
EXTENDS Lifecycle, TLAPS

\* What makes OriginalsAreOriginal inductive: each table is patched only after
\* it was saved, so a table that was never saved is the original.
TablesInv ==
  /\ jniTable \in Installed
  /\ vmTable \in Installed
  /\ jniSaved \in {"none", "original"}
  /\ vmSaved \in {"none", "original"}
  /\ vmTable = "hooked" => vmSaved = "original"

\* Initially nothing is saved and nothing patched.
LEMMA InitTables == Init => TablesInv
  BY DEF Init, TablesInv, Installed

\* No step saves a patched table.
LEMMA NextTables ==
  ASSUME TablesInv, [Next]_vars
  PROVE  TablesInv'
<1> USE DEF TablesInv, Installed
<1>1. ASSUME UNCHANGED tables
      PROVE  TablesInv'
  BY <1>1 DEF tables
<1>2. ASSUME NEW t \in Threads, OnLoad(t) \/ GetCreatedJavaVMs(t) \/ GetEnv(t)
      PROVE  TablesInv'
  BY <1>1, <1>2 DEF OnLoad, GetCreatedJavaVMs, GetEnv, Enter
<1>3. ASSUME NEW a \in Actors,
             \/ InitOnce(a) \/ Resolve(a) \/ BridgeInit(a) \/ FindVm(a)
             \/ TryInstallHooks(a) \/ ActivateGo(a) \/ GoBridgeInit(a)
             \/ StartEventPipeReader(a) \/ Activated(a)
      PROVE  TablesInv'
  BY <1>1, <1>3
     DEF InitOnce, Resolve, BridgeInit, FindVm, TryInstallHooks, ActivateGo,
         GoBridgeInit, StartEventPipeReader, Activated
<1>4. ASSUME NEW a \in Actors, InstallJniHooks(a)
      PROVE  TablesInv'
  BY <1>4 DEF InstallJniHooks
<1>5. ASSUME NEW a \in Actors, InstallVmHooks(a)
      PROVE  TablesInv'
  BY <1>5 DEF InstallVmHooks
<1>6. CASE VmStarts
  BY <1>1, <1>6 DEF VmStarts
<1>7. CASE RestoreVmHooks
  BY <1>7 DEF RestoreVmHooks
<1>8. CASE UNCHANGED vars
  BY <1>1, <1>8 DEF vars, tables
<1>9. QED
  BY <1>2, <1>3, <1>4, <1>5, <1>6, <1>7, <1>8 DEF Next, Running

\* No hook ever calls itself through a saved table, however many threads
\* install, in which order, and whenever the destructor restores.
THEOREM OriginalsKept == Spec => []OriginalsAreOriginal
<1>1. TablesInv => OriginalsAreOriginal
  BY DEF TablesInv, OriginalsAreOriginal
<1>2. QED
  BY InitTables, NextTables, <1>1, PTL DEF Spec
-----------------------------------------------------------------------------
(* What an actor is inside of, as a sequence of steps.                     *)

\* Every step of `what` that is left has a step of `by` before it.
Covered(s, what, by) ==
  \A i \in 1 .. Len(s) : s[i] \in what => \E j \in 1 .. i - 1 : s[j] \in by

\* Calls(a, c) is a sequence of steps again: those of c, then those that follow
\* the one taken.
LEMMA CallsShift ==
  ASSUME NEW s \in Seq(Steps), s # <<>>, NEW c \in Seq(Steps)
  PROVE  /\ c \o Tail(s) \in Seq(Steps)
         /\ Len(c \o Tail(s)) = Len(c) + Len(s) - 1
         /\ \A i \in 1 .. Len(c) : (c \o Tail(s))[i] = c[i]
         /\ \A i \in 2 .. Len(s) : (c \o Tail(s))[Len(c) + i - 1] = s[i]
         /\ \A i \in Len(c) + 1 .. Len(c) + Len(s) - 1 : (c \o Tail(s))[i] = s[i - Len(c) + 1]
<1>1. /\ Tail(s) \in Seq(Steps) /\ Len(Tail(s)) = Len(s) - 1
      /\ \A i \in 1 .. Len(s) - 1 : Tail(s)[i] = s[i + 1]
  OBVIOUS
<1>2. \A i \in 1 .. Len(c) + Len(s) - 1 :
        (c \o Tail(s))[i] = IF i <= Len(c) THEN c[i] ELSE Tail(s)[i - Len(c)]
  BY <1>1
<1>3. Len(s) \in Nat \ {0} /\ Len(c) \in Nat
  OBVIOUS
<1>4. c \o Tail(s) \in Seq(Steps) /\ Len(c \o Tail(s)) = Len(c) + Len(s) - 1
  BY <1>1
<1>5. ASSUME NEW i \in Len(c) + 1 .. Len(c) + Len(s) - 1
      PROVE  (c \o Tail(s))[i] = s[i - Len(c) + 1]
  BY <1>1, <1>2, <1>3
<1>6. ASSUME NEW i \in 2 .. Len(s)
      PROVE  (c \o Tail(s))[Len(c) + i - 1] = s[i]
  <2>1. Len(c) + i - 1 \in Len(c) + 1 .. Len(c) + Len(s) - 1
    BY <1>3
  <2>2. Len(c) + i - 1 - Len(c) + 1 = i
    BY <1>3
  <2>3. QED
    BY <1>5, <2>1, <2>2
<1>7. QED
  BY <1>2, <1>3, <1>4, <1>5, <1>6

\* Taking a step keeps what is left covered, if the calls it makes are covered
\* and cover in its place.
LEMMA CallsCovered ==
  ASSUME NEW s \in Seq(Steps), s # <<>>, NEW c \in Seq(Steps), NEW what, NEW by,
         Covered(s, what, by), Covered(c, what, by),
         Head(s) \in by => \E k \in 1 .. Len(c) : c[k] \in by
  PROVE  Covered(c \o Tail(s), what, by)
<1> DEFINE n == c \o Tail(s)
<1>1. Len(s) \in Nat \ {0} /\ Len(c) \in Nat /\ Head(s) = s[1]
  OBVIOUS
<1> SUFFICES ASSUME NEW i \in 1 .. Len(n), n[i] \in what
             PROVE  \E j \in 1 .. i - 1 : n[j] \in by
  BY DEF Covered
<1>2. CASE i \in 1 .. Len(c)
  <2>1. PICK j \in 1 .. i - 1 : c[j] \in by
    BY <1>2, CallsShift DEF Covered
  <2>2. j \in 1 .. Len(c)
    BY <1>1, <1>2
  <2>3. QED
    BY <2>1, <2>2, CallsShift
<1>3. CASE i \in Len(c) + 1 .. Len(c) + Len(s) - 1
  <2>1. s[i - Len(c) + 1] \in what /\ i - Len(c) + 1 \in 1 .. Len(s)
    BY <1>1, <1>3, CallsShift
  <2>2. PICK j \in 1 .. i - Len(c) : s[j] \in by
    BY <1>1, <1>3, <2>1 DEF Covered
  <2>3. CASE j = 1
    <3>1. PICK k \in 1 .. Len(c) : c[k] \in by
      BY <1>1, <2>2, <2>3
    <3>2. k \in 1 .. i - 1
      BY <1>1, <1>3
    <3>3. QED
      BY <3>1, <3>2, CallsShift
  <2>4. CASE j # 1
    <3>1. j \in 2 .. Len(s) /\ Len(c) + j - 1 \in 1 .. i - 1
      BY <1>1, <1>3, <2>4
    <3>2. QED
      BY <2>2, <3>1, CallsShift
  <2>5. QED
    BY <2>3, <2>4
<1>4. QED
  BY <1>1, <1>2, <1>3, CallsShift

-----------------------------------------------------------------------------
(* The steps go in the order that puts the activation before the hooks.    *)

\* What the entry points and the steps call.
Called ==
  {<<>>, <<"resolve", "pipe", "created">>, <<"install">>, <<"activate", "patch", "publish">>,
   <<"load", "start", "activated">>, <<"init">>, <<"init", "found">>,
   <<"init", "activate", "install">>, <<"activate", "patch">>}

Activating == {"activate", "activated"}
Patching   == {"patch", "publish"}

\* In every one of them the tables are patched after an activation, and the
\* activation ends after it loaded the config and asked for the reader.
LEMMA CalledInOrder ==
  ASSUME NEW c \in Called
  PROVE  /\ c \in Seq(Steps)
         /\ Covered(c, Patching, Activating)
         /\ Covered(c, {"activated"}, {"load"})
         /\ Covered(c, {"activated"}, {"start"})
<1>1. CASE c = <<>>
  BY <1>1 DEF Covered
<1>2. CASE c = <<"install">>
  <2>1. c \in Seq(Steps) /\ Len(c) = 1 /\ c[1] = "install"
    BY <1>2 DEF Steps
  <2>2. QED
    BY <2>1 DEF Covered, Activating, Patching
<1>3. CASE c = <<"init">>
  <2>1. c \in Seq(Steps) /\ Len(c) = 1 /\ c[1] = "init"
    BY <1>3 DEF Steps
  <2>2. QED
    BY <2>1 DEF Covered, Activating, Patching
<1>4. CASE c = <<"init", "found">>
  <2>1. c \in Seq(Steps) /\ Len(c) = 2 /\ c[1] = "init" /\ c[2] = "found"
    BY <1>4 DEF Steps
  <2>2. QED
    BY <2>1 DEF Covered, Activating, Patching
<1>5. CASE c = <<"activate", "patch">>
  <2>1. c \in Seq(Steps) /\ Len(c) = 2 /\ c[1] = "activate" /\ c[2] = "patch"
    BY <1>5 DEF Steps
  <2>2. QED
    BY <2>1 DEF Covered, Activating, Patching
<1>6. CASE c = <<"resolve", "pipe", "created">>
  <2>1. c \in Seq(Steps) /\ Len(c) = 3 /\ c[1] = "resolve" /\ c[2] = "pipe" /\ c[3] = "created"
    BY <1>6 DEF Steps
  <2>2. QED
    BY <2>1 DEF Covered, Activating, Patching
<1>7. CASE c = <<"activate", "patch", "publish">>
  <2>1. c \in Seq(Steps) /\ Len(c) = 3 /\ c[1] = "activate" /\ c[2] = "patch" /\ c[3] = "publish"
    BY <1>7 DEF Steps
  <2>2. QED
    BY <2>1 DEF Covered, Activating, Patching
<1>8. CASE c = <<"load", "start", "activated">>
  <2>1. c \in Seq(Steps) /\ Len(c) = 3 /\ c[1] = "load" /\ c[2] = "start" /\ c[3] = "activated"
    BY <1>8 DEF Steps
  <2>2. QED
    BY <2>1 DEF Covered, Activating, Patching
<1>9. CASE c = <<"init", "activate", "install">>
  <2>1. c \in Seq(Steps) /\ Len(c) = 3 /\ c[1] = "init" /\ c[2] = "activate" /\ c[3] = "install"
    BY <1>9 DEF Steps
  <2>2. QED
    BY <2>1 DEF Covered, Activating, Patching
<1>10. QED
  BY <1>1, <1>2, <1>3, <1>4, <1>5, <1>6, <1>7, <1>8, <1>9 DEF Called

\* A step that calls c, or leaves with c empty, keeps every actor covered.
LEMMA CallsKeepCovered ==
  ASSUME todo \in [Actors -> Seq(Steps)], NEW a \in Actors, todo[a] # <<>>,
         NEW c \in Seq(Steps), Calls(a, c), NEW what, NEW by,
         \A b \in Actors : Covered(todo[b], what, by),
         Covered(c, what, by),
         Head(todo[a]) \in by => \E k \in 1 .. Len(c) : c[k] \in by
  PROVE  \A b \in Actors : Covered(todo'[b], what, by)
<1>1. Covered(c \o Tail(todo[a]), what, by)
  BY CallsCovered
<1>2. QED
  BY <1>1 DEF Calls

\* What is still to be done before a hook may run, where it is not done yet.
PatchLater == \A a \in Actors : Covered(todo[a], Patching, Activating)
EndLater(step) == \A a \in Actors : Covered(todo[a], {"activated"}, {step})
Patched == jniTable = "hooked" \/ vmTable = "hooked"

OrderInv ==
  /\ todo \in [Actors -> Seq(Steps)]
  /\ goOnce = "done" \/ PatchLater
  /\ ready \/ EndLater("load")
  /\ reader # "not asked" \/ EndLater("start")
  /\ goOnce = "done" => ready /\ reader # "not asked"
  /\ TablesInv
  /\ Patched => goOnce = "done"

\* Initially at most the constructor is there, before its initialization.
LEMMA InitOrder == Init => OrderInv
<1> SUFFICES ASSUME Init PROVE OrderInv
  OBVIOUS
<1>1. \A a \in Actors : todo[a] \in Called
  BY DEF Init, Called
<1>2. todo \in [Actors -> Seq(Steps)]
  BY <1>1, CalledInOrder DEF Init
<1>3. PatchLater /\ EndLater("load") /\ EndLater("start")
  BY <1>1, CalledInOrder DEF PatchLater, EndLater
<1>4. QED
  BY <1>2, <1>3, InitTables DEF OrderInv, Init, Patched

\* The step an actor takes is the first of those left.
LEMMA AtFirst ==
  ASSUME todo \in [Actors -> Seq(Steps)], NEW a \in Actors, NEW step, At(a, step)
  PROVE  /\ todo[a] \in Seq(Steps) /\ todo[a] # <<>>
         /\ 1 \in 1 .. Len(todo[a])
         /\ Head(todo[a]) = step /\ todo[a][1] = step
<1>1. todo[a] \in Seq(Steps) /\ todo[a] # <<>> /\ Head(todo[a]) = step
  BY DEF At
<1>2. QED
  BY <1>1

\* An actor that takes the step comes to it with nothing before it.
LEMMA AtHead ==
  ASSUME todo \in [Actors -> Seq(Steps)], NEW a \in Actors, NEW step, At(a, step),
         NEW what, NEW by, step \in what
  PROVE  ~ Covered(todo[a], what, by)
<1>1. ASSUME Covered(todo[a], what, by)
      PROVE  FALSE
  <2>1. PICK j \in 1 .. 1 - 1 : todo[a][j] \in by
    BY <1>1, AtFirst DEF Covered
  <2>2. QED
    BY <2>1
<1>2. QED
  BY <1>1

\* A step with calls c, where what it finished is from then on done.
LEMMA CallsKeepOrder ==
  ASSUME OrderInv, NEW a \in Actors, todo[a] # <<>>, NEW c \in Called, Calls(a, c),
         TablesInv', Patched' => goOnce' = "done",
         goOnce' = "done" => ready' /\ reader' # "not asked",
         goOnce = "done" => goOnce' = "done",
         ready => ready', reader # "not asked" => reader' # "not asked",
         Head(todo[a]) \in Activating =>
           goOnce' = "done" \/ \E k \in 1 .. Len(c) : c[k] \in Activating,
         Head(todo[a]) = "load" => ready',
         Head(todo[a]) = "start" => reader' # "not asked"
  PROVE  OrderInv'
<1>1. todo' \in [Actors -> Seq(Steps)]
  <2>1. c \o Tail(todo[a]) \in Seq(Steps)
    BY CallsShift, CalledInOrder DEF OrderInv
  <2>2. QED
    BY <2>1 DEF OrderInv, Calls
<1>2. goOnce' = "done" \/ PatchLater'
  BY CallsKeepCovered, CalledInOrder DEF OrderInv, PatchLater, tables
<1>3. ready' \/ EndLater("load")'
  BY CallsKeepCovered, CalledInOrder DEF OrderInv, EndLater
<1>4. reader' # "not asked" \/ EndLater("start")'
  BY CallsKeepCovered, CalledInOrder DEF OrderInv, EndLater
<1>5. QED
  BY <1>1, <1>2, <1>3, <1>4 DEF OrderInv

\* The same for a step that changes nothing the order is about.
LEMMA QuietCallsKeepOrder ==
  ASSUME OrderInv, NEW a \in Actors, todo[a] # <<>>, NEW c \in Called, Calls(a, c),
         UNCHANGED <<goSide, tables>>,
         Head(todo[a]) \notin Activating \cup {"load", "start"}
  PROVE  OrderInv'
<1>1. TablesInv' /\ (Patched' => goOnce' = "done")
  BY DEF OrderInv, TablesInv, Patched, goSide, tables
<1>2. QED
  BY <1>1, CallsKeepOrder DEF OrderInv, goSide

\* The activation goes on with what follows, and the reader's thread begins.
LEMMA StartTodo ==
  ASSUME todo \in [Actors -> Seq(Steps)], NEW a \in Actors, StartEventPipeReader(a)
  PROVE  \A b \in Actors :
           \/ todo'[b] = todo[b]
           \/ todo'[b] = <<"init", "found">>
           \/ b = a /\ todo'[b] = <<>> \o Tail(todo[a])
<1>1. Tail(todo[a]) = <<>> \o Tail(todo[a])
  <2>1. todo[a] \in Seq(Steps) /\ todo[a] # <<>>
    BY DEF StartEventPipeReader, At
  <2>2. Tail(todo[a]) \in Seq(Steps)
    BY <2>1
  <2>3. QED
    BY <2>2
<1>2. CASE pipe = "open"
  <2>1. todo' = [todo EXCEPT ![a] = Tail(@), ![Reader] = <<"init", "found">>]
    BY <1>2 DEF StartEventPipeReader
  <2>2. QED
    BY <1>1, <2>1
<1>3. CASE pipe # "open"
  BY <1>3 DEF StartEventPipeReader, Done, Calls
<1>4. QED
  BY <1>2, <1>3

\* Every step keeps the order.
LEMMA NextOrder ==
  ASSUME OrderInv, [Next]_vars
  PROVE  OrderInv'
<1>1. ASSUME NEW t \in Threads, NEW c \in Called, Enter(t, c)
      PROVE  OrderInv'
  <2>1. todo' \in [Actors -> Seq(Steps)]
    BY <1>1, CalledInOrder DEF Enter, OrderInv, Actors
  <2>2. \A b \in Actors : todo'[b] = todo[b] \/ todo'[b] = c
    BY <1>1 DEF Enter, OrderInv, Actors
  <2>3. goOnce' = "done" \/ PatchLater'
    BY <1>1, <2>2, CalledInOrder DEF Enter, goSide, OrderInv, PatchLater
  <2>4. ready' \/ EndLater("load")'
    BY <1>1, <2>2, CalledInOrder DEF Enter, goSide, OrderInv, EndLater
  <2>5. reader' # "not asked" \/ EndLater("start")'
    BY <1>1, <2>2, CalledInOrder DEF Enter, goSide, OrderInv, EndLater
  <2>6. QED
    BY <1>1, <2>1, <2>3, <2>4, <2>5 DEF Enter, OrderInv, TablesInv, Patched, goSide, tables
<1>2. ASSUME NEW t \in Threads, OnLoad(t) \/ GetCreatedJavaVMs(t) \/ GetEnv(t)
      PROVE  OrderInv'
  BY <1>1, <1>2 DEF OnLoad, GetCreatedJavaVMs, GetEnv, Called
<1>3. ASSUME NEW a \in Actors, InitOnce(a) \/ Resolve(a) \/ BridgeInit(a) \/ FindVm(a)
      PROVE  OrderInv'
  <2>1. todo[a] # <<>> /\ Head(todo[a]) \in {"init", "resolve", "pipe", "created", "found"}
    BY <1>3 DEF InitOnce, Resolve, BridgeInit, FindVm, At
  <2>2. UNCHANGED <<goSide, tables>>
    BY <1>3 DEF InitOnce, Resolve, BridgeInit, FindVm
  <2>3. PICK c \in {<<>>, <<"resolve", "pipe", "created">>, <<"install">>} : Calls(a, c)
    BY <1>3 DEF InitOnce, Resolve, BridgeInit, FindVm, Done
  <2>4. QED
    BY <2>1, <2>2, <2>3, QuietCallsKeepOrder DEF Called, Activating
<1>4. ASSUME NEW a \in Actors, TryInstallHooks(a)
      PROVE  OrderInv'
  BY <1>4, QuietCallsKeepOrder DEF TryInstallHooks, At, Called, Activating
<1>5. ASSUME UNCHANGED <<tables, goOnce>> \/ (UNCHANGED tables /\ goOnce # "done"), OrderInv
      PROVE  TablesInv' /\ (Patched' => goOnce' = "done")
  BY <1>5 DEF OrderInv, TablesInv, Patched, tables
<1>6. ASSUME NEW a \in Actors, ActivateGo(a)
      PROVE  OrderInv'
  <2>1. todo[a] # <<>> /\ Head(todo[a]) = "activate"
    BY <1>6 DEF ActivateGo, At
  <2>2. CASE goOnce = "fresh"
    <3> DEFINE c == <<"load", "start", "activated">>
    <3>1. Calls(a, c) /\ UNCHANGED <<ready, reader, tables>> /\ goOnce' = "running"
      BY <1>6, <2>2 DEF ActivateGo, tables
    <3>2. c \in Called /\ 3 \in 1 .. Len(c) /\ c[3] \in Activating
      BY DEF Called, Activating
    <3> HIDE DEF c
    <3>3. QED
      BY <1>5, <2>1, <2>2, <3>1, <3>2, CallsKeepOrder
  <2>3. CASE goOnce = "done"
    <3>1. Calls(a, <<>>) /\ UNCHANGED <<ready, reader, tables, goOnce>>
      BY <1>6, <2>3 DEF ActivateGo, Done, tables
    <3>2. QED
      BY <1>5, <2>1, <2>3, <3>1, CallsKeepOrder DEF Called, OrderInv
  <2>4. QED
    BY <1>6, <2>2, <2>3 DEF ActivateGo
<1>7. ASSUME NEW a \in Actors, GoBridgeInit(a)
      PROVE  OrderInv'
  <2>1. todo[a] # <<>> /\ Head(todo[a]) = "load"
    BY <1>7 DEF GoBridgeInit, At
  <2>2. Calls(a, <<>>) /\ ready' /\ UNCHANGED <<goOnce, reader, tables>>
    BY <1>7 DEF GoBridgeInit, Done, tables
  <2>3. QED
    BY <1>5, <2>1, <2>2, CallsKeepOrder DEF Called, OrderInv, Activating
<1>8. ASSUME NEW a \in Actors, StartEventPipeReader(a)
      PROVE  OrderInv'
  <2>1. todo[a] # <<>> /\ Head(todo[a]) = "start"
    BY <1>8 DEF StartEventPipeReader, At
  <2>2. UNCHANGED <<goOnce, ready, tables>> /\ reader' # "not asked"
    BY <1>8 DEF StartEventPipeReader, tables
  <2>3. \A b \in Actors :
          \/ todo'[b] = todo[b]
          \/ todo'[b] = <<"init", "found">>
          \/ b = a /\ todo'[b] = <<>> \o Tail(todo[a])
    BY <1>8, StartTodo DEF OrderInv
  <2>4. <<>> \in Called /\ <<"init", "found">> \in Called
    BY DEF Called
  <2>5. todo' \in [Actors -> Seq(Steps)]
    <3>1. \A b \in Actors : todo'[b] \in Seq(Steps)
      <4>1. <<>> \o Tail(todo[a]) \in Seq(Steps)
        BY <2>1, <2>4, CalledInOrder, CallsShift DEF OrderInv
      <4>2. QED
        BY <2>3, <2>4, <4>1, CalledInOrder DEF OrderInv
    <3>2. QED
      BY <1>8, <3>1 DEF StartEventPipeReader, OrderInv, Done, Calls
  <2>6. ASSUME NEW what, NEW by, Head(todo[a]) \notin by,
               Covered(<<>>, what, by), Covered(<<"init", "found">>, what, by),
               \A b \in Actors : Covered(todo[b], what, by)
        PROVE  \A b \in Actors : Covered(todo'[b], what, by)
    <3>1. Covered(<<>> \o Tail(todo[a]), what, by)
      BY <2>1, <2>4, <2>6, CallsCovered, CalledInOrder DEF OrderInv
    <3>2. QED
      BY <2>3, <2>6, <3>1
  <2>7. goOnce' = "done" \/ PatchLater'
    BY <2>1, <2>2, <2>4, <2>6, CalledInOrder DEF OrderInv, PatchLater, Activating
  <2>8. ready' \/ EndLater("load")'
    BY <2>1, <2>2, <2>4, <2>6, CalledInOrder DEF OrderInv, EndLater
  <2>9. QED
    BY <1>5, <2>2, <2>5, <2>7, <2>8 DEF OrderInv
<1>9. ASSUME NEW a \in Actors, Activated(a)
      PROVE  OrderInv'
  <2>1. todo[a] # <<>> /\ Head(todo[a]) = "activated"
    BY <1>9 DEF Activated, At
  <2>2. Calls(a, <<>>) /\ UNCHANGED <<ready, reader, tables>> /\ goOnce' = "done"
    BY <1>9 DEF Activated, Done, tables
  <2>3. ready /\ reader # "not asked"
    <3>1. At(a, "activated") /\ todo \in [Actors -> Seq(Steps)]
      BY <1>9 DEF Activated, OrderInv
    <3>2. ~EndLater("load") /\ ~EndLater("start")
      BY <3>1, AtHead DEF EndLater
    <3>3. QED
      BY <3>2 DEF OrderInv
  <2>4. TablesInv'
    BY <2>2 DEF OrderInv, TablesInv, tables
  <2>5. QED
    BY <2>1, <2>2, <2>3, <2>4, CallsKeepOrder DEF Called
<1>10. ASSUME NEW a \in Actors, InstallJniHooks(a) \/ InstallVmHooks(a)
       PROVE  OrderInv'
  <2>1. todo[a] # <<>> /\ Head(todo[a]) \in Patching
    BY <1>10 DEF InstallJniHooks, InstallVmHooks, At, Patching
  <2>2. Calls(a, <<>>) /\ UNCHANGED <<ready, reader, goOnce>>
    BY <1>10 DEF InstallJniHooks, InstallVmHooks, Done, goSide
  <2>3. goOnce = "done"
    <3>1. PICK step \in Patching : At(a, step)
      BY <1>10 DEF InstallJniHooks, InstallVmHooks, Patching
    <3>2. ~PatchLater
      BY <3>1, AtHead DEF PatchLater, OrderInv
    <3>3. QED
      BY <3>2 DEF OrderInv
  <2>4. TablesInv'
    BY <1>10, NextTables DEF OrderInv, Next, Running
  <2>5. QED
    BY <2>1, <2>2, <2>3, <2>4, CallsKeepOrder DEF Called, OrderInv, Patching, Activating
<1>11. CASE VmStarts \/ RestoreVmHooks \/ UNCHANGED vars
  <2>1. UNCHANGED <<todo, goSide>> /\ TablesInv' /\ (Patched' => Patched)
    <3>1. TablesInv'
      BY NextTables DEF OrderInv
    <3>2. QED
      BY <1>11, <3>1 DEF VmStarts, RestoreVmHooks, vars, goSide, tables, OrderInv, TablesInv, Patched
  <2>2. QED
    BY <2>1 DEF OrderInv, PatchLater, EndLater, goSide
<1>12. QED
  BY <1>2, <1>3, <1>4, <1>6, <1>7, <1>8, <1>9, <1>10, <1>11 DEF Next, Running

\* No hook runs before the configuration is loaded, logging is ready and the
\* reader has been asked for, whichever threads enter, in whatever order.
THEOREM HooksWait == Spec => []HooksAfterActivation
<1>1. OrderInv => HooksAfterActivation
  BY DEF OrderInv, Patched, HooksAfterActivation
<1>2. QED
  BY InitOrder, NextOrder, <1>1, PTL DEF Spec

-----------------------------------------------------------------------------
(* The event pipe is set up once.                                          *)

HasPipe(s) == \E i \in 1 .. Len(s) : s[i] = "pipe"
OnePipe(s) == \A i, j \in 1 .. Len(s) : s[i] = "pipe" /\ s[j] = "pipe" => i = j

\* Where bridge_init stands among the steps left, after a step that calls c.
LEMMA CallsPipe ==
  ASSUME NEW s \in Seq(Steps), s # <<>>, NEW c \in Seq(Steps)
  PROVE  /\ HasPipe(c \o Tail(s)) => HasPipe(c) \/ HasPipe(s)
         /\ ~HasPipe(c) /\ OnePipe(s) => OnePipe(c \o Tail(s))
         /\ ~HasPipe(s) /\ OnePipe(c) => OnePipe(c \o Tail(s))
         /\ Head(s) = "pipe" /\ OnePipe(s) /\ ~HasPipe(c) => ~HasPipe(c \o Tail(s))
<1> DEFINE n == c \o Tail(s)
<1>1. Len(s) \in Nat \ {0} /\ Len(c) \in Nat /\ Head(s) = s[1] /\ 1 \in 1 .. Len(s)
  OBVIOUS
<1>2. ASSUME NEW i \in 1 .. Len(n)
      PROVE  \/ i \in 1 .. Len(c) /\ n[i] = c[i]
             \/ i - Len(c) + 1 \in 2 .. Len(s) /\ n[i] = s[i - Len(c) + 1]
  <2>1. CASE i \in 1 .. Len(c)
    BY <2>1, CallsShift
  <2>2. CASE i \in Len(c) + 1 .. Len(c) + Len(s) - 1
    BY <1>1, <2>2, CallsShift
  <2>3. QED
    BY <1>1, <1>2, <2>1, <2>2, CallsShift
<1>3. Len(n) \in Nat /\ 2 .. Len(s) \subseteq 1 .. Len(s)
  BY <1>1, CallsShift
<1> HIDE DEF n
<1>4. HasPipe(n) => HasPipe(c) \/ HasPipe(s)
  BY <1>2, <1>3 DEF HasPipe
<1>5. ASSUME ~HasPipe(c), OnePipe(s)
      PROVE  OnePipe(n)
  <2> SUFFICES ASSUME NEW i \in 1 .. Len(n), NEW j \in 1 .. Len(n),
                      n[i] = "pipe", n[j] = "pipe"
               PROVE  i = j
    BY DEF OnePipe
  <2>1. i - Len(c) + 1 \in 1 .. Len(s) /\ s[i - Len(c) + 1] = "pipe"
    BY <1>2, <1>3, <1>5 DEF HasPipe
  <2>2. j - Len(c) + 1 \in 1 .. Len(s) /\ s[j - Len(c) + 1] = "pipe"
    BY <1>2, <1>3, <1>5 DEF HasPipe
  <2>3. i - Len(c) + 1 = j - Len(c) + 1
    BY <1>5, <2>1, <2>2 DEF OnePipe
  <2>4. QED
    BY <1>1, <1>3, <2>3
<1>6. ASSUME ~HasPipe(s), OnePipe(c)
      PROVE  OnePipe(n)
  BY <1>2, <1>3, <1>6 DEF HasPipe, OnePipe
<1>7. ASSUME Head(s) = "pipe", OnePipe(s), ~HasPipe(c)
      PROVE  ~HasPipe(n)
  <2> SUFFICES ASSUME NEW i \in 1 .. Len(n), n[i] = "pipe"
               PROVE  FALSE
    BY DEF HasPipe
  <2>1. i - Len(c) + 1 \in 2 .. Len(s) /\ s[i - Len(c) + 1] = "pipe"
    BY <1>2, <1>7 DEF HasPipe
  <2>2. i - Len(c) + 1 = 1
    BY <1>1, <1>3, <1>7, <2>1 DEF OnePipe
  <2>3. QED
    BY <2>1, <2>2
<1>8. QED
  BY <1>4, <1>5, <1>6, <1>7 DEF n

\* Only the first initialization calls bridge_init.
LEMMA CalledPipe ==
  ASSUME NEW c \in Called
  PROVE  /\ c = <<"resolve", "pipe", "created">> => OnePipe(c) /\ c[1] = "resolve" /\ c[2] = "pipe"
         /\ c # <<"resolve", "pipe", "created">> => ~HasPipe(c)
  BY DEF Called, HasPipe, OnePipe

PipeTodo ==
  /\ \A a \in Actors : OnePipe(todo[a])
  /\ \A a \in Actors : HasPipe(todo[a]) => initialized /\ pipe = "unset"
  /\ \A a, b \in Actors : HasPipe(todo[a]) /\ HasPipe(todo[b]) => a = b

\* The constructor of a preloaded library before it has called bridge_init: it
\* runs alone.  After that the pipe stays as it is.
Early ==
  /\ reader = "not asked"
  /\ \A a \in Actors \ {Worker} : todo[a] = <<>>
  /\ todo[Worker] # <<>>
  /\ \/ todo[Worker][1] = "init" /\ ~initialized
     \/ /\ initialized
        /\ 2 \in 1 .. Len(todo[Worker])
        /\ todo[Worker][1] = "resolve" /\ todo[Worker][2] = "pipe"
     \/ todo[Worker][1] = "pipe" /\ initialized

Late == initialized /\ pipe # "unset" /\ (reader = "disabled" => pipe = "failed")

PipeInv ==
  /\ initialized \in BOOLEAN
  /\ pipe \in {"unset", "open", "failed"}
  /\ reader \in {"not asked", "started", "disabled"}
  /\ reader = "started" => pipe = "open"
  /\ initialized \/ pipe = "unset"
  /\ PipeTodo
  /\ preloaded => Early \/ Late

\* Initially there is no pipe, and nobody who would set it up.
LEMMA InitPipe == Init => PipeInv
<1> SUFFICES ASSUME Init PROVE PipeInv
  OBVIOUS
<1>1. \A a \in Actors : todo[a] \in {<<>>, <<"init">>}
  BY DEF Init
<1>2. \A a \in Actors : OnePipe(todo[a]) /\ ~HasPipe(todo[a])
  BY <1>1, CalledPipe DEF Called, OnePipe, HasPipe
<1>3. preloaded => Early
  <2> SUFFICES ASSUME preloaded PROVE Early
    OBVIOUS
  <2>1. todo[Worker] = <<"init">>
    BY DEF Init, Actors
  <2>2. \A a \in Actors \ {Worker} : todo[a] = <<>>
    BY DEF Init
  <2>3. <<"init">> # <<>> /\ <<"init">>[1] = "init"
    OBVIOUS
  <2>4. QED
    BY <2>1, <2>2, <2>3 DEF Init, Early
<1>4. QED
  BY <1>2, <1>3 DEF Init, PipeInv, PipeTodo

\* A step by a that calls c and leaves pipe and reader alone.
LEMMA CallsKeepPipe ==
  ASSUME OrderInv, PipeInv, NEW a \in Actors, todo[a] # <<>>, NEW c \in Called,
         ~HasPipe(c), Calls(a, c), UNCHANGED <<preloaded, initialized, pipe, reader>>,
         preloaded => Late \/ Early'
  PROVE  PipeInv'
<1>1. c \in Seq(Steps) /\ todo[a] \in Seq(Steps)
  BY CalledInOrder DEF OrderInv
<1>2. \A b \in Actors : todo'[b] = IF b = a THEN c \o Tail(todo[a]) ELSE todo[b]
  BY DEF Calls, OrderInv
<1>3. \A b \in Actors : HasPipe(todo'[b]) => HasPipe(todo[b])
  BY <1>1, <1>2, CallsPipe
<1>4. \A b \in Actors : OnePipe(todo'[b])
  BY <1>1, <1>2, CallsPipe DEF PipeInv, PipeTodo
<1>5. PipeTodo'
  BY <1>3, <1>4 DEF PipeTodo, PipeInv
<1>6. preloaded' => Early' \/ Late'
  BY DEF Late
<1>7. QED
  BY <1>5, <1>6 DEF PipeInv

\* While the constructor runs alone, nobody takes a later step.
LEMMA NotEarly ==
  ASSUME OrderInv, PipeInv, NEW a \in Actors, NEW step, At(a, step),
         step \notin {"init", "resolve", "pipe"}
  PROVE  preloaded => Late
<1> SUFFICES ASSUME Early PROVE FALSE
  BY DEF PipeInv
<1>1. todo[a] \in Seq(Steps) /\ todo[a] # <<>> /\ todo[a][1] = step
  BY AtFirst DEF OrderInv
<1>2. a = Worker
  BY <1>1 DEF Early
<1>3. QED
  BY <1>1, <1>2 DEF Early

\* Every step keeps the pipe set up at most once, and alone when preloaded.
LEMMA NextPipe ==
  ASSUME OrderInv, PipeInv, [Next]_vars
  PROVE  PipeInv'
<1>1. ASSUME NEW t \in Threads, NEW c \in Called, ~HasPipe(c), Enter(t, c)
      PROVE  PipeInv'
  <2>1. \A b \in Actors : todo'[b] = todo[b] \/ todo'[b] = c
    BY <1>1 DEF Enter, OrderInv, Actors
  <2>2. OnePipe(c)
    BY <1>1 DEF HasPipe, OnePipe
  <2>3. UNCHANGED <<preloaded, initialized, pipe, reader>> /\ (preloaded => todo[Worker] = <<>>)
    BY <1>1 DEF Enter, goSide, ProgramRuns
  <2>4. PipeTodo'
    BY <1>1, <2>1, <2>2, <2>3 DEF PipeInv, PipeTodo
  <2>5. QED
    BY <2>3, <2>4 DEF PipeInv, Early, Late
<1>2. ASSUME NEW t \in Threads, OnLoad(t) \/ GetCreatedJavaVMs(t) \/ GetEnv(t)
      PROVE  PipeInv'
  <2>1. PICK c \in {<<"init", "activate", "install">>, <<"init", "found">>, <<"activate", "patch">>} :
          Enter(t, c)
    BY <1>2 DEF OnLoad, GetCreatedJavaVMs, GetEnv
  <2>2. c \in Called /\ c # <<"resolve", "pipe", "created">>
    BY DEF Called
  <2>3. QED
    BY <1>1, <2>1, <2>2, CalledPipe
<1>3. ASSUME NEW a \in Actors, NEW step, At(a, step),
             step \notin {"init", "resolve", "pipe"},
             NEW c \in Called, ~HasPipe(c), Calls(a, c),
             UNCHANGED <<preloaded, initialized, pipe, reader>>
      PROVE  PipeInv'
  BY <1>3, NotEarly, CallsKeepPipe DEF At
<1>4. <<>> \in Called /\ ~HasPipe(<<>>)
  BY DEF Called, HasPipe
<1>5. ASSUME NEW a \in Actors, InitOnce(a)
      PROVE  PipeInv'
  <2>1. At(a, "init") /\ initialized' /\ UNCHANGED <<preloaded, pipe, reader>>
    BY <1>5 DEF InitOnce, goSide
  <2>2. todo[a] \in Seq(Steps) /\ todo[a] # <<>> /\ todo[a][1] = "init"
    BY <2>1, AtFirst DEF OrderInv
  <2>3. CASE initialized
    <3>1. preloaded => Late
      <4> SUFFICES ASSUME Early PROVE FALSE
        BY DEF PipeInv
      <4>1. a = Worker
        BY <2>2 DEF Early
      <4>2. QED
        BY <2>2, <2>3, <4>1 DEF Early
    <3>2. Calls(a, <<>>) /\ UNCHANGED initialized
      BY <1>5, <2>1, <2>3 DEF InitOnce, Done, PipeInv
    <3>3. QED
      BY <1>4, <2>1, <2>2, <3>1, <3>2, CallsKeepPipe
  <2>4. CASE ~initialized
    <3> DEFINE c == <<"resolve", "pipe", "created">>
    <3>1. c \in Called /\ Len(c) = 3
      BY DEF Called
    <3>2. c[1] = "resolve" /\ c[2] = "pipe" /\ OnePipe(c) /\ c \in Seq(Steps)
      BY <3>1, CalledPipe, CalledInOrder
    <3>3. Calls(a, c)
      BY <1>5, <2>4 DEF InitOnce
    <3> HIDE DEF c
    <3>4. \A b \in Actors : todo'[b] = IF b = a THEN c \o Tail(todo[a]) ELSE todo[b]
      BY <3>3 DEF Calls, OrderInv
    <3>5. \A b \in Actors : ~HasPipe(todo[b])
      BY <2>4 DEF PipeInv, PipeTodo
    <3>6. \A b \in Actors : OnePipe(todo'[b]) /\ (HasPipe(todo'[b]) => b = a)
      <4>1. OnePipe(c \o Tail(todo[a]))
        BY <2>2, <3>2, <3>5, CallsPipe
      <4>2. QED
        BY <3>4, <3>5, <4>1 DEF PipeInv, PipeTodo
    <3>7. pipe = "unset"
      BY <2>4 DEF PipeInv
    <3>8. PipeTodo'
      BY <2>1, <3>6, <3>7 DEF PipeTodo
    <3>9. preloaded => Early'
      <4> SUFFICES ASSUME preloaded PROVE Early'
        OBVIOUS
      <4>1. Early /\ a = Worker
        BY <2>2, <2>4 DEF PipeInv, Early, Late
      <4>2. /\ 2 \in 1 .. Len(todo'[Worker]) /\ todo'[Worker] # <<>>
            /\ todo'[Worker][1] = "resolve" /\ todo'[Worker][2] = "pipe"
        <5>1. Len(todo[a]) \in Nat \ {0}
          BY <2>2
        <5>2. /\ todo'[Worker] \in Seq(Steps)
              /\ Len(todo'[Worker]) = Len(c) + Len(todo[a]) - 1
              /\ \A i \in 1 .. Len(c) : todo'[Worker][i] = c[i]
          <6>1. todo'[Worker] = c \o Tail(todo[a])
            BY <3>4, <4>1
          <6>2. QED
            BY <2>2, <3>2, <6>1, CallsShift
        <5>3. 1 \in 1 .. Len(c) /\ 2 \in 1 .. Len(c)
          BY <3>1
        <5>4. QED
          BY <3>1, <3>2, <5>1, <5>2, <5>3
      <4>3. \A b \in Actors \ {Worker} : todo'[b] = <<>>
        BY <3>4, <4>1 DEF Early
      <4>4. QED
        BY <2>1, <4>1, <4>2, <4>3 DEF Early
    <3>10. QED
      BY <2>1, <3>7, <3>8, <3>9 DEF PipeInv
  <2>5. QED
    BY <2>3, <2>4 DEF PipeInv
<1>6. ASSUME NEW a \in Actors, Resolve(a)
      PROVE  PipeInv'
  <2>1. At(a, "resolve") /\ Calls(a, <<>>) /\ UNCHANGED <<preloaded, initialized, pipe, reader>>
    BY <1>6 DEF Resolve, Done, goSide
  <2>2. todo[a] \in Seq(Steps) /\ todo[a] # <<>> /\ todo[a][1] = "resolve"
    BY <2>1, AtFirst DEF OrderInv
  <2>3. Early => Early'
    <3> SUFFICES ASSUME Early PROVE Early'
      OBVIOUS
    <3>1. a = Worker
      BY <2>2 DEF Early
    <3>2. initialized /\ 2 \in 1 .. Len(todo[a]) /\ todo[a][2] = "pipe"
      BY <2>2, <3>1 DEF Early
    <3>3. \A b \in Actors : todo'[b] = IF b = a THEN <<>> \o Tail(todo[a]) ELSE todo[b]
      BY <2>1 DEF Calls, OrderInv
    <3>4. <<>> \in Seq(Steps) /\ Len(<<>>) = 0
      OBVIOUS
    <3>5. Len(todo'[a]) = Len(todo[a]) - 1 /\ todo'[a][1] = "pipe" /\ todo'[a] # <<>>
      <4>1. /\ todo'[a] \in Seq(Steps)
            /\ Len(todo'[a]) = Len(<<>>) + Len(todo[a]) - 1
            /\ \A i \in 2 .. Len(todo[a]) : todo'[a][Len(<<>>) + i - 1] = todo[a][i]
        <5>1. todo'[a] = <<>> \o Tail(todo[a])
          BY <3>3
        <5>2. QED
          BY <2>2, <3>4, <5>1, CallsShift
      <4>2. 2 \in 2 .. Len(todo[a]) /\ Len(<<>>) + 2 - 1 = 1
        BY <3>2, <3>4
      <4>3. todo'[a][1] = "pipe"
        BY <3>2, <4>1, <4>2
      <4>4. QED
        BY <2>2, <3>2, <3>4, <4>1, <4>3
    <3>6. QED
      BY <2>1, <3>1, <3>2, <3>3, <3>5 DEF Early
  <2>4. QED
    BY <1>4, <2>1, <2>2, <2>3, CallsKeepPipe DEF PipeInv
<1>7. ASSUME NEW a \in Actors, BridgeInit(a)
      PROVE  PipeInv'
  <2>1. /\ At(a, "pipe") /\ Calls(a, <<>>) /\ pipe' \in {"open", "failed"}
        /\ UNCHANGED <<preloaded, initialized, reader>>
    BY <1>7 DEF BridgeInit, Done, goSide
  <2>2. todo[a] \in Seq(Steps) /\ todo[a] # <<>> /\ Head(todo[a]) = "pipe"
    BY <2>1 DEF At, OrderInv
  <2>3. HasPipe(todo[a])
    BY <2>2 DEF HasPipe
  <2>4. initialized /\ pipe = "unset" /\ \A b \in Actors \ {a} : ~HasPipe(todo[b])
    BY <2>3 DEF PipeInv, PipeTodo
  <2>5. \A b \in Actors : ~HasPipe(todo'[b])
    <3>1. ~HasPipe(<<>> \o Tail(todo[a]))
      BY <1>4, <2>2, CalledInOrder, CallsPipe DEF PipeInv, PipeTodo
    <3>2. QED
      BY <2>1, <2>4, <3>1 DEF Calls, OrderInv
  <2>6. PipeTodo'
    BY <2>5 DEF PipeTodo, HasPipe, OnePipe
  <2>7. preloaded' => Late'
    BY <2>1, <2>4 DEF PipeInv, Early, Late
  <2>8. QED
    BY <2>1, <2>4, <2>6, <2>7 DEF PipeInv
<1>8. ASSUME NEW a \in Actors, StartEventPipeReader(a)
      PROVE  PipeInv'
  <2>1. At(a, "start") /\ UNCHANGED <<preloaded, initialized, pipe>>
    BY <1>8 DEF StartEventPipeReader
  <2>2. todo[a] \in Seq(Steps) /\ todo[a] # <<>>
    BY <2>1 DEF At, OrderInv
  <2>3. \A b \in Actors :
          \/ todo'[b] = todo[b]
          \/ todo'[b] = <<"init", "found">>
          \/ b = a /\ todo'[b] = <<>> \o Tail(todo[a])
    BY <1>8, StartTodo DEF OrderInv
  <2>4. <<"init", "found">> \in Called /\ <<"init", "found">> # <<"resolve", "pipe", "created">>
    BY DEF Called
  <2>5. ~HasPipe(<<"init", "found">>)
    BY <2>4, CalledPipe
  <2>6. OnePipe(<<"init", "found">>)
    BY <2>5 DEF HasPipe, OnePipe
  <2>7. \A b \in Actors : OnePipe(todo'[b]) /\ (HasPipe(todo'[b]) => HasPipe(todo[b]))
    BY <1>4, <2>2, <2>3, <2>5, <2>6, CalledInOrder, CallsPipe DEF PipeInv, PipeTodo
  <2>8. PipeTodo'
    BY <2>1, <2>7 DEF PipeInv, PipeTodo
  <2>9. preloaded => Late
    BY <2>1, NotEarly
  <2>10. reader' = IF pipe = "open" THEN "started" ELSE "disabled"
    BY <1>8 DEF StartEventPipeReader
  <2>11. QED
    BY <2>1, <2>8, <2>9, <2>10 DEF PipeInv, Late
<1>9. ASSUME NEW a \in Actors,
             \/ FindVm(a) \/ TryInstallHooks(a) \/ ActivateGo(a) \/ GoBridgeInit(a)
             \/ Activated(a) \/ InstallJniHooks(a) \/ InstallVmHooks(a)
      PROVE  PipeInv'
  <2>1. UNCHANGED <<preloaded, initialized, pipe, reader>>
    BY <1>9 DEF FindVm, TryInstallHooks, ActivateGo, GoBridgeInit, Activated,
                InstallJniHooks, InstallVmHooks, goSide
  <2>2. PICK step : At(a, step) /\ step \notin {"init", "resolve", "pipe"}
    BY <1>9 DEF FindVm, TryInstallHooks, ActivateGo, GoBridgeInit, Activated,
                InstallJniHooks, InstallVmHooks
  <2>3. PICK c \in {<<>>, <<"install">>, <<"activate", "patch", "publish">>,
                    <<"load", "start", "activated">>} : Calls(a, c)
    BY <1>9 DEF FindVm, TryInstallHooks, ActivateGo, GoBridgeInit, Activated,
                InstallJniHooks, InstallVmHooks, Done
  <2>4. c \in Called /\ c # <<"resolve", "pipe", "created">>
    BY DEF Called
  <2>5. QED
    BY <1>3, <2>1, <2>2, <2>3, <2>4, CalledPipe
<1>10. CASE VmStarts \/ RestoreVmHooks \/ UNCHANGED vars
  <2>1. UNCHANGED <<preloaded, todo, initialized, pipe, reader>>
    BY <1>10 DEF VmStarts, RestoreVmHooks, vars, goSide
  <2>2. (Early => Early') /\ (Late => Late') /\ PipeTodo'
    BY <2>1 DEF PipeInv, PipeTodo, Early, Late
  <2>3. QED
    BY <2>1, <2>2 DEF PipeInv
<1>11. QED
  BY <1>2, <1>5, <1>6, <1>7, <1>8, <1>9, <1>10 DEF Next, Running

\* A reader is started only on a pipe, and a preloaded library has no hook in
\* use that writes to a pipe nobody reads.
THEOREM PipeRead == Spec => []PipeHasReader
<1>1. OrderInv /\ PipeInv => PipeHasReader
  BY DEF OrderInv, PipeInv, Patched, Early, Late, PipeHasReader
<1>2. Init => OrderInv /\ PipeInv
  BY InitOrder, InitPipe
<1>3. OrderInv /\ PipeInv /\ [Next]_vars => (OrderInv /\ PipeInv)'
  BY NextOrder, NextPipe
<1>4. QED
  BY <1>1, <1>2, <1>3, PTL DEF Spec

-----------------------------------------------------------------------------
(* Types.                                                                  *)

\* Initially every variable has its type.
LEMMA InitType == Init => TypeOK
<1> SUFFICES ASSUME Init PROVE TypeOK
  OBVIOUS
<1>1. todo \in [Actors -> Seq(Steps)]
  BY InitOrder DEF OrderInv
<1>2. entries \in 0 .. MaxEntries
  <2>1. MaxEntries \in Nat
    BY ActorsAssumption
  <2>2. entries = 0
    BY DEF Init
  <2>3. QED
    BY <2>1, <2>2
<1>3. preloaded \in BOOLEAN /\ {vmUp, initialized, original, ready} \subseteq BOOLEAN
  BY DEF Init
<1>4. QED
  BY <1>1, <1>2, <1>3 DEF Init, TypeOK, Installed

\* Every step keeps the types; those of the steps left and of the tables are
\* the business of OrderInv.
LEMMA NextType ==
  ASSUME TypeOK, OrderInv', [Next]_vars
  PROVE  TypeOK'
<1> DEFINE Same == UNCHANGED <<preloaded, entries, vmUp, initialized, original, pipe, goOnce, ready, reader>>
<1>1. todo' \in [Actors -> Seq(Steps)]
  BY DEF OrderInv
<1>2. /\ jniTable' \in Installed /\ vmTable' \in Installed
      /\ jniSaved' \in Installed \cup {"none"} /\ vmSaved' \in Installed \cup {"none"}
  BY DEF OrderInv, TablesInv, Installed
<1>3. CASE Same
  BY <1>1, <1>2, <1>3 DEF TypeOK
<1>4. ASSUME NEW t \in Threads, OnLoad(t) \/ GetCreatedJavaVMs(t) \/ GetEnv(t)
      PROVE  TypeOK'
  <2>1. /\ entries < MaxEntries /\ entries' = entries + 1
        /\ UNCHANGED <<preloaded, vmUp, initialized, original, pipe, goOnce, ready, reader>>
    BY <1>4 DEF OnLoad, GetCreatedJavaVMs, GetEnv, Enter, goSide
  <2>2. entries' \in 0 .. MaxEntries
    <3>1. MaxEntries \in Nat
      BY ActorsAssumption
    <3>2. entries \in 0 .. MaxEntries
      BY DEF TypeOK
    <3>3. QED
      BY <2>1, <3>1, <3>2
  <2>3. QED
    BY <1>1, <1>2, <2>1, <2>2 DEF TypeOK
<1>5. Outcomes \subseteq BOOLEAN
  BY DEF Outcomes
<1>6. ASSUME NEW a \in Actors, InitOnce(a) \/ Resolve(a) \/ BridgeInit(a)
      PROVE  TypeOK'
  BY <1>1, <1>2, <1>5, <1>6 DEF InitOnce, Resolve, BridgeInit, TypeOK, goSide
<1>7. ASSUME NEW a \in Actors,
             ActivateGo(a) \/ GoBridgeInit(a) \/ StartEventPipeReader(a) \/ Activated(a)
      PROVE  TypeOK'
  BY <1>1, <1>2, <1>7 DEF ActivateGo, GoBridgeInit, StartEventPipeReader, Activated, TypeOK
<1>8. ASSUME NEW a \in Actors,
             FindVm(a) \/ TryInstallHooks(a) \/ InstallJniHooks(a) \/ InstallVmHooks(a)
      PROVE  TypeOK'
  <2>1. Same
    BY <1>8 DEF FindVm, TryInstallHooks, InstallJniHooks, InstallVmHooks, goSide
  <2>2. QED
    BY <1>3, <2>1
<1>9. CASE VmStarts
  BY <1>1, <1>2, <1>9 DEF VmStarts, goSide, TypeOK
<1>10. CASE RestoreVmHooks \/ UNCHANGED vars
  <2>1. Same
    BY <1>10 DEF RestoreVmHooks, vars, goSide
  <2>2. QED
    BY <1>3, <2>1
<1>11. QED
  BY <1>4, <1>6, <1>7, <1>8, <1>9, <1>10 DEF Next, Running

\* Every variable keeps its type.
THEOREM TypeCorrect == Spec => []TypeOK
<1>1. Init => OrderInv /\ TypeOK
  BY InitOrder, InitType
<1>2. OrderInv /\ TypeOK /\ [Next]_vars => (OrderInv /\ TypeOK)'
  BY NextOrder, NextType
<1>3. QED
  BY <1>1, <1>2, PTL DEF Spec
=============================================================================
