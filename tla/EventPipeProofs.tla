--------------------------- MODULE EventPipeProofs ---------------------------
(***************************************************************************)
(* Proofs about EventPipe, for any set of threads, any global-ref table,    *)
(* any capacity of sidecar, id stack and socket, and any hook families.     *)
(***************************************************************************)
EXTENDS EventPipe, FiniteSetTheorems, TLAPS

-----------------------------------------------------------------------------
(* Sequences.                                                              *)

\* An element more at the end.
LEMMA AppendElements ==
  ASSUME NEW S, NEW s \in Seq(S), NEW x \in S
  PROVE  /\ Append(s, x) \in Seq(S) /\ Len(Append(s, x)) = Len(s) + 1
         /\ \A i \in 1 .. Len(s) : Append(s, x)[i] = s[i]
         /\ Append(s, x)[Len(s) + 1] = x
         /\ Last(Append(s, x)) = x /\ Append(s, x) # <<>>
  BY DEF Last

\* The last element and what is before it.
LEMMA FrontElements ==
  ASSUME NEW S, NEW s \in Seq(S), s # <<>>
  PROVE  /\ Front(s) \in Seq(S) /\ Len(Front(s)) = Len(s) - 1
         /\ \A i \in 1 .. Len(s) - 1 : Front(s)[i] = s[i]
         /\ Last(s) = s[Len(s)] /\ Last(s) \in S /\ Len(s) \in 1 .. Len(s)
<1>1. Len(s) \in Nat \ {0} /\ Len(s) - 1 \in Nat
  OBVIOUS
<1>2. Front(s) \in Seq(S)
  BY DEF Front
<1>3. Len(Front(s)) = Len(s) - 1
  BY <1>1 DEF Front
<1>4. \A i \in 1 .. Len(s) - 1 : Front(s)[i] = s[i]
  BY DEF Front
<1>5. QED
  BY <1>1, <1>2, <1>3, <1>4 DEF Last

\* The first element and what comes after it.
LEMMA TailElements ==
  ASSUME NEW S, NEW s \in Seq(S), s # <<>>
  PROVE  /\ Tail(s) \in Seq(S) /\ Len(Tail(s)) = Len(s) - 1
         /\ \A i \in 1 .. Len(s) - 1 : Tail(s)[i] = s[i + 1]
         /\ Head(s) = s[1] /\ Head(s) \in S /\ 1 \in 1 .. Len(s)
  OBVIOUS

\* Another last element.
LEMMA ReplaceLast ==
  ASSUME NEW S, NEW s \in Seq(S), s # <<>>, NEW x \in S
  PROVE  /\ [s EXCEPT ![Len(s)] = x] \in Seq(S)
         /\ [s EXCEPT ![Len(s)] = x] # <<>>
         /\ Len([s EXCEPT ![Len(s)] = x]) = Len(s)
         /\ Last([s EXCEPT ![Len(s)] = x]) = x
         /\ \A i \in 1 .. Len(s) - 1 : [s EXCEPT ![Len(s)] = x][i] = s[i]
<1> DEFINE n == [s EXCEPT ![Len(s)] = x]
<1>1. Len(s) \in 1 .. Len(s) /\ DOMAIN s = 1 .. Len(s) /\ Len(s) \in Nat
  OBVIOUS
<1>2. n \in [1 .. Len(s) -> S]
  BY <1>1
<1>3. n \in Seq(S) /\ Len(n) = Len(s)
  BY <1>1, <1>2
<1>4. n[Len(s)] = x
  BY <1>1
<1>5. ASSUME NEW i \in 1 .. Len(s) - 1
      PROVE  n[i] = s[i]
  <2>1. \A k \in Nat : \A j \in 1 .. k - 1 : j \in 1 .. k /\ j # k
    OBVIOUS
  <2>2. i \in DOMAIN s /\ i # Len(s)
    BY <1>1, <2>1
  <2>3. QED
    BY <2>2
<1> HIDE DEF n
<1>6. n # <<>> /\ Last(n) = x
  BY <1>1, <1>3, <1>4 DEF Last
<1>7. QED
  BY <1>3, <1>5, <1>6 DEF n

\* The elements of a sequence with one more.
LEMMA AppendRange ==
  ASSUME NEW S, NEW s \in Seq(S), NEW x \in S
  PROVE  Range(Append(s, x)) = Range(s) \cup {x}
<1> DEFINE n == Append(s, x)
<1>1. DOMAIN n = 1 .. Len(s) + 1 /\ DOMAIN s = 1 .. Len(s) /\ Len(s) \in Nat
  BY AppendElements
<1>2. /\ \A i \in 1 .. Len(s) : n[i] = s[i]
      /\ n[Len(s) + 1] = x
  BY AppendElements
<1> HIDE DEF n
<1>3. Range(n) \subseteq Range(s) \cup {x}
  BY <1>1, <1>2 DEF Range
<1>4. Range(s) \cup {x} \subseteq Range(n)
  BY <1>1, <1>2 DEF Range
<1>5. QED
  BY <1>3, <1>4 DEF n

\* The elements of a sequence are its head and those of its tail.
LEMMA TailRange ==
  ASSUME NEW S, NEW s \in Seq(S), s # <<>>
  PROVE  Range(s) = Range(Tail(s)) \cup {Head(s)}
<1>1. /\ DOMAIN Tail(s) = 1 .. Len(s) - 1 /\ DOMAIN s = 1 .. Len(s)
      /\ Len(s) \in Nat \ {0} /\ Head(s) = s[1]
  OBVIOUS
<1>2. \A i \in 1 .. Len(s) - 1 : Tail(s)[i] = s[i + 1]
  BY <1>1
<1>3. ASSUME NEW i \in 1 .. Len(s)
      PROVE  s[i] \in Range(Tail(s)) \cup {Head(s)}
  <2>1. CASE i = 1
    BY <1>1, <2>1
  <2>2. CASE i # 1
    <3>1. i - 1 \in 1 .. Len(s) - 1 /\ Tail(s)[i - 1] = s[i]
      BY <1>1, <1>2, <2>2
    <3>2. QED
      BY <1>1, <3>1 DEF Range
  <2>3. QED
    BY <2>1, <2>2
<1>4. Range(Tail(s)) \cup {Head(s)} \subseteq Range(s)
  BY <1>1, <1>2 DEF Range
<1>5. QED
  BY <1>1, <1>3, <1>4 DEF Range

\* The empty sequence has none.
LEMMA EmptyRange == Range(<<>>) = {}
  BY DEF Range

\* A sequence that holds nothing twice, with an element more or less.
LEMMA AppendsNew ==
  ASSUME NEW S, NEW s \in Seq(S), NEW x \in S, IsInjective(s), x \notin Range(s)
  PROVE  IsInjective(Append(s, x))
<1> DEFINE n == Append(s, x)
<1>1. DOMAIN n = 1 .. Len(s) + 1 /\ DOMAIN s = 1 .. Len(s) /\ Len(s) \in Nat
  BY AppendElements
<1>2. (\A i \in 1 .. Len(s) : n[i] = s[i]) /\ n[Len(s) + 1] = x
  BY AppendElements
<1>3. \A i \in 1 .. Len(s) : s[i] # x
  BY <1>1 DEF Range
<1>4. ASSUME NEW i \in 1 .. Len(s) + 1, NEW j \in 1 .. Len(s) + 1, n[i] = n[j]
      PROVE  i = j
  <2>1. CASE i \in 1 .. Len(s) /\ j \in 1 .. Len(s)
    BY <1>1, <1>2, <1>4, <2>1 DEF IsInjective
  <2>2. CASE i = Len(s) + 1 \/ j = Len(s) + 1
    BY <1>1, <1>2, <1>3, <1>4, <2>2
  <2>3. QED
    BY <1>1, <2>1, <2>2
<1>5. QED
  BY <1>1, <1>4 DEF IsInjective

\* The head of a sequence that holds nothing twice is not in its tail.
LEMMA TailInjective ==
  ASSUME NEW S, NEW s \in Seq(S), s # <<>>, IsInjective(s)
  PROVE  IsInjective(Tail(s)) /\ Head(s) \notin Range(Tail(s))
<1>1. DOMAIN Tail(s) = 1 .. Len(s) - 1 /\ DOMAIN s = 1 .. Len(s) /\ Len(s) \in Nat \ {0}
  OBVIOUS
<1>2. \A i \in 1 .. Len(s) - 1 : Tail(s)[i] = s[i + 1] /\ i + 1 \in 1 .. Len(s) /\ i + 1 # 1
  BY <1>1
<1>3. Head(s) = s[1] /\ 1 \in 1 .. Len(s)
  BY <1>1
<1>4. IsInjective(Tail(s))
  BY <1>1, <1>2 DEF IsInjective
<1>5. Head(s) \notin Range(Tail(s))
  BY <1>1, <1>2, <1>3 DEF IsInjective, Range
<1>6. QED
  BY <1>4, <1>5

-----------------------------------------------------------------------------
(* Where a hook stands.                                                    *)

HookMove(t) == BeginCall(t) \/ BeginSingle(t) \/ BeginReturn(t) \/ HookStep(t)

ReaderMove == ReaderStep \/ ReaderFail

\* Thread u keeps what belongs to it.
Untouched(u) ==
  /\ sidecar'[u] = sidecar[u] /\ own'[u] = own[u] /\ ids'[u] = ids[u]
  /\ frames'[u] = frames[u] /\ step'[u] = step[u] /\ event'[u] = event[u]

HookTypes ==
  /\ sidecar \in [Threads -> Seq(Refs)]
  /\ own \in [Threads -> Refs \cup {NoRef}]
  /\ ids \in [Threads -> Seq(0 .. MaxId)]
  /\ frames \in [Threads -> Seq(Frame)]
  /\ step \in [Threads -> Steps]
  /\ event \in [Threads -> [type : EventTypes \cup {"none"}, allowed : BOOLEAN,
                            todo : Nat, pushed : Nat]]

\* What the steps of a hook rely on.
HookOK(t) ==
  /\ step[t] = "app" <=> event[t].type = "none"
  /\ step[t] = "mint" => event[t].todo > 0 /\ Len(sidecar[t]) < MaxRefs
  /\ step[t] \in {"ownMint", "send"} => event[t].allowed
  /\ step[t] = "ownMint" => own[t] = NoRef /\ event[t].type \in Deferring
  /\ own[t] # NoRef => step[t] = "send" /\ event[t].type \in Deferring
  /\ event[t].type \in {"call"} \cup Returns =>
       frames[t] # <<>> /\ event[t].allowed = Last(frames[t]).allowed
  /\ event[t].type = "call" /\ step[t] = "send" => Last(frames[t]).cid \in 1 .. counter
  /\ Len(sidecar[t]) <= MaxRefs

\* Calls that wait for their id.
Waiting == {t \in Threads : event[t].type = "call" /\ step[t] # "send"}

HookInv ==
  /\ HookTypes
  /\ \A t \in Threads : HookOK(t)
  /\ counter \in Nat
  /\ counter + Cardinality(Waiting) <= MaxId

\* What the families are made of.
LEMMA FamilyParts ==
  ASSUME NEW h \in Families
  PROVE  /\ h.kind \in {"paired", "field", "lookup", "plain"}
         /\ h.args \in SUBSET Nat
         /\ h.rets \in SUBSET {"value", "sidecar", "own"}
  BY FamiliesAssumption
     DEF Hooks, Paired, Single, CallMethodHook, CallStaticMethodHook,
         CallNonvirtualMethodHook, CallVoidMethodHook, CallStaticVoidMethodHook,
         CallNonvirtualVoidMethodHook, NewObjectHook, ReferenceHook, ObjectHook,
         TwoObjectsHook, StringHook, ThrowHook, FromReflectedHook,
         SetObjectArrayElementHook, GetObjectArrayElementHook, ExceptionHook, BufferHook,
         ToReflectedHook, PrimitiveArrayHook, CriticalHook, ArrayRegionHook, MonitorHook,
         GetFieldHook, SetFieldHook, StaticFieldHook, LookupHook, FindClassHook,
         RegisterNativesHook

\* A step is a step of one thread, of the reader, or none.
LEMMA NextSplit ==
  ASSUME [Next]_vars
  PROVE  (\E t \in Threads : HookMove(t)) \/ ReaderMove \/ UNCHANGED vars
  BY DEF Next, HookMove, ReaderMove

\* A hook's step leaves the other threads alone.
LEMMA OthersUntouched ==
  ASSUME HookTypes, NEW t \in Threads, HookMove(t), NEW u \in Threads, u # t
  PROVE  Untouched(u)
<1> USE DEF HookTypes, Untouched, Prepare, GoTo, Finish, Leave
<1>1. CASE BeginCall(t)
  BY <1>1 DEF BeginCall
<1>2. CASE BeginSingle(t)
  BY <1>2 DEF BeginSingle
<1>3. CASE BeginReturn(t)
  BY <1>3 DEF BeginReturn
<1>4. CASE DeferRenderPush(t)
  BY <1>4 DEF DeferRenderPush
<1>5. CASE MintRef(t)
  BY <1>5 DEF MintRef
<1>6. CASE Filtered(t)
  BY <1>6 DEF Filtered
<1>7. CASE PassCall(t)
  BY <1>7 DEF PassCall
<1>8. CASE PassOther(t)
  BY <1>8 DEF PassOther
<1>9. CASE MintOwn(t)
  BY <1>9 DEF MintOwn
<1>10. CASE Emit(t)
  BY <1>10 DEF Emit
<1>11. QED
  BY <1>1, <1>2, <1>3, <1>4, <1>5, <1>6, <1>7, <1>8, <1>9, <1>10 DEF HookMove, HookStep

\* The reader leaves all of them alone.
LEMMA ReaderUntouched ==
  ASSUME ReaderMove \/ UNCHANGED vars
  PROVE  UNCHANGED <<hookVars, counter, dropped>>
  BY DEF ReaderMove, ReaderStep, ReaderFail, ReaderAttach, ReaderPublish, ReaderRead,
         RenderRef, Route, unchangedByReader, vars

\* An event in preparation has its type.
LEMMA PreparingType ==
  ASSUME NEW type \in EventTypes \cup {"none"}, NEW allowed \in BOOLEAN, NEW todo \in Nat
  PROVE  Preparing(type, allowed, todo) \in
           [type : EventTypes \cup {"none"}, allowed : BOOLEAN, todo : Nat, pushed : Nat]
  BY DEF Preparing

\* And so has the idle event.
LEMMA IdleType ==
  Idle \in [type : EventTypes \cup {"none"}, allowed : BOOLEAN, todo : Nat, pushed : Nat]
  BY PreparingType DEF Idle

\* The constants' types, one by one.
LEMMA Constants ==
  /\ MaxId \in Nat /\ StackCap \in Nat /\ MaxRefs \in Nat \ {0} /\ SockCap \in Nat \ {0}
  /\ Gates \subseteq BOOLEAN /\ NoRef \notin Refs /\ IsFiniteSet(Threads)
  BY ConstantsAssumption

\* The calls that wait can be counted.
LEMMA WaitingFinite ==
  IsFiniteSet(Waiting) /\ IsFiniteSet(Waiting') /\ Cardinality(Waiting) \in Nat
    /\ Cardinality(Waiting') \in Nat
<1>1. Waiting \subseteq Threads /\ Waiting' \subseteq Threads
  BY DEF Waiting
<1>2. QED
  BY <1>1, Constants, FS_Subset, FS_CardinalityType

\* A call that begins is one more that waits for an id.
LEMMA BeginCallKeeps ==
  ASSUME HookInv, NEW t \in Threads, BeginCall(t)
  PROVE  HookTypes' /\ HookOK(t)' /\ counter' + Cardinality(Waiting') <= MaxId
<1>1. PICK h \in Families, allowed \in Gates :
        /\ h.kind = "paired"
        /\ \E n \in h.args : Prepare(t, Preparing("call", allowed, n))
        /\ frames' = [frames EXCEPT ![t] = Append(@, [family |-> h, allowed |-> allowed, cid |-> 0])]
  BY DEF BeginCall
<1>2. PICK n \in h.args : Prepare(t, Preparing("call", allowed, n))
  BY <1>1
<1>3. allowed \in BOOLEAN /\ n \in Nat
  BY Constants, FamilyParts
<1> DEFINE f == [family |-> h, allowed |-> allowed, cid |-> 0]
<1>4. f \in Frame
  BY <1>3, Constants DEF Frame
<1>5. Append(frames[t], f) \in Seq(Frame) /\ Append(frames[t], f) # <<>>
      /\ Last(Append(frames[t], f)) = f
  <2>1. frames[t] \in Seq(Frame)
    BY DEF HookInv, HookTypes
  <2> HIDE DEF f
  <2>2. QED
    BY <1>4, <2>1, AppendElements
<1>6. Preparing("call", allowed, n) \in
        [type : EventTypes \cup {"none"}, allowed : BOOLEAN, todo : Nat, pushed : Nat]
  BY <1>3, PreparingType DEF EventTypes
<1>7. frames'[t] = Append(frames[t], f) /\ frames' \in [Threads -> Seq(Frame)]
  BY <1>1, <1>5 DEF HookInv, HookTypes
<1>8. event'[t] = Preparing("call", allowed, n) /\ step'[t] = "log"
  BY <1>2 DEF Prepare, GoTo, HookInv, HookTypes
<1>9. /\ event' \in [Threads -> [type : EventTypes \cup {"none"}, allowed : BOOLEAN,
                                 todo : Nat, pushed : Nat]]
      /\ step' \in [Threads -> Steps]
  BY <1>2, <1>6 DEF Prepare, GoTo, HookInv, HookTypes, Steps
<1>10. UNCHANGED <<sidecar, own, ids, counter>>
  BY DEF BeginCall
<1>11. HookTypes'
  BY <1>7, <1>9, <1>10 DEF HookInv, HookTypes
<1>12. HookOK(t)'
  BY <1>5, <1>7, <1>8, <1>10 DEF HookInv, HookOK, Preparing, BeginCall, AppRuns
<1>13. t \notin Waiting /\ Waiting' = Waiting \cup {t}
  <2>1. t \notin Waiting
    BY DEF Waiting, HookInv, HookOK, BeginCall, AppRuns
  <2>2. t \in Waiting'
    BY <1>8 DEF Waiting, Preparing
  <2>3. ASSUME NEW u \in Threads, u # t
        PROVE  u \in Waiting' <=> u \in Waiting
    BY <2>3, OthersUntouched DEF HookMove, HookInv, Untouched, Waiting
  <2>4. QED
    BY <2>1, <2>2, <2>3 DEF Waiting
<1>14. Cardinality(Waiting') = Cardinality(Waiting) + 1
  BY <1>13, WaitingFinite, FS_AddElement
<1>15. counter + Cardinality(Waiting) < MaxId
  BY DEF BeginCall, IdsSuffice, Waiting
<1>16. QED
  BY <1>10, <1>11, <1>12, <1>14, <1>15, WaitingFinite, Constants DEF HookInv

\* No other step makes a call wait; one that gets its id no longer does.
LEMMA OthersWaiting ==
  ASSUME HookInv, NEW t \in Threads, HookMove(t), event[t].type # "call" => event'[t].type # "call",
         step[t] # "send" \/ step'[t] = "send" \/ event'[t].type # "call"
  PROVE  Waiting' \subseteq Waiting /\ Waiting \subseteq Waiting' \cup {t}
<1>1. ASSUME NEW u \in Threads, u # t
      PROVE  u \in Waiting' <=> u \in Waiting
  BY <1>1, OthersUntouched DEF HookInv, Untouched, Waiting
<1>2. t \in Waiting' => t \in Waiting
  BY DEF Waiting
<1>3. QED
  BY <1>1, <1>2 DEF Waiting

\* Fewer calls wait, so fewer are counted.
LEMMA WaitingShrinks ==
  ASSUME Waiting' \subseteq Waiting
  PROVE  Cardinality(Waiting') <= Cardinality(Waiting)
  BY WaitingFinite, FS_Subset

\* What a step of t that does not begin a call has to show.
LEMMA HookStepKeeps ==
  ASSUME HookInv, NEW t \in Threads, HookMove(t), HookTypes', HookOK(t)', counter' = counter,
         event[t].type # "call" => event'[t].type # "call",
         step[t] # "send" \/ step'[t] = "send" \/ event'[t].type # "call"
  PROVE  HookInv'
<1>1. ASSUME NEW u \in Threads, u # t
      PROVE  HookOK(u)'
  <2>1. Untouched(u) /\ HookOK(u)
    BY <1>1, OthersUntouched DEF HookInv
  <2>2. QED
    BY <2>1 DEF HookOK, Untouched
<1>2. Cardinality(Waiting') <= Cardinality(Waiting)
  BY OthersWaiting, WaitingShrinks
<1>3. counter' + Cardinality(Waiting') <= MaxId
  BY <1>2, WaitingFinite, Constants DEF HookInv
<1>4. QED
  BY <1>1, <1>3 DEF HookInv

\* A single event or a return begins.
LEMMA BeginKeeps ==
  ASSUME HookInv, NEW t \in Threads, BeginSingle(t) \/ BeginReturn(t)
  PROVE  HookInv'
<1>1. step[t] = "app" /\ event[t].type = "none" /\ UNCHANGED <<sidecar, own, ids, frames, counter>>
  BY DEF BeginSingle, BeginReturn, AppRuns, HookInv, HookOK
<1>2. PICK type \in EventTypes \ {"call"}, allowed \in BOOLEAN, n \in Nat :
        /\ Prepare(t, Preparing(type, allowed, n))
        /\ type \in Returns => frames[t] # <<>> /\ allowed = Last(frames[t]).allowed
  <2>1. CASE BeginSingle(t)
    <3>1. PICK h \in Families, allowed \in Gates :
            /\ h.kind # "paired"
            /\ \E n \in h.args : Prepare(t, Preparing(h.kind, allowed, n))
      BY <2>1 DEF BeginSingle
    <3>2. PICK n \in h.args : Prepare(t, Preparing(h.kind, allowed, n))
      BY <3>1
    <3>3. h.kind \in {"field", "lookup", "plain"} /\ n \in Nat /\ allowed \in BOOLEAN
      BY <3>1, FamilyParts, Constants
    <3>4. QED
      BY <3>2, <3>3 DEF EventTypes, Returns, Deferring
  <2>2. CASE BeginReturn(t)
    <3>1. PICK style \in Last(frames[t]).family.rets :
            Prepare(t, Preparing(IF style = "own" THEN "objReturn" ELSE "return",
                                 Last(frames[t]).allowed, IF style = "sidecar" THEN 1 ELSE 0))
      BY <2>2 DEF BeginReturn
    <3>2. frames[t] # <<>> /\ Last(frames[t]) \in Frame
      BY <2>2, FrontElements DEF BeginReturn, HookInv, HookTypes
    <3>3. Last(frames[t]).allowed \in BOOLEAN
      BY <3>2 DEF Frame
    <3>4. QED
      BY <3>1, <3>2, <3>3 DEF EventTypes, Returns
  <2>3. QED
    BY <2>1, <2>2
<1>3. event'[t] = Preparing(type, allowed, n) /\ step'[t] = "log"
  BY <1>2 DEF Prepare, GoTo, HookInv, HookTypes
<1>4. HookTypes'
  <2>1. Preparing(type, allowed, n) \in
          [type : EventTypes \cup {"none"}, allowed : BOOLEAN, todo : Nat, pushed : Nat]
    BY PreparingType
  <2>2. QED
    BY <1>1, <1>2, <2>1 DEF Prepare, GoTo, HookInv, HookTypes, Steps
<1>5. HookOK(t)'
  <2>1. event'[t].type = type /\ event'[t].allowed = allowed /\ type # "none"
    BY <1>3 DEF Preparing, EventTypes, Returns, Deferring
  <2>2. HookOK(t)
    BY DEF HookInv
  <2>3. QED
    BY <1>1, <1>2, <1>3, <2>1, <2>2 DEF HookOK, Returns
<1>6. event'[t].type # "call"
  BY <1>3 DEF Preparing
<1>7. QED
  BY <1>1, <1>4, <1>5, <1>6, HookStepKeeps DEF HookMove

\* One ref less to push, in the sidecar or not.
LEMMA TodoLess ==
  ASSUME HookTypes, NEW t \in Threads, event[t].todo > 0,
         \/ event' = [event EXCEPT ![t].todo = @ - 1]
         \/ event' = [event EXCEPT ![t].todo = @ - 1, ![t].pushed = @ + 1]
  PROVE  /\ event' \in [Threads -> [type : EventTypes \cup {"none"}, allowed : BOOLEAN,
                                    todo : Nat, pushed : Nat]]
         /\ event'[t].type = event[t].type /\ event'[t].allowed = event[t].allowed
<1>1. event[t] \in [type : EventTypes \cup {"none"}, allowed : BOOLEAN, todo : Nat, pushed : Nat]
  BY DEF HookTypes
<1>2. event[t].todo - 1 \in Nat /\ event[t].pushed + 1 \in Nat
  BY <1>1
<1>3. event \in [Threads -> [type : EventTypes \cup {"none"}, allowed : BOOLEAN,
                            todo : Nat, pushed : Nat]]
  BY DEF HookTypes
<1>4. CASE event' = [event EXCEPT ![t].todo = @ - 1]
  BY <1>1, <1>2, <1>3, <1>4
<1>5. CASE event' = [event EXCEPT ![t].todo = @ - 1, ![t].pushed = @ + 1]
  <2> DEFINE e == [event[t] EXCEPT !.todo = @ - 1, !.pushed = @ + 1]
  <2>1. e \in [type : EventTypes \cup {"none"}, allowed : BOOLEAN, todo : Nat, pushed : Nat]
        /\ e.type = event[t].type /\ e.allowed = event[t].allowed
    BY <1>1, <1>2
  <2>2. event' = [event EXCEPT ![t] = e]
    BY <1>1, <1>3, <1>5
  <2> HIDE DEF e
  <2>3. QED
    BY <1>3, <2>1, <2>2
<1>6. QED
  BY <1>4, <1>5

\* A ref is deferred, minted, or rendered in place.
LEMMA PushKeeps ==
  ASSUME HookInv, NEW t \in Threads, DeferRenderPush(t) \/ MintRef(t)
  PROVE  HookInv'
<1> USE DEF HookInv
<1>1. /\ HookTypes /\ HookOK(t) /\ event[t].todo > 0 /\ step[t] \in {"log", "mint"}
      /\ UNCHANGED <<own, ids, frames, counter>>
  BY DEF DeferRenderPush, MintRef, HookOK
<1>2. /\ sidecar[t] \in Seq(Refs) /\ step \in [Threads -> Steps]
      /\ sidecar \in [Threads -> Seq(Refs)]
  BY <1>1 DEF HookTypes
<1>3. CASE DeferRenderPush(t) /\ ready /\ Len(sidecar[t]) < MaxRefs
  <2>1. step' = [step EXCEPT ![t] = "mint"] /\ UNCHANGED <<sidecar, event>>
    BY <1>3 DEF DeferRenderPush, GoTo
  <2>2. step'[t] = "mint" /\ step[t] = "log" /\ step' \in [Threads -> Steps]
    BY <1>2, <1>3, <2>1 DEF DeferRenderPush, Steps
  <2>3. HookTypes'
    BY <1>1, <2>1, <2>2 DEF HookTypes
  <2>4. HookOK(t)'
    BY <1>1, <1>3, <2>1, <2>2 DEF HookOK
  <2>5. QED
    BY <1>1, <2>1, <2>2, <2>3, <2>4, HookStepKeeps DEF HookMove, HookStep
<1>4. CASE DeferRenderPush(t) /\ ~(ready /\ Len(sidecar[t]) < MaxRefs)
  <2>1. /\ event' = [event EXCEPT ![t].todo = @ - 1] /\ UNCHANGED <<sidecar, step>>
        /\ step[t] = "log"
    BY <1>4 DEF DeferRenderPush
  <2>2. /\ event' \in [Threads -> [type : EventTypes \cup {"none"}, allowed : BOOLEAN,
                                   todo : Nat, pushed : Nat]]
        /\ event'[t].type = event[t].type /\ event'[t].allowed = event[t].allowed
    BY <1>1, <2>1, TodoLess
  <2>3. HookTypes'
    BY <1>1, <2>1, <2>2 DEF HookTypes
  <2>4. HookOK(t)'
    BY <1>1, <2>1, <2>2 DEF HookOK
  <2>5. QED
    BY <1>1, <1>4, <2>1, <2>2, <2>3, <2>4, HookStepKeeps DEF HookMove, HookStep
<1>5. CASE MintRef(t)
  <2>1. step' = [step EXCEPT ![t] = "log"] /\ step[t] = "mint" /\ Len(sidecar[t]) < MaxRefs
    BY <1>1, <1>5 DEF MintRef, GoTo, HookOK
  <2>2. step'[t] = "log" /\ step' \in [Threads -> Steps]
    BY <1>2, <2>1 DEF Steps
  <2>3. /\ event' \in [Threads -> [type : EventTypes \cup {"none"}, allowed : BOOLEAN,
                                   todo : Nat, pushed : Nat]]
        /\ event'[t].type = event[t].type /\ event'[t].allowed = event[t].allowed
    BY <1>1, <1>5, TodoLess DEF MintRef
  <2>4. sidecar' \in [Threads -> Seq(Refs)] /\ Len(sidecar'[t]) <= MaxRefs
    <3>1. CASE UNCHANGED sidecar
      BY <1>2, <2>1, <3>1, Constants
    <3>2. ASSUME NEW r \in Refs, sidecar' = [sidecar EXCEPT ![t] = Append(@, r)]
          PROVE  sidecar' \in [Threads -> Seq(Refs)] /\ Len(sidecar'[t]) <= MaxRefs
      <4>1. Append(sidecar[t], r) \in Seq(Refs)
            /\ Len(Append(sidecar[t], r)) = Len(sidecar[t]) + 1
        BY <1>2, AppendElements
      <4>2. QED
        BY <1>2, <2>1, <3>2, <4>1, Constants
    <3>3. QED
      BY <1>5, <3>1, <3>2 DEF MintRef
  <2>5. HookTypes'
    BY <1>1, <2>2, <2>3, <2>4 DEF HookTypes
  <2>6. HookOK(t)'
    BY <1>1, <2>1, <2>2, <2>3, <2>4 DEF HookOK
  <2>7. QED
    BY <1>1, <1>5, <2>1, <2>2, <2>3, <2>5, <2>6, HookStepKeeps DEF HookMove, HookStep
<1>6. QED
  BY <1>3, <1>4, <1>5

\* A hook that is done: the innermost frame goes with a return.
LEMMA LeaveTypes ==
  ASSUME HookInv, NEW t \in Threads, Leave(t)
  PROVE  frames' \in [Threads -> Seq(Frame)]
<1>1. CASE event[t].type \in Returns
  <2>1. frames[t] \in Seq(Frame) /\ frames[t] # <<>>
    BY <1>1 DEF HookInv, HookTypes, HookOK
  <2>2. Front(frames[t]) \in Seq(Frame)
    BY <2>1, FrontElements
  <2>3. QED
    BY <1>1, <2>2 DEF HookInv, HookTypes, Leave
<1>2. CASE event[t].type \notin Returns
  BY <1>2 DEF HookInv, HookTypes, Leave
<1>3. QED
  BY <1>1, <1>2

\* What every step that ends a hook has to show.
LEMMA FinishKeeps ==
  ASSUME HookInv, NEW t \in Threads, HookMove(t), Finish(t), Leave(t), own'[t] = NoRef,
         sidecar' \in [Threads -> Seq(Refs)], Len(sidecar'[t]) <= MaxRefs,
         own' \in [Threads -> Refs \cup {NoRef}], ids' \in [Threads -> Seq(0 .. MaxId)],
         counter' = counter
  PROVE  HookInv'
<1>1. event'[t] = Idle /\ step'[t] = "app"
  BY DEF Finish, GoTo, HookInv, HookTypes
<1>2. event'[t].type = "none"
  BY <1>1 DEF Idle, Preparing
<1>3. HookTypes'
  BY IdleType, LeaveTypes DEF Finish, GoTo, HookInv, HookTypes, Steps
<1>4. HookOK(t)'
  BY <1>1, <1>2 DEF HookOK, Returns
<1>5. QED
  BY <1>2, <1>3, <1>4, HookStepKeeps

\* A filtered event ends its hook.
LEMMA FilteredKeeps ==
  ASSUME HookInv, NEW t \in Threads, Filtered(t)
  PROVE  HookInv'
<1>1. own[t] = NoRef /\ Len(sidecar[t]) <= MaxRefs
  BY DEF Filtered, AtGate, HookInv, HookOK
<1>2. QED
  BY <1>1, FinishKeeps DEF Filtered, HookMove, HookStep, HookInv, HookTypes

\* What tls_pop_call_id leaves and returns.
LEMMA PoppedType ==
  ASSUME HookInv, NEW t \in Threads
  PROVE  Popped(t) \in Seq(0 .. MaxId) /\ PoppedId(t) \in 0 .. MaxId
<1>1. ids[t] \in Seq(0 .. MaxId)
  BY DEF HookInv, HookTypes
<1>2. CASE ids[t] = <<>>
  BY <1>2, Constants DEF Popped, PoppedId
<1>3. CASE ids[t] # <<>>
  BY <1>1, <1>3, FrontElements DEF Popped, PoppedId
<1>4. QED
  BY <1>2, <1>3

\* An event that was sent, or refused, ends its hook.
LEMMA EmitKeeps ==
  ASSUME HookInv, NEW t \in Threads, Emit(t)
  PROVE  HookInv'
<1>1. /\ sidecar' = [sidecar EXCEPT ![t] = <<>>] /\ own' = [own EXCEPT ![t] = NoRef]
      /\ Finish(t) /\ Leave(t) /\ UNCHANGED counter
  BY DEF Emit
<1>2. sidecar' \in [Threads -> Seq(Refs)] /\ Len(sidecar'[t]) <= MaxRefs
  BY <1>1, Constants DEF HookInv, HookTypes
<1>3. own' \in [Threads -> Refs \cup {NoRef}] /\ own'[t] = NoRef
  BY <1>1 DEF HookInv, HookTypes
<1>4. ids' \in [Threads -> Seq(0 .. MaxId)]
  BY PoppedType DEF Emit, HookInv, HookTypes
<1>5. QED
  BY <1>1, <1>2, <1>3, <1>4, FinishKeeps DEF HookMove, HookStep

\* An event other than a call passes the gate.
LEMMA PassOtherKeeps ==
  ASSUME HookInv, NEW t \in Threads, PassOther(t)
  PROVE  HookInv'
<1>1. /\ UNCHANGED <<sidecar, own, ids, frames, event, counter>>
      /\ step[t] = "log" /\ event[t].allowed /\ event[t].type # "call" /\ HookOK(t)
  BY DEF PassOther, AtGate, HookInv
<1>2. /\ step'[t] \in {"ownMint", "send"} /\ step' \in [Threads -> Steps]
      /\ step'[t] = "ownMint" => event[t].type \in Deferring
  BY DEF PassOther, GoTo, HookInv, HookTypes, Steps
<1>3. HookTypes'
  BY <1>1, <1>2 DEF HookInv, HookTypes
<1>4. HookOK(t)'
  BY <1>1, <1>2 DEF HookOK
<1>5. QED
  BY <1>1, <1>3, <1>4, HookStepKeeps DEF HookMove, HookStep

\* Only a lookup or an object return mints a ref of its own.
LEMMA MintOwnKeeps ==
  ASSUME HookInv, NEW t \in Threads, MintOwn(t)
  PROVE  HookInv'
<1>1. /\ UNCHANGED <<sidecar, ids, frames, event, counter>>
      /\ step[t] = "ownMint" /\ HookOK(t)
  BY DEF MintOwn, HookInv
<1>2. step'[t] = "send" /\ step' \in [Threads -> Steps]
  BY DEF MintOwn, GoTo, HookInv, HookTypes, Steps
<1>3. own' \in [Threads -> Refs \cup {NoRef}]
  BY DEF MintOwn, HookInv, HookTypes
<1>4. HookTypes'
  BY <1>1, <1>2, <1>3 DEF HookInv, HookTypes
<1>5. HookOK(t)'
  BY <1>1, <1>2 DEF HookOK, Deferring
<1>6. QED
  BY <1>1, <1>4, <1>5, HookStepKeeps DEF HookMove, HookStep, Deferring

\* A call that gets its id no longer waits for one.
LEMMA PassCallCounts ==
  ASSUME HookInv, NEW t \in Threads, PassCall(t)
  PROVE  /\ counter' = counter + 1 /\ counter' \in 1 .. MaxId
         /\ counter' + Cardinality(Waiting') <= MaxId
<1>1. counter' = counter + 1 /\ UNCHANGED event /\ event[t].type = "call" /\ step[t] = "log"
  BY DEF PassCall, AtGate
<1>2. step'[t] = "send"
  BY DEF PassCall, GoTo, HookInv, HookTypes
<1>3. t \in Waiting /\ Waiting' = Waiting \ {t}
  <2>1. ASSUME NEW u \in Threads, u # t
        PROVE  u \in Waiting' <=> u \in Waiting
    BY <2>1, OthersUntouched DEF HookMove, HookStep, HookInv, Untouched, Waiting
  <2>2. QED
    BY <1>1, <1>2, <2>1 DEF Waiting
<1>4. Cardinality(Waiting') = Cardinality(Waiting) - 1
  BY <1>3, WaitingFinite, FS_RemoveElement
<1>5. QED
  BY <1>1, <1>4, WaitingFinite, Constants DEF HookInv

\* What it leaves behind: its frame knows the id.
LEMMA PassCallFrame ==
  ASSUME HookInv, NEW t \in Threads, PassCall(t)
  PROVE  /\ frames' \in [Threads -> Seq(Frame)] /\ frames'[t] # <<>>
         /\ Len(frames'[t]) = Len(frames[t])
         /\ Last(frames'[t]).cid = counter + 1
         /\ Last(frames'[t]).allowed = Last(frames[t]).allowed
         /\ frames[t] # <<>>
         /\ \A i \in 1 .. Len(frames[t]) - 1 : frames'[t][i] = frames[t][i]
<1>1. /\ frames[t] \in Seq(Frame) /\ frames[t] # <<>>
      /\ frames \in [Threads -> Seq(Frame)]
  BY DEF PassCall, HookInv, HookTypes, HookOK
<1>2. Last(frames[t]) \in Frame /\ Last(frames[t]) = frames[t][Len(frames[t])]
      /\ Len(frames[t]) \in DOMAIN frames[t]
  BY <1>1, FrontElements
<1> DEFINE f == [Last(frames[t]) EXCEPT !.cid = counter + 1]
<1>3. f \in Frame /\ f.cid = counter + 1 /\ f.allowed = Last(frames[t]).allowed
  BY <1>2, PassCallCounts DEF Frame
<1>4. frames' = [frames EXCEPT ![t] = [frames[t] EXCEPT ![Len(frames[t])] = f]]
  BY <1>1, <1>2 DEF PassCall
<1> HIDE DEF f
<1>5. frames'[t] = [frames[t] EXCEPT ![Len(frames[t])] = f]
  BY <1>1, <1>4
<1> DEFINE n == [frames[t] EXCEPT ![Len(frames[t])] = f]
<1>6. /\ n \in Seq(Frame) /\ n # <<>> /\ Len(n) = Len(frames[t]) /\ Last(n) = f
      /\ \A i \in 1 .. Len(frames[t]) - 1 : n[i] = frames[t][i]
  BY <1>1, <1>3, ReplaceLast
<1>7. frames'[t] = n /\ frames' = [frames EXCEPT ![t] = n]
  BY <1>4, <1>5
<1> HIDE DEF n
<1>8. frames' \in [Threads -> Seq(Frame)]
  BY <1>1, <1>6, <1>7
<1>9. QED
  BY <1>1, <1>3, <1>6, <1>7, <1>8

\* A call passes the gate: its id is within the bound.
LEMMA PassCallKeeps ==
  ASSUME HookInv, NEW t \in Threads, PassCall(t)
  PROVE  HookInv'
<1>1. /\ UNCHANGED <<sidecar, own, event>> /\ event[t].type = "call" /\ event[t].allowed
      /\ counter' = counter + 1 /\ counter' \in 1 .. MaxId
      /\ step[t] = "log" /\ HookOK(t)
  BY PassCallCounts DEF PassCall, AtGate, HookInv
<1>2. step'[t] = "send" /\ step' \in [Threads -> Steps]
  BY DEF PassCall, GoTo, HookInv, HookTypes, Steps
<1>3. ids' \in [Threads -> Seq(0 .. MaxId)]
  <2>1. ids[t] \in Seq(0 .. MaxId)
        /\ (IF Len(ids[t]) < StackCap THEN counter + 1 ELSE 0) \in 0 .. MaxId
    BY <1>1, Constants DEF HookInv, HookTypes
  <2>2. Append(ids[t], IF Len(ids[t]) < StackCap THEN counter + 1 ELSE 0) \in Seq(0 .. MaxId)
    BY <2>1, AppendElements
  <2>3. QED
    BY <2>2 DEF PassCall, HookInv, HookTypes
<1>4. HookTypes'
  BY <1>1, <1>2, <1>3, PassCallFrame DEF HookInv, HookTypes
<1>5. HookOK(t)'
  BY <1>1, <1>2, PassCallFrame DEF HookOK, Deferring, HookInv
<1>6. ASSUME NEW u \in Threads, u # t
      PROVE  HookOK(u)'
  <2>1. Untouched(u) /\ HookOK(u)
    BY <1>6, OthersUntouched DEF HookMove, HookStep, HookInv
  <2>2. \A n \in 1 .. counter : n \in 1 .. counter'
    BY <1>1 DEF HookInv
  <2>3. QED
    BY <2>1, <2>2 DEF HookOK, Untouched
<1>7. QED
  BY <1>1, <1>4, <1>5, <1>6, PassCallCounts DEF HookInv

\* A call begins.
LEMMA BeginCallKeepsAll ==
  ASSUME HookInv, NEW t \in Threads, BeginCall(t)
  PROVE  HookInv'
<1>1. ASSUME NEW u \in Threads, u # t
      PROVE  HookOK(u)'
  <2>1. Untouched(u) /\ HookOK(u) /\ counter' = counter
    BY <1>1, OthersUntouched DEF HookMove, HookInv, BeginCall
  <2>2. QED
    BY <2>1 DEF HookOK, Untouched
<1>2. QED
  BY <1>1, BeginCallKeeps DEF HookInv, BeginCall

\* HookInv holds at the start.
LEMMA InitHooks == Init => HookInv
<1> SUFFICES ASSUME Init PROVE HookInv
  OBVIOUS
<1>1. Waiting = {}
  BY DEF Init, Waiting, Idle, Preparing
<1>2. Cardinality(Waiting) = 0
  BY <1>1, FS_EmptySet
<1>3. HookTypes
  BY IdleType, Constants DEF Init, HookTypes, Steps
<1>4. ASSUME NEW t \in Threads
      PROVE  HookOK(t)
  <2>1. step[t] = "app" /\ event[t].type = "none" /\ sidecar[t] = <<>> /\ own[t] = NoRef
    BY DEF Init, Idle, Preparing
  <2>2. QED
    BY <2>1, Constants DEF HookOK, Returns
<1>5. QED
  BY <1>2, <1>3, <1>4, Constants DEF HookInv, Init

\* Every step keeps it.
LEMMA NextHooks == HookInv /\ [Next]_vars => HookInv'
<1> SUFFICES ASSUME HookInv, [Next]_vars PROVE HookInv'
  OBVIOUS
<1>1. CASE \E t \in Threads : HookMove(t)
  <2>1. PICK t \in Threads : HookMove(t)
    BY <1>1
  <2>2. QED
    BY <2>1, BeginCallKeepsAll, BeginKeeps, PushKeeps, FilteredKeeps, PassCallKeeps,
       PassOtherKeeps, MintOwnKeeps, EmitKeeps DEF HookMove, HookStep
<1>2. CASE ReaderMove \/ UNCHANGED vars
  <2>1. /\ sidecar' = sidecar /\ own' = own /\ ids' = ids /\ frames' = frames
        /\ step' = step /\ event' = event /\ counter' = counter
    BY <1>2, ReaderUntouched DEF hookVars
  <2>2. HookTypes'
    BY <2>1 DEF HookInv, HookTypes
  <2>3. ASSUME NEW t \in Threads
        PROVE  HookOK(t)'
    <3>1. HookOK(t)
      BY DEF HookInv
    <3>2. QED
      BY <2>1, <3>1 DEF HookOK
  <2>4. Waiting' = Waiting
    BY <2>1 DEF Waiting
  <2>5. QED
    BY <2>1, <2>2, <2>3, <2>4 DEF HookInv
<1>3. QED
  BY <1>1, <1>2, NextSplit

\* Where a hook stands, what it holds and how many calls wait for an id fit
\* together in every reachable state: a ref of its own is held only by an
\* event that may carry one and is about to be sent, a call or a return has
\* its frame, and the ids suffice for the calls that are on their way
\* (hook_logging.c, bridge.c).
THEOREM HooksInvariant == Spec => []HookInv
  BY InitHooks, NextHooks, PTL DEF Spec


-----------------------------------------------------------------------------
(* Who owns a global ref.                                                  *)

PipeTypes ==
  /\ live \in SUBSET Refs
  /\ ready \in BOOLEAN
  /\ socket \in Seq(Wire)
  /\ reader \in {"starting", "attached", "draining", "gone"}
  /\ consumerEnv \in BOOLEAN
  /\ datagram \in Wire \cup {NoEvent}

\* Nothing is carried twice by the same event.
WireOnce(w) == IsInjective(w.refs) /\ w.own \notin Range(w.refs)

EachOnce ==
  /\ \A t \in Threads : IsInjective(sidecar[t]) /\ own[t] \notin Range(sidecar[t])
  /\ \A i \in DOMAIN socket : WireOnce(socket[i])
  /\ WireOnce(datagram)

\* No ref exists before a reader is there that can render it.
RendererFirst ==
  /\ ready \/ reader = "attached" => consumerEnv
  /\ reader = "gone" => datagram = NoEvent
  /\ ~consumerEnv /\ reader # "gone" =>
       live = {} /\ \A t \in Threads : step[t] \notin {"mint", "ownMint"}

\* EveryRefHasOneOwner, handle by handle.
Owners ==
  /\ \A r \in Refs :
       r \in live <=> (\E t \in Threads : r \in HeldBy(t)) \/ r \in InPipe \/ r \in RefsOf(datagram)
  /\ \A t, u \in Threads : t # u => \A r \in HeldBy(t) : r \notin HeldBy(u)
  /\ \A t \in Threads : \A r \in HeldBy(t) : r \notin InPipe /\ r \notin RefsOf(datagram)
  /\ \A i, j \in DOMAIN socket : i # j => \A r \in RefsOf(socket[i]) : r \notin RefsOf(socket[j])
  /\ \A r \in InPipe : r \notin RefsOf(datagram)

RefInv == HookInv /\ PipeTypes /\ EachOnce /\ Owners /\ RendererFirst

\* What a step may do to the refs: nothing, or one move of one owner.
Nothing == UNCHANGED <<live, sidecar, own, socket, datagram>>

OthersKeep(t) == \A u \in Threads \ {t} : HeldBy(u)' = HeldBy(u)

Minted(t, r) ==
  /\ r \in Refs \ live /\ live' = live \cup {r}
  /\ HeldBy(t)' = HeldBy(t) \cup {r} /\ OthersKeep(t)
  /\ UNCHANGED <<socket, datagram>>

HandedOver(t) ==
  /\ \E w \in Wire : RefsOf(w) = HeldBy(t) /\ WireOnce(w) /\ socket' = Append(socket, w)
  /\ HeldBy(t)' = {} /\ OthersKeep(t)
  /\ UNCHANGED <<live, datagram>>

Discarded(t) ==
  /\ live' = live \ HeldBy(t)
  /\ HeldBy(t)' = {} /\ OthersKeep(t)
  /\ UNCHANGED <<socket, datagram>>

Received ==
  /\ datagram = NoEvent /\ socket # <<>>
  /\ datagram' = Head(socket) /\ socket' = Tail(socket)
  /\ UNCHANGED <<live, sidecar, own>>

Deleted(rs) ==
  /\ rs \subseteq RefsOf(datagram) /\ \A r, q \in rs : r = q
  /\ live' = live \ rs /\ RefsOf(datagram)' = RefsOf(datagram) \ rs
  /\ UNCHANGED <<sidecar, own, socket>>

RefMove ==
  \/ Nothing
  \/ \E t \in Threads : (\E r \in Refs : Minted(t, r)) \/ HandedOver(t) \/ Discarded(t)
  \/ Received
  \/ \E rs \in SUBSET Refs : Deleted(rs)

\* A thread holds handles of the table.
LEMMA HeldTypes ==
  ASSUME HookInv, NEW t \in Threads
  PROVE  /\ sidecar[t] \in Seq(Refs) /\ own[t] \in Refs \cup {NoRef}
         /\ HeldBy(t) \subseteq Refs
<1>1. sidecar[t] \in Seq(Refs) /\ own[t] \in Refs \cup {NoRef}
  BY DEF HookInv, HookTypes
<1>2. Range(sidecar[t]) \subseteq Refs
  BY <1>1 DEF Range
<1>3. QED
  BY <1>1, <1>2 DEF HeldBy

\* So does a datagram.
LEMMA WireRefs ==
  ASSUME NEW w \in Wire
  PROVE  w.refs \in Seq(Refs) /\ w.own \in Refs \cup {NoRef} /\ RefsOf(w) \subseteq Refs
<1>1. w.refs \in Seq(Refs) /\ w.own \in Refs \cup {NoRef}
  BY DEF Wire
<1>2. Range(w.refs) \subseteq Refs
  BY <1>1 DEF Range
<1>3. QED
  BY <1>1, <1>2 DEF RefsOf

\* No datagram, no refs.
LEMMA NoEventRefs == RefsOf(NoEvent) = {} /\ WireOnce(NoEvent)
<1>1. NoEvent.refs = <<>> /\ NoEvent.own = NoRef
  BY DEF NoEvent
<1>2. IsInjective(<<>>)
  BY DEF IsInjective
<1>3. QED
  BY <1>1, <1>2, EmptyRange DEF RefsOf, WireOnce

\* The datagram being dispatched holds handles of the table.
LEMMA DatagramRefs ==
  ASSUME PipeTypes
  PROVE  RefsOf(datagram) \subseteq Refs
  BY WireRefs, NoEventRefs DEF PipeTypes

\* A handle is in the pipe when some queued datagram holds it.
LEMMA InPipeMember ==
  ASSUME NEW r
  PROVE  r \in InPipe <=> \E i \in DOMAIN socket : r \in RefsOf(socket[i])
  BY DEF InPipe

\* The refs on a queue with a datagram more or less.
LEMMA PipeTypesParts ==
  ASSUME PipeTypes
  PROVE  /\ DOMAIN socket = 1 .. Len(socket) /\ Len(socket) \in Nat
         /\ \A i \in DOMAIN socket : socket[i] \in Wire
         /\ InPipe \subseteq Refs
<1>1. /\ DOMAIN socket = 1 .. Len(socket) /\ Len(socket) \in Nat
      /\ \A i \in DOMAIN socket : socket[i] \in Wire
  BY DEF PipeTypes
<1>2. QED
  BY <1>1, WireRefs, InPipeMember

\* The queue with one datagram more.
LEMMA PipeAppend ==
  ASSUME PipeTypes, NEW w \in Wire, socket' = Append(socket, w)
  PROVE  /\ DOMAIN socket' = 1 .. Len(socket) + 1
         /\ \A i \in DOMAIN socket : socket'[i] = socket[i]
         /\ socket'[Len(socket) + 1] = w
         /\ \A r : r \in InPipe' <=> r \in InPipe \/ r \in RefsOf(w)
<1>1. /\ DOMAIN socket' = 1 .. Len(socket) + 1
      /\ DOMAIN socket = 1 .. Len(socket) /\ Len(socket) \in Nat
      /\ \A i \in DOMAIN socket : socket'[i] = socket[i]
      /\ socket'[Len(socket) + 1] = w
  BY AppendElements DEF PipeTypes
<1>2. ASSUME NEW r
      PROVE  r \in InPipe' <=> r \in InPipe \/ r \in RefsOf(w)
  <2>1. r \in InPipe' <=> \E i \in DOMAIN socket' : r \in RefsOf(socket'[i])
    BY DEF InPipe, RefsOf
  <2>2. QED
    BY <1>1, <2>1, InPipeMember
<1>3. QED
  BY <1>1, <1>2

\* The queue without its first datagram.
LEMMA PipeTail ==
  ASSUME PipeTypes, socket # <<>>, socket' = Tail(socket)
  PROVE  /\ DOMAIN socket' = 1 .. Len(socket) - 1
         /\ \A i \in DOMAIN socket' : socket'[i] = socket[i + 1] /\ i + 1 \in DOMAIN socket
         /\ Head(socket) = socket[1] /\ 1 \in DOMAIN socket
         /\ \A r : r \in InPipe <=> r \in InPipe' \/ r \in RefsOf(Head(socket))
<1>1. /\ DOMAIN socket' = 1 .. Len(socket) - 1
      /\ DOMAIN socket = 1 .. Len(socket) /\ Len(socket) \in Nat \ {0}
      /\ \A i \in DOMAIN socket' : socket'[i] = socket[i + 1] /\ i + 1 \in DOMAIN socket
      /\ Head(socket) = socket[1] /\ 1 \in DOMAIN socket
  BY TailElements DEF PipeTypes
<1>2. ASSUME NEW r
      PROVE  r \in InPipe <=> r \in InPipe' \/ r \in RefsOf(Head(socket))
  <2>1. r \in InPipe' <=> \E i \in DOMAIN socket' : r \in RefsOf(socket'[i])
    BY DEF InPipe, RefsOf
  <2>2. ASSUME NEW i \in DOMAIN socket, i # 1
        PROVE  i - 1 \in DOMAIN socket' /\ socket'[i - 1] = socket[i]
    <3>1. i \in 1 .. Len(socket) /\ i - 1 \in 1 .. Len(socket) - 1 /\ (i - 1) + 1 = i
      BY <1>1, <2>2
    <3>2. QED
      BY <1>1, <3>1
  <2>3. ASSUME r \in InPipe, r \notin RefsOf(Head(socket))
        PROVE  r \in InPipe'
    <3>1. PICK i \in DOMAIN socket : r \in RefsOf(socket[i])
      BY <2>3, InPipeMember
    <3>2. i # 1
      BY <1>1, <2>3, <3>1
    <3>3. i - 1 \in DOMAIN socket' /\ socket'[i - 1] = socket[i]
      BY <2>2, <3>2
    <3>4. QED
      BY <2>1, <3>1, <3>3
  <2>4. ASSUME r \in InPipe'
        PROVE  r \in InPipe
    <3>1. PICK i \in DOMAIN socket' : r \in RefsOf(socket'[i])
      BY <2>1, <2>4
    <3>2. i + 1 \in DOMAIN socket /\ r \in RefsOf(socket[i + 1])
      BY <1>1, <3>1
    <3>3. QED
      BY <3>2, InPipeMember
  <2>5. ASSUME r \in RefsOf(Head(socket))
        PROVE  r \in InPipe
    <3>1. 1 \in DOMAIN socket /\ r \in RefsOf(socket[1])
      BY <1>1, <2>5
    <3>2. QED
      BY <3>1, InPipeMember
  <2>6. QED
    BY <2>3, <2>4, <2>5
<1>3. QED
  BY <1>1, <1>2

\* The datagram that t's event becomes.
LEMMA DatagramParts ==
  ASSUME HookInv, NEW t \in Threads, step[t] = "send"
  PROVE  /\ Datagram(t) \in Wire
         /\ Datagram(t).refs = sidecar[t] /\ Datagram(t).own = own[t]
         /\ RefsOf(Datagram(t)) = HeldBy(t)
<1>1. event[t].type \in EventTypes
  BY DEF HookInv, HookTypes, HookOK
<1>2. event[t].type \in {"call"} \cup Returns => Last(frames[t]).cid \in 0 .. MaxId
  <2>1. ASSUME event[t].type \in {"call"} \cup Returns
        PROVE  Last(frames[t]) \in Frame
    BY <2>1, FrontElements DEF HookInv, HookTypes, HookOK
  <2>2. QED
    BY <2>1 DEF Frame
<1>3. PoppedId(t) \in 0 .. MaxId /\ 0 \in 0 .. MaxId
  BY PoppedType, Constants
<1>4. event[t].type \in Returns => Owed(t) \in 0 .. MaxId
  BY <1>2, <1>3 DEF Owed
<1>5. sidecar[t] \in Seq(Refs) /\ own[t] \in Refs \cup {NoRef}
  BY HeldTypes
<1>6. Datagram(t).type \in EventTypes
  BY <1>1 DEF Datagram, EventTypes, Returns
<1>7. Datagram(t).id \in 0 .. MaxId
  BY <1>1, <1>2, <1>3 DEF Datagram, EventTypes, Returns
<1>8. Datagram(t).owes \in 0 .. MaxId
  BY <1>1, <1>2, <1>3, <1>4 DEF Datagram, EventTypes, Returns
<1>9. Datagram(t).refs = sidecar[t] /\ Datagram(t).own = own[t]
  BY DEF Datagram
<1>10. Datagram(t) = [type |-> Datagram(t).type, id |-> Datagram(t).id,
                      owes |-> Datagram(t).owes, own |-> own[t], refs |-> sidecar[t]]
  BY DEF Datagram
<1>11. Datagram(t) \in Wire
  BY <1>5, <1>6, <1>7, <1>8, <1>10 DEF Wire
<1>12. QED
  BY <1>9, <1>11 DEF RefsOf, HeldBy

\* Every step of a thread is such a move.
LEMMA HookRefMove ==
  ASSUME RefInv, NEW t \in Threads, HookMove(t)
  PROVE  Nothing \/ (\E r \in Refs : Minted(t, r)) \/ HandedOver(t) \/ Discarded(t)
<1>1. HookInv /\ HookTypes
  BY DEF RefInv, HookInv
<1>2. OthersKeep(t)
  BY <1>1, OthersUntouched DEF OthersKeep, Untouched, HeldBy
<1>3. CASE BeginCall(t) \/ BeginSingle(t) \/ BeginReturn(t) \/ DeferRenderPush(t)
           \/ Filtered(t) \/ PassCall(t) \/ PassOther(t)
  BY <1>3 DEF BeginCall, BeginSingle, BeginReturn, DeferRenderPush, Filtered, PassCall,
              PassOther, Nothing
<1>4. CASE MintRef(t)
  <2>1. ASSUME NEW r \in Refs \ live, live' = live \cup {r},
               sidecar' = [sidecar EXCEPT ![t] = Append(@, r)], UNCHANGED <<own, socket, datagram>>
        PROVE  Minted(t, r)
    <3>1. sidecar'[t] = Append(sidecar[t], r) /\ own'[t] = own[t] /\ sidecar[t] \in Seq(Refs)
      BY <1>1, <2>1 DEF HookTypes
    <3>2. Range(sidecar'[t]) = Range(sidecar[t]) \cup {r}
      BY <3>1, AppendRange
    <3>3. QED
      BY <1>2, <2>1, <3>1, <3>2 DEF Minted, HeldBy
  <2>2. QED
    BY <1>4, <2>1 DEF MintRef, Nothing
<1>5. CASE MintOwn(t)
  <2>1. ASSUME NEW r \in Refs \ live, live' = live \cup {r}, own' = [own EXCEPT ![t] = r],
               UNCHANGED <<sidecar, socket, datagram>>
        PROVE  Minted(t, r)
    <3>1. own'[t] = r /\ own[t] = NoRef /\ r # NoRef /\ sidecar'[t] = sidecar[t]
      BY <1>1, <1>5, <2>1, Constants DEF MintOwn, HookTypes, HookInv, HookOK
    <3>2. QED
      BY <1>2, <2>1, <3>1 DEF Minted, HeldBy
  <2>2. QED
    BY <1>5, <2>1 DEF MintOwn, Nothing
<1>6. CASE Emit(t)
  <2>1. /\ sidecar'[t] = <<>> /\ own'[t] = NoRef /\ step[t] = "send"
        /\ UNCHANGED datagram
    BY <1>1, <1>6 DEF Emit, HookTypes
  <2>2. HeldBy(t)' = {}
    BY <2>1, EmptyRange DEF HeldBy
  <2>3. Datagram(t) \in Wire /\ RefsOf(Datagram(t)) = HeldBy(t) /\ WireOnce(Datagram(t))
    BY <1>1, <2>1, DatagramParts DEF RefInv, EachOnce, WireOnce
  <2>4. CASE Delivered(t)
    BY <1>2, <2>1, <2>2, <2>3, <2>4 DEF Delivered, HandedOver
  <2>5. CASE Refused(t)
    BY <1>2, <2>1, <2>2, <2>3, <2>5 DEF Refused, Discarded
  <2>6. QED
    BY <1>6, <2>4, <2>5 DEF Emit
<1>7. QED
  BY <1>3, <1>4, <1>5, <1>6 DEF HookMove, HookStep

\* A datagram with refs has a reader that can render it.
LEMMA RefsRendered ==
  ASSUME RefInv
  PROVE  RefsReachARenderer
<1>1. RefsOf(datagram) \subseteq live
  BY DatagramRefs DEF RefInv, Owners
<1>2. QED
  BY <1>1, NoEventRefs DEF RefInv, RendererFirst, RefsReachARenderer

\* Every step of the reader is a move of the refs: it receives a datagram,
\* deletes one ref, or does nothing to them.
LEMMA ReaderRefMove ==
  ASSUME RefInv, ReaderMove \/ UNCHANGED vars
  PROVE  Nothing \/ Received \/ (\E rs \in SUBSET Refs : Deleted(rs))
<1>1. UNCHANGED <<sidecar, own>>
  BY ReaderUntouched DEF hookVars
<1>2. CASE ReaderAttach \/ ReaderPublish \/ ReaderFail \/ UNCHANGED vars
  BY <1>1, <1>2 DEF ReaderAttach, ReaderPublish, ReaderFail, vars, Nothing
<1>3. CASE ReaderRead
  BY <1>1, <1>3 DEF ReaderRead, Received
<1>4. CASE RenderRef
  <2>1. datagram.refs # <<>> /\ datagram \in Wire
    BY <1>4 DEF RenderRef, RefInv, PipeTypes, NoEvent
  <2>2. datagram.refs \in Seq(Refs) /\ WireOnce(datagram) /\ RefsOf(datagram) \subseteq Refs
    BY <2>1, WireRefs DEF RefInv, EachOnce
  <2> DEFINE h == Head(datagram.refs)
  <2>3. /\ Range(datagram.refs) = Range(Tail(datagram.refs)) \cup {h}
        /\ h \notin Range(Tail(datagram.refs)) /\ h \in Refs
    BY <2>1, <2>2, TailRange, TailInjective, TailElements DEF WireOnce
  <2>4. datagram'.refs = Tail(datagram.refs) /\ datagram'.own = datagram.own
    BY <1>4, <2>1 DEF RenderRef, Wire
  <2>5. h \in RefsOf(datagram) /\ h # datagram.own
    BY <2>2, <2>3 DEF RefsOf, WireOnce
  <2>6. RefsOf(datagram)' = RefsOf(datagram) \ {h}
    BY <2>3, <2>4, <2>5 DEF RefsOf
  <2>7. live' = live \ {h}
    BY <1>4, <2>5, RefsRendered DEF RenderRef, Released, RefsReachARenderer
  <2>8. Deleted({h})
    BY <1>1, <1>4, <2>5, <2>6, <2>7 DEF RenderRef, Deleted
  <2>9. QED
    BY <2>3, <2>8
<1>5. CASE Route
  <2>1. datagram.refs = <<>> /\ datagram' = NoEvent /\ datagram \in Wire
        /\ live' = live \ Released({datagram.own} \ {NoRef})
    BY <1>5 DEF Route, RefInv, PipeTypes
  <2>2. RefsOf(datagram) = {datagram.own} \ {NoRef} /\ RefsOf(datagram) \subseteq Refs
    BY <2>1, WireRefs, EmptyRange DEF RefsOf
  <2>3. Released(RefsOf(datagram)) = RefsOf(datagram)
    BY RefsRendered DEF Released, RefsReachARenderer
  <2>4. Deleted(RefsOf(datagram))
    BY <1>1, <1>5, <2>1, <2>2, <2>3, NoEventRefs DEF Route, Deleted
  <2>5. QED
    BY <2>2, <2>4
<1>6. QED
  BY <1>2, <1>3, <1>4, <1>5 DEF ReaderMove, ReaderStep

-----------------------------------------------------------------------------
(* The moves keep one owner for every ref.                                 *)

\* A thread minted a ref that was free.
LEMMA MintedKeeps ==
  ASSUME RefInv, HookInv', NEW t \in Threads, NEW r \in Refs, Minted(t, r)
  PROVE  Owners'
<1>1. InPipe' = InPipe /\ RefsOf(datagram)' = RefsOf(datagram)
  BY DEF Minted, InPipe, RefsOf
<1>2. /\ r \notin InPipe /\ r \notin RefsOf(datagram)
      /\ \A u \in Threads : r \notin HeldBy(u)
  BY DEF Minted, RefInv, Owners
<1>3. UNCHANGED <<socket, datagram>> /\ live' = live \cup {r}
  BY DEF Minted
<1>4. /\ HeldBy(t)' = HeldBy(t) \cup {r}
      /\ \A u \in Threads : u # t => HeldBy(u)' = HeldBy(u)
  BY DEF Minted, OthersKeep
<1>5. \A i \in DOMAIN socket : RefsOf(socket[i])' = RefsOf(socket[i])
  BY <1>3 DEF RefsOf
<1>6. QED
  BY <1>1, <1>2, <1>3, <1>4, <1>5 DEF RefInv, Owners

\* A thread deleted all it held.
LEMMA DiscardedKeeps ==
  ASSUME RefInv, NEW t \in Threads, Discarded(t)
  PROVE  Owners'
<1>1. InPipe' = InPipe /\ RefsOf(datagram)' = RefsOf(datagram)
  BY DEF Discarded, InPipe, RefsOf
<1>3. UNCHANGED <<socket, datagram>> /\ live' = live \ HeldBy(t)
  BY DEF Discarded
<1>4. /\ HeldBy(t)' = {}
      /\ \A u \in Threads : u # t => HeldBy(u)' = HeldBy(u)
  BY DEF Discarded, OthersKeep
<1>5. QED
  BY <1>1, <1>3, <1>4 DEF RefInv, Owners, RefsOf

\* A thread handed all it held to the pipe.
LEMMA HandedOverKeeps ==
  ASSUME RefInv, NEW t \in Threads, HandedOver(t)
  PROVE  Owners'
<1>1. PICK w \in Wire : RefsOf(w) = HeldBy(t) /\ socket' = Append(socket, w)
  BY DEF HandedOver
<1>2. /\ DOMAIN socket' = 1 .. Len(socket) + 1
      /\ \A i \in DOMAIN socket : socket'[i] = socket[i]
      /\ socket'[Len(socket) + 1] = w
      /\ \A r : r \in InPipe' <=> r \in InPipe \/ r \in RefsOf(w)
      /\ DOMAIN socket = 1 .. Len(socket) /\ Len(socket) \in Nat
  BY <1>1, PipeAppend, PipeTypesParts DEF RefInv
<1>3. /\ HeldBy(t)' = {}
      /\ \A u \in Threads : u # t => HeldBy(u)' = HeldBy(u)
      /\ UNCHANGED <<live, datagram>> /\ RefsOf(datagram)' = RefsOf(datagram)
  BY DEF HandedOver, OthersKeep, RefsOf
<1>4. ASSUME NEW i \in DOMAIN socket', NEW j \in DOMAIN socket', i # j,
             NEW r \in RefsOf(socket'[i])
      PROVE  r \notin RefsOf(socket'[j])
  <2>1. \A k \in DOMAIN socket' : k \in DOMAIN socket \/ k = Len(socket) + 1
    BY <1>2
  <2>2. CASE i = Len(socket) + 1
    <3>1. j \in DOMAIN socket /\ r \in HeldBy(t) /\ socket'[j] = socket[j]
      BY <1>1, <1>2, <1>4, <2>1, <2>2
    <3>2. r \notin InPipe
      BY <3>1 DEF RefInv, Owners
    <3>3. QED
      BY <3>1, <3>2, InPipeMember
  <2>3. CASE j = Len(socket) + 1
    <3>1. i \in DOMAIN socket /\ r \in RefsOf(socket[i])
      BY <1>1, <1>2, <1>4, <2>1, <2>3
    <3>2. r \in InPipe
      BY <3>1, InPipeMember
    <3>3. QED
      BY <1>1, <1>2, <2>3, <3>2 DEF RefInv, Owners
  <2>4. CASE i \in DOMAIN socket /\ j \in DOMAIN socket
    BY <1>2, <1>4, <2>4 DEF RefInv, Owners
  <2>5. QED
    BY <2>1, <2>2, <2>3, <2>4
<1>5. /\ \A r \in Refs :
           r \in live' <=> (\E u \in Threads : r \in HeldBy(u)') \/ r \in InPipe' \/ r \in RefsOf(datagram)'
      /\ \A u, v \in Threads : u # v => \A r \in HeldBy(u)' : r \notin HeldBy(v)'
      /\ \A u \in Threads : \A r \in HeldBy(u)' : r \notin InPipe' /\ r \notin RefsOf(datagram)'
      /\ \A r \in InPipe' : r \notin RefsOf(datagram)'
  BY <1>1, <1>2, <1>3 DEF RefInv, Owners
<1>6. QED
  BY <1>4, <1>5 DEF Owners, RefsOf

\* The reader took the first datagram.
LEMMA ReceivedKeeps ==
  ASSUME RefInv, Received
  PROVE  Owners'
<1>1. socket # <<>> /\ socket' = Tail(socket) /\ datagram' = Head(socket) /\ datagram = NoEvent
      /\ UNCHANGED <<live, sidecar, own>>
  BY DEF Received
<1>2. /\ \A i \in DOMAIN socket' : socket'[i] = socket[i + 1] /\ i + 1 \in DOMAIN socket
      /\ \A r : r \in InPipe <=> r \in InPipe' \/ r \in RefsOf(Head(socket))
      /\ Head(socket) = socket[1] /\ 1 \in DOMAIN socket
      /\ DOMAIN socket' = 1 .. Len(socket) - 1
      /\ DOMAIN socket = 1 .. Len(socket) /\ Len(socket) \in Nat
  BY <1>1, PipeTail, PipeTypesParts DEF RefInv
<1>3. /\ RefsOf(datagram)' = RefsOf(socket[1]) /\ RefsOf(datagram) = {}
      /\ \A u \in Threads : HeldBy(u)' = HeldBy(u)
  BY <1>1, <1>2, NoEventRefs DEF RefsOf, HeldBy
<1>4. ASSUME NEW r \in InPipe'
      PROVE  r \notin RefsOf(datagram)'
  <2>1. PICK i \in DOMAIN socket' : r \in RefsOf(socket'[i])
    BY DEF InPipe, RefsOf
  <2>2. r \in RefsOf(socket[i + 1]) /\ i + 1 \in DOMAIN socket /\ i + 1 # 1
    BY <1>2, <2>1
  <2>3. QED
    BY <1>2, <1>3, <2>2 DEF RefInv, Owners
<1>5. ASSUME NEW i \in DOMAIN socket', NEW j \in DOMAIN socket', i # j,
             NEW r \in RefsOf(socket'[i])
      PROVE  r \notin RefsOf(socket'[j])
  <2>1. i + 1 \in DOMAIN socket /\ j + 1 \in DOMAIN socket /\ i + 1 # j + 1
    BY <1>2, <1>5
  <2>2. QED
    BY <1>2, <1>5, <2>1 DEF RefInv, Owners
<1>6. /\ \A r \in Refs :
           r \in live' <=> (\E u \in Threads : r \in HeldBy(u)') \/ r \in InPipe' \/ r \in RefsOf(datagram)'
      /\ \A u, v \in Threads : u # v => \A r \in HeldBy(u)' : r \notin HeldBy(v)'
      /\ \A u \in Threads : \A r \in HeldBy(u)' : r \notin InPipe' /\ r \notin RefsOf(datagram)'
  BY <1>1, <1>2, <1>3 DEF RefInv, Owners
<1>7. QED
  BY <1>4, <1>5, <1>6 DEF Owners, RefsOf

\* The reader deleted refs of its datagram.
LEMMA DeletedKeeps ==
  ASSUME RefInv, NEW rs, Deleted(rs)
  PROVE  Owners'
<1>1. /\ InPipe' = InPipe /\ \A u \in Threads : HeldBy(u)' = HeldBy(u)
      /\ rs \subseteq RefsOf(datagram)
      /\ live' = live \ rs /\ RefsOf(datagram)' = RefsOf(datagram) \ rs
      /\ UNCHANGED socket
  BY DEF Deleted, InPipe, RefsOf, HeldBy
<1>2. QED
  BY <1>1 DEF RefInv, Owners, RefsOf

\* Nothing moved.
LEMMA NothingKeeps ==
  ASSUME RefInv, Nothing
  PROVE  Owners'
  BY DEF Nothing, RefInv, Owners, InPipe, RefsOf, HeldBy

-----------------------------------------------------------------------------
(* The rest of RefInv.                                                     *)

\* The steps of threads keep the types of the pipe.
LEMMA HookPipeTypes ==
  ASSUME RefInv, NEW t \in Threads, HookMove(t)
  PROVE  PipeTypes'
<1>1. UNCHANGED <<ready, reader, consumerEnv, datagram>>
  BY DEF HookMove, HookStep, BeginCall, BeginSingle, BeginReturn, DeferRenderPush, MintRef,
         Filtered, PassCall, PassOther, MintOwn, Emit, Delivered, Refused, readerVars
<1>2. live' \in SUBSET Refs
  <2>1. CASE Nothing
    BY <2>1 DEF Nothing, RefInv, PipeTypes
  <2>2. CASE ~Nothing
    BY <2>2, HookRefMove DEF Minted, HandedOver, Discarded, RefInv, PipeTypes
  <2>3. QED
    BY <2>1, <2>2
<1>3. socket' \in Seq(Wire)
  <2>1. CASE HandedOver(t)
    BY <2>1, AppendElements DEF HandedOver, RefInv, PipeTypes
  <2>2. CASE ~HandedOver(t)
    BY <2>2, HookRefMove DEF Nothing, Minted, Discarded, RefInv, PipeTypes
  <2>3. QED
    BY <2>1, <2>2
<1>4. QED
  BY <1>1, <1>2, <1>3 DEF RefInv, PipeTypes

\* So do those of the reader.
LEMMA ReaderPipeTypes ==
  ASSUME RefInv, ReaderMove \/ UNCHANGED vars
  PROVE  PipeTypes'
<1>1. live' \in SUBSET Refs
  BY ReaderRefMove DEF Nothing, Received, Deleted, RefInv, PipeTypes
<1>2. CASE ReaderAttach \/ ReaderPublish \/ ReaderFail \/ UNCHANGED vars
  BY <1>1, <1>2 DEF ReaderAttach, ReaderPublish, ReaderFail, vars, readerVars, RefInv, PipeTypes
<1>3. CASE ReaderRead
  <2>1. Head(socket) \in Wire /\ Tail(socket) \in Seq(Wire)
    BY <1>3, TailElements DEF ReaderRead, RefInv, PipeTypes
  <2>2. QED
    BY <1>1, <1>3, <2>1 DEF ReaderRead, readerVars, RefInv, PipeTypes
<1>4. CASE RenderRef
  <2>1. datagram.refs # <<>> /\ datagram \in Wire
    BY <1>4 DEF RenderRef, RefInv, PipeTypes, NoEvent
  <2>2. Tail(datagram.refs) \in Seq(Refs)
    BY <2>1, WireRefs, TailElements
  <2>3. [datagram EXCEPT !.refs = Tail(@)] \in Wire
    BY <2>1, <2>2 DEF Wire
  <2>4. QED
    BY <1>1, <1>4, <2>3 DEF RenderRef, readerVars, RefInv, PipeTypes
<1>5. CASE Route
  BY <1>1, <1>5 DEF Route, readerVars, RefInv, PipeTypes
<1>6. QED
  BY <1>2, <1>3, <1>4, <1>5 DEF ReaderMove, ReaderStep

\* A thread puts no ref twice in an event: NewGlobalRef returns a handle
\* that is not in use.
LEMMA HookEachOnce ==
  ASSUME RefInv, HookInv', NEW t \in Threads, HookMove(t)
  PROVE  EachOnce'
<1>1. HookInv /\ HookTypes
  BY DEF RefInv, HookInv
<1>2. \A u \in Threads : u # t => sidecar'[u] = sidecar[u] /\ own'[u] = own[u]
  BY <1>1, OthersUntouched DEF Untouched
<1>3. WireOnce(datagram)'
  BY DEF RefInv, EachOnce, WireOnce, HookMove, HookStep, BeginCall, BeginSingle, BeginReturn,
         DeferRenderPush, MintRef, Filtered, PassCall, PassOther, MintOwn, Emit
<1>4. \A i \in DOMAIN socket' : WireOnce(socket'[i])
  <2>1. CASE HandedOver(t)
    <3>1. PICK w \in Wire : WireOnce(w) /\ socket' = Append(socket, w)
      BY <2>1 DEF HandedOver
    <3>2. /\ DOMAIN socket' = 1 .. Len(socket) + 1 /\ DOMAIN socket = 1 .. Len(socket)
          /\ \A i \in DOMAIN socket : socket'[i] = socket[i]
          /\ socket'[Len(socket) + 1] = w /\ Len(socket) \in Nat
      BY <3>1, PipeAppend, PipeTypesParts DEF RefInv
    <3>3. \A k \in DOMAIN socket' : k \in DOMAIN socket \/ k = Len(socket) + 1
      BY <3>2
    <3>4. QED
      BY <3>1, <3>2, <3>3 DEF RefInv, EachOnce
  <2>2. CASE UNCHANGED socket
    BY <2>2 DEF RefInv, EachOnce
  <2>3. QED
    BY <2>1, <2>2, HookRefMove DEF Nothing, Minted, Discarded
<1>5. IsInjective(sidecar'[t]) /\ own'[t] \notin Range(sidecar'[t])
  <2>1. IsInjective(sidecar[t]) /\ own[t] \notin Range(sidecar[t])
    BY DEF RefInv, EachOnce
  <2>2. CASE UNCHANGED <<sidecar, own>>
    BY <2>1, <2>2
  <2>3. CASE MintRef(t) /\ ~UNCHANGED <<sidecar, own>>
    <3>1. PICK r \in Refs \ live : sidecar' = [sidecar EXCEPT ![t] = Append(@, r)]
      BY <2>3 DEF MintRef
    <3>2. sidecar'[t] = Append(sidecar[t], r) /\ own'[t] = own[t] /\ sidecar[t] \in Seq(Refs)
      BY <1>1, <2>3, <3>1 DEF HookTypes, MintRef
    <3>3. r \notin HeldBy(t)
      BY DEF RefInv, Owners
    <3>4. r \notin Range(sidecar[t]) /\ (own[t] = r => r = NoRef)
      BY <3>3 DEF HeldBy
    <3>5. own[t] # r
      BY <3>1, <3>4, Constants
    <3>6. QED
      BY <2>1, <3>2, <3>4, <3>5, AppendsNew, AppendRange
  <2>4. CASE MintOwn(t) /\ ~UNCHANGED <<sidecar, own>>
    <3>1. PICK r \in Refs \ live : own' = [own EXCEPT ![t] = r]
      BY <2>4 DEF MintOwn
    <3>2. sidecar'[t] = sidecar[t] /\ own'[t] = r
      BY <1>1, <2>4, <3>1 DEF HookTypes, MintOwn
    <3>3. r \notin HeldBy(t)
      BY DEF RefInv, Owners
    <3>4. QED
      BY <2>1, <3>2, <3>3 DEF HeldBy
  <2>5. CASE Emit(t)
    <3>1. sidecar'[t] = <<>>
      BY <1>1, <2>5 DEF Emit, HookTypes
    <3>2. IsInjective(<<>>)
      BY DEF IsInjective
    <3>3. QED
      BY <3>1, <3>2, EmptyRange
  <2>6. QED
    BY <2>2, <2>3, <2>4, <2>5
       DEF HookMove, HookStep, BeginCall, BeginSingle, BeginReturn, DeferRenderPush, Filtered,
           PassCall, PassOther
<1>6. QED
  BY <1>2, <1>3, <1>4, <1>5 DEF EachOnce, RefInv, WireOnce

\* The reader takes refs off a datagram and adds none.
LEMMA ReaderEachOnce ==
  ASSUME RefInv, ReaderMove \/ UNCHANGED vars
  PROVE  EachOnce'
<1>1. UNCHANGED <<sidecar, own>>
  BY ReaderUntouched DEF hookVars
<1>2. CASE ReaderAttach \/ ReaderPublish \/ ReaderFail \/ UNCHANGED vars
  BY <1>1, <1>2
     DEF ReaderAttach, ReaderPublish, ReaderFail, vars, readerVars, RefInv, EachOnce, WireOnce
<1>3. CASE ReaderRead
  <2>1. socket # <<>> /\ socket' = Tail(socket) /\ datagram' = Head(socket)
    BY <1>3 DEF ReaderRead
  <2>2. /\ \A i \in DOMAIN socket' : socket'[i] = socket[i + 1] /\ i + 1 \in DOMAIN socket
        /\ Head(socket) = socket[1] /\ 1 \in DOMAIN socket
    BY <2>1, PipeTail DEF RefInv
  <2>3. (\A i \in DOMAIN socket' : WireOnce(socket'[i])) /\ WireOnce(datagram')
    BY <2>1, <2>2 DEF RefInv, EachOnce
  <2>4. QED
    BY <1>1, <2>3 DEF RefInv, EachOnce, WireOnce
<1>4. CASE RenderRef
  <2>1. datagram.refs # <<>> /\ datagram \in Wire
    BY <1>4 DEF RenderRef, RefInv, PipeTypes, NoEvent
  <2>2. /\ IsInjective(Tail(datagram.refs))
        /\ Range(datagram.refs) = Range(Tail(datagram.refs)) \cup {Head(datagram.refs)}
    BY <2>1, WireRefs, TailInjective, TailRange DEF RefInv, EachOnce, WireOnce
  <2>3. datagram'.refs = Tail(datagram.refs) /\ datagram'.own = datagram.own
    BY <1>4, <2>1 DEF RenderRef, Wire
  <2>4. WireOnce(datagram')
    BY <2>2, <2>3 DEF WireOnce, RefInv, EachOnce
  <2>5. UNCHANGED socket
    BY <1>4 DEF RenderRef
  <2>6. QED
    BY <1>1, <2>4, <2>5 DEF RefInv, EachOnce, WireOnce
<1>5. CASE Route
  <2>1. UNCHANGED socket /\ datagram' = NoEvent
    BY <1>5 DEF Route
  <2>2. QED
    BY <1>1, <2>1, NoEventRefs DEF RefInv, EachOnce, WireOnce
<1>6. QED
  BY <1>2, <1>3, <1>4, <1>5 DEF ReaderMove, ReaderStep

\* Refs are minted only after readiness was published, and that only after
\* the reader attached.
LEMMA RendererFirstKept ==
  ASSUME RefInv, [Next]_vars
  PROVE  RendererFirst'
<1>1. CASE \E t \in Threads : HookMove(t)
  <2>1. PICK t \in Threads : HookMove(t)
    BY <1>1
  <2>2. UNCHANGED <<ready, reader, consumerEnv, datagram>>
    BY <2>1 DEF HookMove, HookStep, BeginCall, BeginSingle, BeginReturn, DeferRenderPush, MintRef,
           Filtered, PassCall, PassOther, MintOwn, Emit, Delivered, Refused, readerVars
  <2>3. ASSUME ~consumerEnv, reader # "gone"
        PROVE  live' = {} /\ \A u \in Threads : step'[u] \notin {"mint", "ownMint"}
    <3>1. /\ live = {} /\ ~ready /\ \A u \in Threads : step[u] \notin {"mint", "ownMint"}
      BY <2>3 DEF RefInv, RendererFirst
    <3>2. step \in [Threads -> Steps] /\ HookTypes
      BY DEF RefInv, HookInv, HookTypes
    <3>3. \A u \in Threads : u # t => step'[u] = step[u]
      BY <2>1, <3>2, OthersUntouched DEF Untouched
    <3>4. live' = {} /\ step'[t] \notin {"mint", "ownMint"}
      BY <2>1, <3>1, <3>2
         DEF HookMove, HookStep, BeginCall, BeginSingle, BeginReturn, DeferRenderPush, MintRef,
             Filtered, PassCall, PassOther, MintOwn, Emit, Delivered, Refused, Prepare, Finish, GoTo
    <3>5. QED
      BY <3>1, <3>3, <3>4
  <2>4. QED
    BY <2>2, <2>3 DEF RefInv, RendererFirst
<1>2. CASE ReaderMove \/ UNCHANGED vars
  <2>1. UNCHANGED step
    BY <1>2, ReaderUntouched DEF hookVars
  <2>2. live' \subseteq live
    BY <1>2, ReaderRefMove DEF Nothing, Received, Deleted
  <2>3. QED
    BY <1>2, <2>1, <2>2
       DEF RefInv, RendererFirst, PipeTypes, ReaderMove, ReaderStep, ReaderAttach, ReaderPublish,
           ReaderRead, RenderRef, Route, ReaderFail, readerVars, vars, Wire, NoEvent
<1>3. QED
  BY <1>1, <1>2, NextSplit

\* RefInv holds at the start.
LEMMA InitRefs == Init => RefInv
<1> SUFFICES ASSUME Init PROVE RefInv
  OBVIOUS
<1>1. /\ live = {} /\ socket = <<>> /\ datagram = NoEvent
      /\ ready = FALSE /\ consumerEnv = FALSE /\ reader = "starting"
      /\ \A t \in Threads : sidecar[t] = <<>> /\ own[t] = NoRef /\ step[t] = "app"
  BY DEF Init
<1>2. HookInv
  BY InitHooks
<1>3. PipeTypes
  <2>1. <<>> \in Seq(Wire) /\ FALSE \in BOOLEAN
    OBVIOUS
  <2>2. QED
    BY <1>1, <2>1, Zenon DEF PipeTypes
<1>4. DOMAIN socket = {}
  BY <1>1
<1>5. IsInjective(<<>>) /\ Range(<<>>) = {}
  BY EmptyRange DEF IsInjective
<1>6. EachOnce
  BY <1>1, <1>4, <1>5, NoEventRefs DEF EachOnce
<1>7. InPipe = {} /\ RefsOf(datagram) = {} /\ \A t \in Threads : HeldBy(t) = {}
  BY <1>1, <1>4, <1>5, NoEventRefs, InPipeMember DEF HeldBy
<1>8. Owners
  BY <1>1, <1>4, <1>7 DEF Owners
<1>9. RendererFirst
  BY <1>1 DEF RendererFirst
<1>10. QED
  BY <1>2, <1>3, <1>6, <1>8, <1>9 DEF RefInv

\* Every step keeps it.
LEMMA NextRefs == RefInv /\ [Next]_vars => RefInv'
<1> SUFFICES ASSUME RefInv, [Next]_vars PROVE RefInv'
  OBVIOUS
<1>1. HookInv'
  BY NextHooks DEF RefInv
<1>2. RefMove
  BY NextSplit, HookRefMove, ReaderRefMove DEF RefMove
<1>3. Owners'
  BY <1>1, <1>2, NothingKeeps, MintedKeeps, HandedOverKeeps, DiscardedKeeps, ReceivedKeeps,
     DeletedKeeps DEF RefMove
<1>4. PipeTypes' /\ EachOnce'
  BY <1>1, NextSplit, HookPipeTypes, ReaderPipeTypes, HookEachOnce, ReaderEachOnce
<1>5. QED
  BY <1>1, <1>3, <1>4, RendererFirstKept DEF RefInv

\* The inductive invariant behind the ownership of refs holds in every
\* reachable state.
THEOREM RefsInvariant == Spec => []RefInv
  BY InitRefs, NextRefs, PTL DEF Spec

\* Handle by handle and set by set it is the same.
LEMMA OwnersOfRefs ==
  ASSUME RefInv
  PROVE  EveryRefHasOneOwner
<1>1. \A t \in Threads : HeldBy(t) \subseteq Refs
  BY HeldTypes DEF RefInv
<1>2. InPipe \subseteq Refs /\ RefsOf(datagram) \subseteq Refs /\ live \subseteq Refs
  BY PipeTypesParts, DatagramRefs DEF RefInv, PipeTypes
<1>3. live = (UNION {HeldBy(t) : t \in Threads}) \cup InPipe \cup RefsOf(datagram)
  BY <1>1, <1>2, ZenonT(60) DEF RefInv, Owners
<1>4. QED
  BY <1>3 DEF RefInv, Owners, EveryRefHasOneOwner

\* Every global ref that exists has one owner, a thread, a queued datagram
\* or the one being dispatched, whatever send() refuses and wherever a hook
\* or the reader stands: none leaks, none is deleted twice, none is used
\* after its deletion (event_pipe.h, "Global-ref ownership (F1)").
THEOREM RefsHaveOneOwner == Spec => []EveryRefHasOneOwner
  BY RefsInvariant, OwnersOfRefs, PTL

\* A ref reaches only a reader that has a JNIEnv to render and delete it,
\* whether or not attaching may fail or the reader may end
\* (event_pipe.go:241).
THEOREM RefsAreRendered == Spec => []RefsReachARenderer
  BY RefsInvariant, RefsRendered, PTL

-----------------------------------------------------------------------------
(* The pipe implements the ledger.                                         *)

\* Where RefLedger sees a handle.
OwnerTable ==
  /\ \A r \in Refs : r \notin live => OwnerOf(r) = "free"
  /\ \A t \in Threads : \A r \in HeldBy(t) : OwnerOf(r) = t
  /\ \A r \in InPipe : OwnerOf(r) = "pipe"
  /\ \A r \in RefsOf(datagram) : OwnerOf(r) = "reader"

\* A handle with one holder is owned by it.
LEMMA OneHolder ==
  ASSUME NEW r, NEW o, r \in live, Holders(r) = {o}
  PROVE  OwnerOf(r) = o
<1>1. Cardinality(Holders(r)) = 1
  BY FS_Singleton
<1>2. (CHOOSE q \in Holders(r) : TRUE) = o
  OBVIOUS
<1>3. QED
  BY <1>1, <1>2 DEF OwnerOf

\* The invariant says where RefLedger sees every handle.
LEMMA OwnersAreListed == RefInv => OwnerTable
<1> SUFFICES ASSUME RefInv PROVE OwnerTable
  OBVIOUS
<1>1. /\ \A t \in Threads : HeldBy(t) \subseteq Refs
      /\ InPipe \subseteq Refs /\ RefsOf(datagram) \subseteq Refs
  BY HeldTypes, PipeTypesParts, DatagramRefs DEF RefInv
<1>2. ASSUME NEW r \in Refs, r \notin live
      PROVE  OwnerOf(r) = "free"
  <2>1. Holders(r) = {}
    BY <1>2 DEF RefInv, Owners, Holders
  <2>2. QED
    BY <1>2, <2>1 DEF OwnerOf
<1>3. ASSUME NEW t \in Threads, NEW r \in HeldBy(t)
      PROVE  OwnerOf(r) = t
  <2>1. r \in Refs /\ r \in live
    BY <1>1, <1>3 DEF RefInv, Owners
  <2>2. r \notin InPipe /\ r \notin RefsOf(datagram) /\ \A u \in Threads : r \in HeldBy(u) <=> u = t
    BY DEF RefInv, Owners
  <2>3. Holders(r) = {t}
    BY <2>2 DEF Holders
  <2>4. QED
    BY <2>1, <2>3, OneHolder
<1>4. ASSUME NEW r \in InPipe
      PROVE  OwnerOf(r) = "pipe"
  <2>1. r \in Refs /\ r \in live
    BY <1>1, <1>4 DEF RefInv, Owners
  <2>2. r \notin RefsOf(datagram) /\ \A u \in Threads : r \notin HeldBy(u)
    BY DEF RefInv, Owners
  <2>3. Holders(r) = {"pipe"}
    BY <2>2 DEF Holders
  <2>4. QED
    BY <2>1, <2>3, OneHolder
<1>5. ASSUME NEW r \in RefsOf(datagram)
      PROVE  OwnerOf(r) = "reader"
  <2>1. r \in Refs /\ r \in live
    BY <1>1, <1>5 DEF RefInv, Owners
  <2>2. r \notin InPipe /\ \A u \in Threads : r \notin HeldBy(u)
    BY DEF RefInv, Owners
  <2>3. Holders(r) = {"reader"}
    BY <2>2 DEF Holders
  <2>4. QED
    BY <2>1, <2>3, OneHolder
<1>6. QED
  BY <1>2, <1>3, <1>4, <1>5 DEF OwnerTable

\* The same after a step.
LEMMA OwnersAreListedNext == RefInv' => OwnerTable'
  BY OwnersAreListed, PTL

\* Read backwards: what each owner of the ledger holds.
LEMMA LedgerOwners ==
  ASSUME RefInv
  PROVE  /\ Ledger!OwnedBy("free") = Refs \ live
         /\ \A t \in Threads : Ledger!OwnedBy(t) = HeldBy(t)
         /\ Ledger!OwnedBy("pipe") = InPipe
         /\ Ledger!OwnedBy("reader") = RefsOf(datagram)
<1>1. /\ \A t \in Threads : HeldBy(t) \subseteq Refs
      /\ InPipe \subseteq Refs /\ RefsOf(datagram) \subseteq Refs
  BY HeldTypes, PipeTypesParts, DatagramRefs DEF RefInv
<1>2. \A t \in Threads : t # "free" /\ t # "pipe" /\ t # "reader"
  BY ConstantsAssumption
<1>3. \A r \in Refs :
        \/ r \notin live /\ OwnerOf(r) = "free"
        \/ r \in live /\ \E t \in Threads : r \in HeldBy(t) /\ OwnerOf(r) = t
        \/ r \in live /\ r \in InPipe /\ OwnerOf(r) = "pipe"
        \/ r \in live /\ r \in RefsOf(datagram) /\ OwnerOf(r) = "reader"
  BY OwnersAreListed DEF OwnerTable, RefInv, Owners
<1>4. \A r \in Refs : /\ r \notin live <=> OwnerOf(r) = "free"
                      /\ \A t \in Threads : r \in HeldBy(t) <=> OwnerOf(r) = t
                      /\ r \in InPipe <=> OwnerOf(r) = "pipe"
                      /\ r \in RefsOf(datagram) <=> OwnerOf(r) = "reader"
  BY <1>1, <1>2, <1>3, OwnersAreListed DEF OwnerTable
<1>5. \A o : Ledger!OwnedBy(o) = {r \in Refs : OwnerOf(r) = o}
  BY DEF Ledger!OwnedBy
<1>6. QED
  BY <1>1, <1>4, <1>5

\* A step of the ledger from what each handle's owner becomes.
LEMMA LedgerGive ==
  ASSUME NEW rs, NEW o,
         \A r \in Refs : OwnerOf(r)' = IF r \in rs THEN o ELSE OwnerOf(r)
  PROVE  Ledger!Give(rs, o)
  BY DEF Ledger!Give

\* A handle that stays where it is keeps its owner.
LEMMA OwnerStays ==
  ASSUME RefInv, RefInv', NEW r \in Refs, r \in live <=> r \in live',
         \A t \in Threads : r \in HeldBy(t) <=> r \in HeldBy(t)',
         r \in InPipe <=> r \in InPipe', r \in RefsOf(datagram) <=> r \in RefsOf(datagram)'
  PROVE  OwnerOf(r)' = OwnerOf(r)
<1>1. OwnerTable /\ OwnerTable'
  BY OwnersAreListed, OwnersAreListedNext
<1>2. \/ r \notin live \/ (\E t \in Threads : r \in HeldBy(t))
      \/ r \in InPipe \/ r \in RefsOf(datagram)
  BY DEF RefInv, Owners
<1>3. QED
  BY <1>1, <1>2 DEF OwnerTable

ledgerOwner == [r \in Refs |-> OwnerOf(r)]

\* Every move of the refs is a step of the ledger, or none.
LEMMA LedgerStep ==
  ASSUME RefInv, RefInv', RefMove
  PROVE  Ledger!Next \/ UNCHANGED ledgerOwner
<1>1. OwnerTable /\ OwnerTable' /\ PipeTypes /\ PipeTypes'
  BY OwnersAreListed, OwnersAreListedNext DEF RefInv
<1>2. /\ \A t \in Threads : HeldBy(t) \subseteq Refs
      /\ InPipe \subseteq Refs /\ RefsOf(datagram) \subseteq Refs
  BY HeldTypes, PipeTypesParts, DatagramRefs DEF RefInv
<1>3. CASE Nothing
  <2>1. \A r \in Refs : OwnerOf(r)' = OwnerOf(r)
    BY <1>3, OwnerStays DEF Nothing, HeldBy, InPipe, RefsOf
  <2>2. QED
    BY <2>1 DEF ledgerOwner
<1>4. ASSUME NEW t \in Threads, NEW r \in Refs, Minted(t, r)
      PROVE  Ledger!Mint(t)
  <2>1. /\ r \notin live /\ live' = live \cup {r} /\ HeldBy(t)' = HeldBy(t) \cup {r}
        /\ \A u \in Threads : u # t => HeldBy(u)' = HeldBy(u)
        /\ InPipe' = InPipe /\ RefsOf(datagram)' = RefsOf(datagram)
    BY <1>4 DEF Minted, OthersKeep, InPipe, RefsOf
  <2>2. OwnerOf(r)' = t
    BY <1>1, <2>1 DEF OwnerTable
  <2>3. ASSUME NEW q \in Refs, q # r
        PROVE  OwnerOf(q)' = OwnerOf(q)
    BY <2>1, <2>3, OwnerStays
  <2>4. Ledger!Give({r}, t)
    BY <2>2, <2>3, LedgerGive
  <2>5. r \in Ledger!OwnedBy("free")
    BY <2>1, LedgerOwners
  <2>6. QED
    BY <2>4, <2>5 DEF Ledger!Mint
<1>5. ASSUME NEW t \in Threads, HandedOver(t)
      PROVE  Ledger!HandOver(t)
  <2>1. PICK w \in Wire : RefsOf(w) = HeldBy(t) /\ socket' = Append(socket, w)
    BY <1>5 DEF HandedOver
  <2>2. \A r : r \in InPipe' <=> r \in InPipe \/ r \in HeldBy(t)
    BY <1>1, <2>1, PipeAppend
  <2>3. /\ live' = live /\ RefsOf(datagram)' = RefsOf(datagram)
        /\ HeldBy(t)' = {} /\ \A u \in Threads : u # t => HeldBy(u)' = HeldBy(u)
    BY <1>5 DEF HandedOver, OthersKeep, RefsOf
  <2>4. ASSUME NEW r \in Refs, r \in HeldBy(t)
        PROVE  OwnerOf(r)' = "pipe"
    BY <1>1, <2>2, <2>4 DEF OwnerTable
  <2>5. ASSUME NEW r \in Refs, r \notin HeldBy(t)
        PROVE  OwnerOf(r)' = OwnerOf(r)
    BY <2>2, <2>3, <2>5, OwnerStays
  <2>6. Ledger!OwnedBy(t) = HeldBy(t)
    BY LedgerOwners
  <2>7. QED
    BY <2>4, <2>5, <2>6, LedgerGive DEF Ledger!HandOver
<1>6. ASSUME NEW t \in Threads, Discarded(t)
      PROVE  Ledger!Discard(t)
  <2>1. /\ live' = live \ HeldBy(t) /\ RefsOf(datagram)' = RefsOf(datagram) /\ InPipe' = InPipe
        /\ HeldBy(t)' = {} /\ \A u \in Threads : u # t => HeldBy(u)' = HeldBy(u)
    BY <1>6 DEF Discarded, OthersKeep, RefsOf, InPipe
  <2>2. ASSUME NEW r \in Refs, r \in HeldBy(t)
        PROVE  OwnerOf(r)' = "free"
    BY <1>1, <2>1, <2>2 DEF OwnerTable
  <2>3. ASSUME NEW r \in Refs, r \notin HeldBy(t)
        PROVE  OwnerOf(r)' = OwnerOf(r)
    BY <2>1, <2>3, OwnerStays
  <2>4. Ledger!OwnedBy(t) = HeldBy(t)
    BY LedgerOwners
  <2>5. QED
    BY <2>2, <2>3, <2>4, LedgerGive DEF Ledger!Discard
<1>7. CASE Received
  <2>1. /\ datagram = NoEvent /\ socket # <<>> /\ socket' = Tail(socket)
        /\ live' = live /\ RefsOf(datagram)' = RefsOf(Head(socket))
        /\ \A u \in Threads : HeldBy(u)' = HeldBy(u)
    BY <1>7 DEF Received, HeldBy, RefsOf
  <2>2. \A r : r \in InPipe <=> r \in InPipe' \/ r \in RefsOf(Head(socket))
    BY <1>1, <2>1, PipeTail
  <2> DEFINE rs == RefsOf(Head(socket))
  <2>3. ASSUME NEW r \in Refs, r \in rs
        PROVE  OwnerOf(r)' = "reader"
    BY <1>1, <2>1, <2>3 DEF OwnerTable
  <2>4. ASSUME NEW r \in Refs, r \notin rs
        PROVE  OwnerOf(r)' = OwnerOf(r)
    BY <2>1, <2>2, <2>4, NoEventRefs, OwnerStays
  <2>5. rs \in SUBSET Ledger!OwnedBy("pipe")
    BY <2>2, LedgerOwners
  <2> HIDE DEF rs
  <2>6. Ledger!Give(rs, "reader")
    BY <2>3, <2>4, LedgerGive
  <2>7. Ledger!Receive
    BY <2>5, <2>6 DEF Ledger!Receive
  <2>8. QED
    BY <2>7 DEF Ledger!Next
<1>8. ASSUME NEW rs \in SUBSET Refs, Deleted(rs)
      PROVE  Ledger!Delete \/ UNCHANGED ledgerOwner
  <2>1. /\ rs \subseteq RefsOf(datagram) /\ \A r, q \in rs : r = q
        /\ live' = live \ rs /\ RefsOf(datagram)' = RefsOf(datagram) \ rs
        /\ InPipe' = InPipe /\ \A u \in Threads : HeldBy(u)' = HeldBy(u)
    BY <1>8 DEF Deleted, InPipe, HeldBy, RefsOf
  <2>2. ASSUME NEW r \in Refs, r \in rs
        PROVE  OwnerOf(r)' = "free"
    BY <1>1, <2>1, <2>2 DEF OwnerTable
  <2>3. ASSUME NEW r \in Refs, r \notin rs
        PROVE  OwnerOf(r)' = OwnerOf(r)
    BY <2>1, <2>3, OwnerStays
  <2>4. CASE rs = {}
    BY <2>3, <2>4 DEF ledgerOwner
  <2>5. ASSUME NEW r \in rs
        PROVE  Ledger!Delete
    <3>1. rs = {r} /\ r \in Ledger!OwnedBy("reader")
      BY <2>1, LedgerOwners
    <3>2. Ledger!Give({r}, "free")
      BY <2>2, <2>3, <3>1, LedgerGive
    <3>3. QED
      BY <3>1, <3>2 DEF Ledger!Delete
  <2>6. QED
    BY <2>4, <2>5
<1>9. QED
  BY <1>3, <1>4, <1>5, <1>6, <1>7, <1>8 DEF RefMove, Ledger!Next

\* Every step is a move of the refs.
LEMMA NextRefMove ==
  ASSUME RefInv, [Next]_vars
  PROVE  RefMove
  BY NextSplit, HookRefMove, ReaderRefMove DEF RefMove

\* The ledger starts with every handle free.
LEMMA LedgerInit == Init => Ledger!Init
<1> SUFFICES ASSUME Init PROVE Ledger!Init
  OBVIOUS
<1>1. RefInv /\ live = {}
  BY InitRefs DEF Init
<1>2. \A r \in Refs : OwnerOf(r) = "free"
  BY <1>1, OwnersAreListed DEF OwnerTable
<1>3. QED
  BY <1>2 DEF Ledger!Init

\* The event pipe implements RefLedger for any number of threads, refs and
\* datagrams: refs go as a whole from the thread that minted them to the
\* pipe and from there to the reader, and only their owner deletes them.
THEOREM PipeImplementsLedger == Spec => ImplementsLedger
<1>1. Init => Ledger!Init
  BY LedgerInit
<1>2. RefInv /\ RefInv' /\ [Next]_vars => [Ledger!Next]_ledgerOwner
  BY NextRefMove, LedgerStep
<1>3. Spec => []RefInv
  BY RefsInvariant
<1>4. QED
  BY <1>1, <1>2, <1>3, PTL DEF Spec, ImplementsLedger, Ledger!Spec, ledgerOwner

-----------------------------------------------------------------------------
(* When the config filters nothing, a sidecar holds its own event's refs.   *)

Unfiltered ==
  \A t \in Threads :
    /\ event[t].allowed
    /\ \A i \in DOMAIN frames[t] : frames[t][i].allowed
    /\ Len(sidecar[t]) = event[t].pushed
    /\ step[t] = "app" => sidecar[t] = <<>>

\* An event begins with an empty sidecar.
LEMMA BeginUnfiltered ==
  ASSUME HookInv, Unfiltered, FALSE \notin Gates, NEW t \in Threads,
         BeginCall(t) \/ BeginSingle(t) \/ BeginReturn(t)
  PROVE  /\ event'[t].allowed /\ event'[t].pushed = 0 /\ step'[t] # "app"
         /\ sidecar'[t] = <<>>
         /\ \A i \in DOMAIN frames'[t] : frames'[t][i].allowed
<1>1. /\ step[t] = "app" /\ sidecar[t] = <<>> /\ sidecar' = sidecar
      /\ step \in [Threads -> Steps] /\ frames[t] \in Seq(Frame)
      /\ \A i \in DOMAIN frames[t] : frames[t][i].allowed
  BY DEF BeginCall, BeginSingle, BeginReturn, AppRuns, Unfiltered, HookInv, HookTypes
<1>2. \A allowed \in Gates : allowed
  BY Constants
<1>3. PICK type, allowed, n : allowed /\ Prepare(t, Preparing(type, allowed, n))
  <2>1. CASE BeginReturn(t)
    <3>1. Last(frames[t]).allowed
      <4>1. frames[t] # <<>>
        BY <2>1 DEF BeginReturn
      <4>2. Last(frames[t]) = frames[t][Len(frames[t])] /\ Len(frames[t]) \in 1 .. Len(frames[t])
        BY <1>1, <4>1, FrontElements
      <4>3. QED
        BY <1>1, <4>2
    <3>2. QED
      BY <2>1, <3>1 DEF BeginReturn
  <2>2. CASE BeginCall(t)
    BY <1>2, <2>2 DEF BeginCall
  <2>3. CASE BeginSingle(t)
    BY <1>2, <2>3 DEF BeginSingle
  <2>4. QED
    BY <2>1, <2>2, <2>3
<1>4. event'[t] = Preparing(type, allowed, n) /\ step'[t] = "log"
  BY <1>3 DEF Prepare, GoTo, HookInv, HookTypes
<1>5. event'[t].allowed /\ event'[t].pushed = 0
  BY <1>3, <1>4 DEF Preparing
<1>6. \A i \in DOMAIN frames'[t] : frames'[t][i].allowed
  <2>1. CASE BeginCall(t)
    <3>1. PICK h \in Families, allow \in Gates :
            frames' = [frames EXCEPT ![t] = Append(@, [family |-> h, allowed |-> allow, cid |-> 0])]
      BY <2>1 DEF BeginCall
    <3> DEFINE f == [family |-> h, allowed |-> allow, cid |-> 0]
    <3>2. f \in Frame /\ f.allowed
      BY <1>2, <3>1, Constants DEF Frame
    <3>3. frames'[t] = Append(frames[t], f)
      BY <3>1 DEF HookInv, HookTypes
    <3> HIDE DEF f
    <3>4. /\ DOMAIN frames'[t] = 1 .. Len(frames[t]) + 1 /\ DOMAIN frames[t] = 1 .. Len(frames[t])
          /\ \A i \in 1 .. Len(frames[t]) : frames'[t][i] = frames[t][i]
          /\ frames'[t][Len(frames[t]) + 1] = f /\ Len(frames[t]) \in Nat
      BY <1>1, <3>2, <3>3, AppendElements
    <3>5. \A i \in 1 .. Len(frames[t]) + 1 : i \in 1 .. Len(frames[t]) \/ i = Len(frames[t]) + 1
      BY <3>4
    <3>6. QED
      BY <1>1, <3>2, <3>4, <3>5
  <2>2. CASE UNCHANGED frames
    BY <1>1, <2>2
  <2>3. QED
    BY <2>1, <2>2 DEF BeginSingle, BeginReturn
<1>7. QED
  BY <1>1, <1>4, <1>5, <1>6

\* Every step of a hook keeps what the sidecar holds its event's.
LEMMA HookUnfiltered ==
  ASSUME HookInv, HookInv', Unfiltered, FALSE \notin Gates, NEW t \in Threads, HookMove(t)
  PROVE  Unfiltered'
<1>1. HookTypes
  BY DEF HookInv
<1>2. \A u \in Threads : u # t => Untouched(u)
  BY <1>1, OthersUntouched
<1>3. /\ event[t].allowed /\ Len(sidecar[t]) = event[t].pushed
      /\ \A i \in DOMAIN frames[t] : frames[t][i].allowed
      /\ event[t] \in [type : EventTypes \cup {"none"}, allowed : BOOLEAN, todo : Nat, pushed : Nat]
      /\ sidecar[t] \in Seq(Refs) /\ frames[t] \in Seq(Frame)
  BY <1>1 DEF Unfiltered, HookTypes
<1>4. /\ event'[t].allowed /\ Len(sidecar'[t]) = event'[t].pushed
      /\ step'[t] = "app" => sidecar'[t] = <<>>
      /\ \A i \in DOMAIN frames'[t] : frames'[t][i].allowed
  <2>1. CASE BeginCall(t) \/ BeginSingle(t) \/ BeginReturn(t)
    BY <2>1, BeginUnfiltered
  <2>2. CASE DeferRenderPush(t)
    <3>1. /\ event'[t].allowed = event[t].allowed /\ event'[t].pushed = event[t].pushed
          /\ step[t] = "log" /\ step'[t] # "app" /\ UNCHANGED <<sidecar, frames>>
      BY <1>1, <2>2 DEF DeferRenderPush, GoTo, HookTypes
    <3>2. QED
      BY <1>3, <3>1
  <2>3. CASE MintRef(t)
    <3>1. step'[t] = "log" /\ UNCHANGED frames
      BY <1>1, <2>3 DEF MintRef, GoTo, HookTypes
    <3>2. ASSUME NEW r \in Refs, sidecar' = [sidecar EXCEPT ![t] = Append(@, r)],
                 event' = [event EXCEPT ![t].todo = @ - 1, ![t].pushed = @ + 1]
          PROVE  event'[t].allowed /\ Len(sidecar'[t]) = event'[t].pushed
      <4>1. Len(sidecar'[t]) = Len(sidecar[t]) + 1
        BY <1>1, <1>3, <3>2, AppendElements DEF HookTypes
      <4> DEFINE e == [event[t] EXCEPT !.todo = @ - 1, !.pushed = @ + 1]
      <4>2. e.allowed = event[t].allowed /\ e.pushed = event[t].pushed + 1
        BY <1>3
      <4>3. event'[t] = e
        BY <1>1, <1>3, <3>2 DEF HookTypes
      <4> HIDE DEF e
      <4>4. QED
        BY <1>3, <4>1, <4>2, <4>3
    <3>3. ASSUME UNCHANGED sidecar, event' = [event EXCEPT ![t].todo = @ - 1]
          PROVE  event'[t].allowed /\ Len(sidecar'[t]) = event'[t].pushed
      <4>1. event'[t].allowed = event[t].allowed /\ event'[t].pushed = event[t].pushed
        BY <1>1, <1>3, <3>3 DEF HookTypes
      <4>2. QED
        BY <1>3, <3>3, <4>1
    <3>4. QED
      BY <1>3, <2>3, <3>1, <3>2, <3>3 DEF MintRef
  <2>4. CASE Filtered(t)
    <3>1. ~event[t].allowed
      BY <2>4 DEF Filtered
    <3>2. event[t].allowed
      BY <1>3
    <3>3. QED
      BY <3>1, <3>2, Zenon
  <2>5. CASE PassCall(t)
    <3>1. UNCHANGED <<event, sidecar>> /\ step'[t] = "send"
      BY <1>1, <2>5 DEF PassCall, GoTo, HookTypes
    <3>2. /\ Len(frames'[t]) = Len(frames[t]) /\ frames'[t] \in Seq(Frame)
          /\ \A i \in 1 .. Len(frames[t]) - 1 : frames'[t][i] = frames[t][i]
          /\ Last(frames'[t]).allowed = Last(frames[t]).allowed
          /\ frames[t] # <<>> /\ frames'[t] # <<>>
      BY <2>5, PassCallFrame DEF HookInv, HookTypes
    <3>3. /\ Last(frames'[t]) = frames'[t][Len(frames[t])]
          /\ Last(frames[t]) = frames[t][Len(frames[t])]
          /\ DOMAIN frames[t] = 1 .. Len(frames[t]) /\ Len(frames[t]) \in Nat \ {0}
          /\ DOMAIN frames'[t] = 1 .. Len(frames[t])
      <4>1. Last(frames'[t]) = frames'[t][Len(frames'[t])]
        BY <3>2, FrontElements
      <4>2. Last(frames[t]) = frames[t][Len(frames[t])]
        BY <1>3, <3>2, FrontElements
      <4>3. DOMAIN frames[t] = 1 .. Len(frames[t]) /\ Len(frames[t]) \in Nat \ {0}
        BY <1>3, <3>2
      <4>4. DOMAIN frames'[t] = 1 .. Len(frames'[t])
        BY <3>2
      <4>5. QED
        BY <3>2, <4>1, <4>2, <4>3, <4>4
    <3>4. \A i \in 1 .. Len(frames[t]) : i \in 1 .. Len(frames[t]) - 1 \/ i = Len(frames[t])
      BY <3>3
    <3>5. QED
      BY <1>3, <3>1, <3>2, <3>3, <3>4
  <2>6. CASE PassOther(t)
    BY <1>1, <1>3, <2>6 DEF PassOther, GoTo, HookTypes
  <2>7. CASE MintOwn(t)
    BY <1>1, <1>3, <2>7 DEF MintOwn, GoTo, HookTypes
  <2>8. CASE Emit(t)
    <3>1. sidecar'[t] = <<>> /\ event'[t] = Idle
      BY <1>1, <2>8 DEF Emit, Finish, HookTypes
    <3>2. Idle.allowed /\ Idle.pushed = 0
      BY DEF Idle, Preparing
    <3>3. \A i \in DOMAIN frames'[t] : frames'[t][i].allowed
      <4>1. CASE event[t].type \in Returns
        <5>1. frames'[t] = Front(frames[t]) /\ frames[t] # <<>>
          BY <1>1, <2>8, <4>1 DEF Emit, Leave, HookTypes, HookInv, HookOK
        <5>2. /\ Front(frames[t]) \in Seq(Frame) /\ Len(Front(frames[t])) = Len(frames[t]) - 1
              /\ \A i \in 1 .. Len(frames[t]) - 1 : Front(frames[t])[i] = frames[t][i]
          BY <1>3, <5>1, FrontElements
        <5>3. QED
          BY <1>3, <5>1, <5>2
      <4>2. CASE event[t].type \notin Returns
        BY <1>3, <2>8, <4>2 DEF Emit, Leave
      <4>3. QED
        BY <4>1, <4>2
    <3>4. sidecar'[t] = <<>> /\ event'[t].allowed /\ Len(sidecar'[t]) = event'[t].pushed
      BY <3>1, <3>2
    <3>5. QED
      BY <3>3, <3>4
  <2>9. QED
    BY <2>1, <2>2, <2>3, <2>4, <2>5, <2>6, <2>7, <2>8 DEF HookMove, HookStep
<1>5. QED
  BY <1>2, <1>4 DEF Unfiltered, Untouched

\* As long as the config filters nothing, every datagram carries the refs
\* of its own event and no others (hook_logging.c:50-51). The hypothesis is
\* needed: a filtered event leaves its refs in the sidecar.
THEOREM SidecarsHoldOwnRefs ==
  ASSUME FALSE \notin Gates
  PROVE  Spec => []OwnRefsOnly
<1>1. Init => Unfiltered
  BY DEF Init, Unfiltered, Idle, Preparing
<1>2. HookInv /\ HookInv' /\ Unfiltered /\ [Next]_vars => Unfiltered'
  <2> SUFFICES ASSUME HookInv, HookInv', Unfiltered, [Next]_vars PROVE Unfiltered'
    OBVIOUS
  <2>1. CASE \E t \in Threads : HookMove(t)
    BY <2>1, HookUnfiltered
  <2>2. CASE ReaderMove \/ UNCHANGED vars
    BY <2>2, ReaderUntouched DEF Unfiltered, hookVars
  <2>3. QED
    BY <2>1, <2>2, NextSplit
<1>3. Unfiltered => OwnRefsOnly
  BY DEF Unfiltered, OwnRefsOnly
<1>4. QED
  BY <1>1, <1>2, <1>3, HooksInvariant, PTL DEF Spec
=============================================================================
