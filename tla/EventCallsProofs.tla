--------------------------- MODULE EventCallsProofs ---------------------------
(***************************************************************************)
(* Proofs about EventPipe, continued: the ids that returns carry, and where *)
(* every call is.                                                          *)
(***************************************************************************)
EXTENDS EventPipeProofs

-----------------------------------------------------------------------------
(* The stack of call ids against the stack of frames.                      *)

\* The logged frames among the first k of `fs`.
LoggedIn(fs, k) == {i \in 1 .. k : fs[i].allowed}

Rank(fs, k) == Cardinality(LoggedIn(fs, k))

\* The id that a thread with these frames has on its stack for frame i.
IdOf(fs, i) == IF Rank(fs, i) <= StackCap THEN fs[i].cid ELSE 0

\* `stack` holds the ids of the logged frames among the first k of `fs`.
IdsMatch(fs, k, stack) ==
  /\ Len(stack) = Rank(fs, k)
  /\ \A i \in LoggedIn(fs, k) : stack[Rank(fs, i)] = IdOf(fs, i)

\* The frames of t whose call has its id: not the one still in preparation.
Settled(t) ==
  IF event[t].type = "call" /\ step[t] # "send" THEN Len(frames[t]) - 1 ELSE Len(frames[t])

PairInv ==
  /\ \A t \in Threads : IdsMatch(frames[t], Settled(t), ids[t])
  /\ \A i \in DOMAIN socket : socket[i].id = socket[i].owes
  /\ datagram.id = datagram.owes

\* The logged frames can be counted.
LEMMA RankType ==
  ASSUME NEW fs, NEW k \in Nat
  PROVE  IsFiniteSet(LoggedIn(fs, k)) /\ Rank(fs, k) \in Nat
<1>1. IsFiniteSet(1 .. k)
  BY FS_Interval
<1>2. LoggedIn(fs, k) \subseteq 1 .. k
  BY DEF LoggedIn
<1>3. QED
  BY <1>1, <1>2, FS_Subset, FS_CardinalityType DEF Rank

\* One frame more is one logged frame more, or none.
LEMMA RankNext ==
  ASSUME NEW fs, NEW k \in Nat
  PROVE  /\ fs[k + 1].allowed =>
              LoggedIn(fs, k + 1) = LoggedIn(fs, k) \cup {k + 1} /\ Rank(fs, k + 1) = Rank(fs, k) + 1
         /\ ~fs[k + 1].allowed => LoggedIn(fs, k + 1) = LoggedIn(fs, k) /\ Rank(fs, k + 1) = Rank(fs, k)
<1>1. /\ \A i \in 1 .. k + 1 : i \in 1 .. k \/ i = k + 1
      /\ \A i \in 1 .. k : i \in 1 .. k + 1
      /\ k + 1 \notin 1 .. k /\ k + 1 \in 1 .. k + 1
  OBVIOUS
<1>2. ASSUME ~fs[k + 1].allowed
      PROVE  LoggedIn(fs, k + 1) = LoggedIn(fs, k)
  BY <1>1, <1>2, Zenon DEF LoggedIn
<1>3. ASSUME fs[k + 1].allowed
      PROVE  LoggedIn(fs, k + 1) = LoggedIn(fs, k) \cup {k + 1}
  BY <1>1, <1>3, Zenon DEF LoggedIn
<1>4. k + 1 \notin LoggedIn(fs, k)
  BY <1>1 DEF LoggedIn
<1>5. QED
  BY <1>2, <1>3, <1>4, RankType, FS_AddElement DEF Rank

\* Every logged frame has a rank among them.
LEMMA RankGrows ==
  ASSUME NEW fs, NEW k \in Nat, NEW i \in LoggedIn(fs, k)
  PROVE  Rank(fs, i) \in 1 .. Rank(fs, k) /\ i \in Nat /\ i \in 1 .. k
<1>1. i \in 1 .. k /\ i \in Nat /\ i \in 1 .. i /\ 1 .. i \subseteq 1 .. k
  BY DEF LoggedIn
<1>2. LoggedIn(fs, i) \subseteq LoggedIn(fs, k)
  BY <1>1 DEF LoggedIn
<1>3. i \in LoggedIn(fs, i)
  BY <1>1, Zenon DEF LoggedIn
<1>4. Rank(fs, i) <= Rank(fs, k)
  BY <1>2, RankType, FS_Subset DEF Rank
<1>5. Rank(fs, i) # 0
  BY <1>1, <1>3, RankType, FS_EmptySet DEF Rank
<1>6. QED
  BY <1>1, <1>4, <1>5, RankType

\* Frames that agree on what counts match the same stacks.
LEMMA MatchSame ==
  ASSUME NEW fs, NEW gs, NEW k \in Nat, NEW stack, IdsMatch(fs, k, stack),
         \A i \in 1 .. k : gs[i] = fs[i]
  PROVE  IdsMatch(gs, k, stack)
<1>1. ASSUME NEW j \in 0 .. k
      PROVE  LoggedIn(gs, j) = LoggedIn(fs, j)
  <2>1. 1 .. j \subseteq 1 .. k
    OBVIOUS
  <2>2. QED
    BY <2>1, Zenon DEF LoggedIn
<1>2. \A j \in 0 .. k : Rank(gs, j) = Rank(fs, j)
  BY <1>1 DEF Rank
<1>3. k \in 0 .. k /\ 1 .. k \subseteq 0 .. k
  OBVIOUS
<1>4. \A i \in LoggedIn(fs, k) : i \in 1 .. k
  BY DEF LoggedIn
<1>5. QED
  BY <1>1, <1>2, <1>3, <1>4 DEF IdsMatch, IdOf

\* A frame that is not logged has no id on the stack.
LEMMA MatchSkip ==
  ASSUME NEW fs, NEW k \in Nat, NEW stack, ~fs[k + 1].allowed
  PROVE  IdsMatch(fs, k, stack) <=> IdsMatch(fs, k + 1, stack)
  BY RankNext DEF IdsMatch

\* The id of a logged call goes on top of the stack; beyond StackCap a 0
\* stands for it.
LEMMA MatchPush ==
  ASSUME NEW fs, NEW k \in Nat, NEW S, NEW stack \in Seq(S), NEW x \in S, IdsMatch(fs, k, stack),
         fs[k + 1].allowed, x = IF Len(stack) < StackCap THEN fs[k + 1].cid ELSE 0
  PROVE  IdsMatch(fs, k + 1, Append(stack, x))
<1> DEFINE new == Append(stack, x)
<1>1. /\ Len(new) = Len(stack) + 1 /\ \A i \in 1 .. Len(stack) : new[i] = stack[i]
      /\ new[Len(stack) + 1] = x
  BY AppendElements
<1> HIDE DEF new
<1>2. Rank(fs, k + 1) = Rank(fs, k) + 1 /\ LoggedIn(fs, k + 1) = LoggedIn(fs, k) \cup {k + 1}
  BY RankNext
<1>3. Len(stack) = Rank(fs, k) /\ Rank(fs, k) \in Nat
  BY RankType DEF IdsMatch
<1>4. ASSUME NEW i \in LoggedIn(fs, k)
      PROVE  new[Rank(fs, i)] = IdOf(fs, i)
  BY <1>1, <1>3, RankGrows DEF IdsMatch
<1>5. new[Rank(fs, k + 1)] = IdOf(fs, k + 1)
  BY <1>1, <1>2, <1>3, Constants DEF IdOf
<1>6. QED
  BY <1>1, <1>2, <1>3, <1>4, <1>5 DEF IdsMatch, new

\* The id on top of the stack is the one of the last frame that is logged.
LEMMA MatchPop ==
  ASSUME NEW fs, NEW k \in Nat, NEW S, NEW stack \in Seq(S), IdsMatch(fs, k + 1, stack),
         fs[k + 1].allowed
  PROVE  stack # <<>> /\ Last(stack) = IdOf(fs, k + 1) /\ IdsMatch(fs, k, Front(stack))
<1>1. Rank(fs, k + 1) = Rank(fs, k) + 1 /\ LoggedIn(fs, k + 1) = LoggedIn(fs, k) \cup {k + 1}
      /\ Rank(fs, k) \in Nat
  BY RankNext, RankType
<1>2. Len(stack) = Rank(fs, k) + 1
  BY <1>1 DEF IdsMatch
<1>3. stack # <<>>
  BY <1>1, <1>2
<1>4. /\ Len(Front(stack)) = Len(stack) - 1 /\ Last(stack) = stack[Len(stack)]
      /\ \A i \in 1 .. Len(stack) - 1 : Front(stack)[i] = stack[i]
  BY <1>3, FrontElements
<1>5. Last(stack) = IdOf(fs, k + 1)
  BY <1>1, <1>2, <1>4 DEF IdsMatch
<1>6. ASSUME NEW i \in LoggedIn(fs, k)
      PROVE  Front(stack)[Rank(fs, i)] = IdOf(fs, i)
  BY <1>1, <1>2, <1>4, RankGrows DEF IdsMatch
<1>7. QED
  BY <1>1, <1>2, <1>3, <1>4, <1>5, <1>6 DEF IdsMatch

-----------------------------------------------------------------------------
(* A return pops the id of its call.                                       *)

\* The frames of a thread and where its settled frames end.
LEMMA FrameParts ==
  ASSUME HookInv, NEW t \in Threads
  PROVE  /\ frames[t] \in Seq(Frame) /\ Len(frames[t]) \in Nat /\ ids[t] \in Seq(0 .. MaxId)
         /\ DOMAIN frames[t] = 1 .. Len(frames[t])
         /\ frames[t] # <<>> => Len(frames[t]) - 1 \in Nat /\ Last(frames[t]) = frames[t][Len(frames[t])]
         /\ Settled(t) \in Nat
<1>1. frames[t] \in Seq(Frame) /\ ids[t] \in Seq(0 .. MaxId)
  BY DEF HookInv, HookTypes
<1>2. ASSUME frames[t] # <<>>
      PROVE  Len(frames[t]) - 1 \in Nat /\ Last(frames[t]) = frames[t][Len(frames[t])]
  <2>1. Last(frames[t]) = frames[t][Len(frames[t])]
    BY <1>1, <1>2, FrontElements
  <2>2. Len(frames[t]) \in Nat \ {0}
    BY <1>1, <1>2
  <2>3. QED
    BY <2>1, <2>2
<1>3. event[t].type = "call" => frames[t] # <<>>
  BY DEF HookInv, HookOK
<1>4. QED
  BY <1>1, <1>2, <1>3 DEF Settled

\* What a return owes is the id of the innermost frame.
LEMMA OwedIsTop ==
  ASSUME HookInv, NEW t \in Threads, frames[t] # <<>>
  PROVE  Owed(t) = IdOf(frames[t], Len(frames[t]))
<1>1. {i \in DOMAIN frames[t] : frames[t][i].allowed} = LoggedIn(frames[t], Len(frames[t]))
  BY FrameParts DEF LoggedIn
<1>2. QED
  BY <1>1, FrameParts DEF Owed, IdOf, Rank

\* A return about to be sent finds its call's id on top of the stack.
LEMMA ReturnPops ==
  ASSUME HookInv, NEW t \in Threads, IdsMatch(frames[t], Settled(t), ids[t]), step[t] = "send",
         event[t].type \in Returns
  PROVE  /\ PoppedId(t) = Owed(t)
         /\ frames[t] # <<>>
         /\ IdsMatch(frames[t], Len(frames[t]) - 1, Popped(t))
<1> DEFINE k == Len(frames[t]) - 1
<1>1. frames[t] # <<>> /\ Last(frames[t]).allowed
  BY DEF HookInv, HookOK
<1>2. k \in Nat /\ k + 1 = Len(frames[t]) /\ Last(frames[t]) = frames[t][k + 1] /\ Settled(t) = k + 1
      /\ ids[t] \in Seq(0 .. MaxId)
  BY <1>1, FrameParts DEF Settled
<1>3. IdsMatch(frames[t], k + 1, ids[t]) /\ frames[t][k + 1].allowed
  BY <1>1, <1>2
<1> HIDE DEF k
<1>4. ids[t] # <<>> /\ Last(ids[t]) = IdOf(frames[t], k + 1) /\ IdsMatch(frames[t], k, Front(ids[t]))
  BY <1>2, <1>3, MatchPop
<1>5. QED
  BY <1>1, <1>2, <1>4, OwedIsTop DEF Popped, PoppedId, k

\* So every event is sent with the id it owes.
LEMMA DatagramPaired ==
  ASSUME HookInv, NEW t \in Threads, IdsMatch(frames[t], Settled(t), ids[t]), step[t] = "send"
  PROVE  Datagram(t).id = Datagram(t).owes
<1>1. event[t].type \in Returns => PoppedId(t) = Owed(t)
  BY ReturnPops
<1>2. QED
  BY <1>1 DEF Datagram

\* A hook that ends keeps stack and frames in step: a sent return pops
\* both, a filtered event has no id on the stack.
LEMMA LeaveMatches ==
  ASSUME HookInv, NEW t \in Threads, IdsMatch(frames[t], Settled(t), ids[t]),
         Finish(t), Leave(t),
         \/ step[t] = "send" /\ ids'[t] = IF event[t].type \in Returns THEN Popped(t) ELSE ids[t]
         \/ step[t] = "log" /\ ~event[t].allowed /\ ids'[t] = ids[t]
  PROVE  IdsMatch(frames'[t], Settled(t)', ids'[t])
<1>1. event'[t].type # "call"
  BY DEF Finish, Idle, Preparing, HookInv, HookTypes
<1>2. Settled(t)' = Len(frames'[t])
  BY <1>1 DEF Settled
<1> DEFINE n == Len(frames[t])  k == n - 1
<1>3. /\ event[t].type \in Returns => frames[t] # <<>> /\ frames'[t] = Front(frames[t])
                                      /\ Settled(t) = n
      /\ event[t].type \notin Returns => frames'[t] = frames[t]
  BY DEF Leave, HookInv, HookTypes, HookOK, Settled, Returns
<1>4. CASE event[t].type \in Returns
  <2>1. /\ frames[t] \in Seq(Frame) /\ k \in Nat /\ k + 1 = n /\ Last(frames[t]) = frames[t][k + 1]
        /\ frames[t] # <<>>
    BY <1>3, <1>4, FrameParts
  <2>2. Len(Front(frames[t])) = k /\ \A i \in 1 .. k : Front(frames[t])[i] = frames[t][i]
    BY <2>1, FrontElements
  <2>3. IdsMatch(frames[t], k, ids'[t])
    <3>1. CASE step[t] = "send"
      BY <1>4, <3>1, ReturnPops
    <3>2. CASE step[t] # "send"
      <4>1. ~frames[t][k + 1].allowed /\ ids'[t] = ids[t]
        BY <1>4, <2>1, <3>2 DEF HookInv, HookOK
      <4>2. IdsMatch(frames[t], k + 1, ids[t])
        BY <1>3, <1>4, <2>1
      <4> HIDE DEF k
      <4>3. QED
        BY <2>1, <4>1, <4>2, MatchSkip
    <3>3. QED
      BY <3>1, <3>2
  <2> HIDE DEF k
  <2>4. IdsMatch(Front(frames[t]), k, ids'[t])
    BY <2>1, <2>2, <2>3, MatchSame
  <2>5. QED
    BY <1>2, <1>3, <1>4, <2>2, <2>4
<1>5. CASE event[t].type \notin Returns
  <2>1. frames'[t] = frames[t] /\ ids'[t] = ids[t]
    BY <1>3, <1>5
  <2>2. CASE event[t].type = "call" /\ step[t] = "log"
    <3>1. /\ frames[t] # <<>> /\ ~Last(frames[t]).allowed /\ Settled(t) = k
          /\ k \in Nat /\ k + 1 = n /\ Last(frames[t]) = frames[t][k + 1]
      BY <2>2, FrameParts DEF HookInv, HookOK, Settled
    <3> HIDE DEF k
    <3>2. IdsMatch(frames[t], k + 1, ids[t])
      BY <3>1, MatchSkip
    <3>3. QED
      BY <1>2, <2>1, <3>1, <3>2
  <2>3. CASE ~(event[t].type = "call" /\ step[t] = "log")
    BY <1>2, <2>1, <2>3 DEF Settled
  <2>4. QED
    BY <2>2, <2>3
<1>6. QED
  BY <1>4, <1>5

\* A call that passes the gate puts its id on both.
LEMMA PassCallMatches ==
  ASSUME HookInv, NEW t \in Threads, IdsMatch(frames[t], Settled(t), ids[t]), PassCall(t)
  PROVE  IdsMatch(frames'[t], Settled(t)', ids'[t])
<1> DEFINE n == Len(frames[t])  k == n - 1
<1>1. /\ event[t].type = "call" /\ step[t] = "log" /\ step'[t] = "send" /\ event' = event
      /\ event[t].allowed
      /\ ids'[t] = Append(ids[t], IF Len(ids[t]) < StackCap THEN counter + 1 ELSE 0)
  BY DEF PassCall, AtGate, GoTo, HookInv, HookTypes
<1>2. /\ frames[t] # <<>> /\ Last(frames[t]).allowed
      /\ frames[t] \in Seq(Frame) /\ k \in Nat /\ k + 1 = n
      /\ ids[t] \in Seq(0 .. MaxId) /\ Settled(t) = k
  BY <1>1, FrameParts DEF HookInv, HookOK, Settled
<1>3. /\ frames'[t] \in Seq(Frame) /\ Len(frames'[t]) = k + 1 /\ frames'[t] # <<>>
      /\ Last(frames'[t]).cid = counter + 1 /\ Last(frames'[t]).allowed
      /\ \A i \in 1 .. k : frames'[t][i] = frames[t][i]
  BY <1>2, PassCallFrame
<1>4. Last(frames'[t]) = frames'[t][k + 1]
  BY <1>3, FrontElements
<1>5. counter + 1 \in 0 .. MaxId /\ 0 \in 0 .. MaxId
  BY PassCallCounts, Constants
<1>6. Settled(t)' = k + 1
  BY <1>1, <1>3 DEF Settled
<1> HIDE DEF k
<1>7. IdsMatch(frames'[t], k, ids[t])
  BY <1>2, <1>3, MatchSame
<1>8. IdsMatch(frames'[t], k + 1, ids'[t])
  <2> DEFINE x == IF Len(ids[t]) < StackCap THEN counter + 1 ELSE 0
  <2>1. x \in 0 .. MaxId /\ ids'[t] = Append(ids[t], x)
    BY <1>1, <1>5
  <2>2. x = IF Len(ids[t]) < StackCap THEN frames'[t][k + 1].cid ELSE 0
    BY <1>3, <1>4
  <2> HIDE DEF x
  <2>3. QED
    <3>1. /\ k \in Nat /\ ids[t] \in Seq(0 .. MaxId) /\ x \in 0 .. MaxId
          /\ IdsMatch(frames'[t], k, ids[t]) /\ frames'[t][k + 1].allowed
      BY <1>2, <1>3, <1>4, <1>7, <2>1
    <3>2. IdsMatch(frames'[t], k + 1, Append(ids[t], x))
      BY <2>2, <3>1, MatchPush
    <3>3. QED
      BY <2>1, <3>2
<1>9. QED
  BY <1>6, <1>8

\* An event that begins touches no id.
LEMMA BeginMatches ==
  ASSUME HookInv, NEW t \in Threads, IdsMatch(frames[t], Settled(t), ids[t]),
         BeginCall(t) \/ BeginSingle(t) \/ BeginReturn(t)
  PROVE  IdsMatch(frames'[t], Settled(t)', ids'[t])
<1>1. event[t].type = "none" /\ Settled(t) = Len(frames[t]) /\ ids'[t] = ids[t]
      /\ frames[t] \in Seq(Frame)
  BY FrameParts DEF BeginCall, BeginSingle, BeginReturn, AppRuns, HookInv, HookOK, Settled
<1>2. CASE BeginCall(t)
  <2>1. PICK h \in Families, allowed \in Gates :
          /\ \E n \in h.args : Prepare(t, Preparing("call", allowed, n))
          /\ frames' = [frames EXCEPT ![t] = Append(@, [family |-> h, allowed |-> allowed, cid |-> 0])]
    BY <1>2 DEF BeginCall
  <2>2. event'[t].type = "call" /\ step'[t] = "log"
    BY <2>1 DEF Prepare, GoTo, Preparing, HookInv, HookTypes
  <2> DEFINE f == [family |-> h, allowed |-> allowed, cid |-> 0]
  <2>3. f \in Frame
    BY Constants DEF Frame
  <2>4. frames'[t] = Append(frames[t], f)
    BY <2>1 DEF HookInv, HookTypes
  <2> HIDE DEF f
  <2>5. Len(frames'[t]) = Len(frames[t]) + 1 /\ \A i \in 1 .. Len(frames[t]) : frames'[t][i] = frames[t][i]
    BY <1>1, <2>3, <2>4, AppendElements
  <2>6. Settled(t)' = Len(frames[t])
    BY <1>1, <2>2, <2>5 DEF Settled
  <2>7. IdsMatch(frames'[t], Len(frames[t]), ids[t])
    BY <1>1, <2>5, MatchSame, SMTT(60)
  <2>8. QED
    BY <1>1, <2>6, <2>7
<1>3. CASE BeginSingle(t) \/ BeginReturn(t)
  <2>1. event'[t].type # "call"
    <3>1. CASE BeginSingle(t)
      <4>1. PICK h \in Families, allowed \in Gates : \E n \in h.args :
               h.kind # "paired" /\ Prepare(t, Preparing(h.kind, allowed, n))
        BY <3>1 DEF BeginSingle
      <4>2. h.kind # "call"
        BY FamilyParts
      <4>3. QED
        BY <4>1, <4>2 DEF Prepare, Preparing, HookInv, HookTypes
    <3>2. CASE BeginReturn(t)
      BY <3>2 DEF BeginReturn, Prepare, Preparing, HookInv, HookTypes
    <3>3. QED
      BY <1>3, <3>1, <3>2
  <2>2. UNCHANGED frames
    BY <1>3 DEF BeginSingle, BeginReturn
  <2>3. QED
    BY <1>1, <2>1, <2>2 DEF Settled
<1>4. QED
  BY <1>2, <1>3

\* Every step of a thread keeps its stack and its frames in step.
LEMMA HookMatches ==
  ASSUME HookInv, NEW t \in Threads, IdsMatch(frames[t], Settled(t), ids[t]), HookMove(t)
  PROVE  IdsMatch(frames'[t], Settled(t)', ids'[t])
<1>1. HookTypes
  BY DEF HookInv
<1>2. CASE BeginCall(t) \/ BeginSingle(t) \/ BeginReturn(t)
  BY <1>2, BeginMatches
<1>3. CASE DeferRenderPush(t) \/ MintRef(t)
  <2>1. /\ event'[t].type = event[t].type /\ step[t] # "send" /\ step'[t] # "send"
        /\ UNCHANGED <<frames, ids>>
    BY <1>1, <1>3 DEF DeferRenderPush, MintRef, GoTo, HookTypes
  <2>2. QED
    BY <2>1 DEF Settled
<1>4. CASE Filtered(t)
  BY <1>4, LeaveMatches DEF Filtered, AtGate
<1>5. CASE PassCall(t)
  BY <1>5, PassCallMatches
<1>6. CASE PassOther(t) \/ MintOwn(t)
  <2>1. event[t].type # "call" /\ UNCHANGED <<event, frames, ids>>
    BY <1>6 DEF PassOther, MintOwn, HookInv, HookOK, Deferring
  <2>2. QED
    BY <2>1 DEF Settled
<1>7. CASE Emit(t)
  <2>1. /\ step[t] = "send" /\ Finish(t) /\ Leave(t)
        /\ ids'[t] = IF event[t].type \in Returns THEN Popped(t) ELSE ids[t]
    BY <1>1, <1>7 DEF Emit, HookTypes
  <2>2. QED
    BY <2>1, LeaveMatches
<1>8. QED
  BY <1>2, <1>3, <1>4, <1>5, <1>6, <1>7 DEF HookMove, HookStep

\* What a step does to the queue.
LEMMA HookSends ==
  ASSUME HookInv, NEW t \in Threads, HookMove(t)
  PROVE  /\ UNCHANGED datagram
         /\ \/ UNCHANGED socket
            \/ step[t] = "send" /\ socket' = Append(socket, Datagram(t))
  BY DEF HookMove, HookStep, BeginCall, BeginSingle, BeginReturn, DeferRenderPush, MintRef,
         Filtered, PassCall, PassOther, MintOwn, Emit, Delivered, Refused

\* Every step keeps PairInv.
LEMMA NextPairs ==
  ASSUME RefInv, PairInv, [Next]_vars
  PROVE  PairInv'
<1>1. HookInv /\ PipeTypes
  BY DEF RefInv
<1>2. CASE \E t \in Threads : HookMove(t)
  <2>1. PICK t \in Threads : HookMove(t)
    BY <1>2
  <2>2. ASSUME NEW u \in Threads
        PROVE  IdsMatch(frames'[u], Settled(u)', ids'[u])
    <3>1. IdsMatch(frames[u], Settled(u), ids[u])
      BY DEF PairInv
    <3>2. CASE u = t
      BY <1>1, <2>1, <3>1, <3>2, HookMatches
    <3>3. CASE u # t
      BY <1>1, <2>1, <3>1, <3>3, OthersUntouched DEF Untouched, Settled, HookInv
    <3>4. QED
      BY <3>2, <3>3
  <2>3. datagram'.id = datagram'.owes
    BY <1>1, <2>1, HookSends DEF PairInv
  <2>4. \A i \in DOMAIN socket' : socket'[i].id = socket'[i].owes
    <3>1. CASE UNCHANGED socket
      BY <3>1 DEF PairInv
    <3>2. CASE step[t] = "send" /\ socket' = Append(socket, Datagram(t))
      <4>1. Datagram(t) \in Wire /\ Datagram(t).id = Datagram(t).owes
        BY <1>1, <3>2, DatagramParts, DatagramPaired DEF PairInv
      <4> DEFINE w == Datagram(t)
      <4> HIDE DEF w
      <4>2. /\ DOMAIN socket' = 1 .. Len(socket) + 1 /\ DOMAIN socket = 1 .. Len(socket)
            /\ \A i \in DOMAIN socket : socket'[i] = socket[i]
            /\ socket'[Len(socket) + 1] = w /\ Len(socket) \in Nat
        BY <1>1, <3>2, <4>1, PipeAppend, PipeTypesParts DEF w
      <4>3. \A i \in DOMAIN socket' : i \in DOMAIN socket \/ i = Len(socket) + 1
        BY <4>2
      <4>4. QED
        BY <4>1, <4>2, <4>3 DEF PairInv, w
    <3>3. QED
      BY <1>1, <2>1, <3>1, <3>2, HookSends
  <2>5. QED
    BY <2>2, <2>3, <2>4 DEF PairInv, Settled
<1>3. CASE ReaderMove \/ UNCHANGED vars
  <2>1. \A u \in Threads : IdsMatch(frames'[u], Settled(u)', ids'[u])
    BY <1>3, ReaderUntouched DEF hookVars, PairInv, Settled
  <2>2. /\ \A i \in DOMAIN socket' : socket'[i].id = socket'[i].owes
        /\ datagram'.id = datagram'.owes
    <3>1. CASE ReaderRead
      <4>1. socket # <<>> /\ socket' = Tail(socket) /\ datagram' = Head(socket)
        BY <3>1 DEF ReaderRead
      <4>2. /\ \A i \in DOMAIN socket' : socket'[i] = socket[i + 1] /\ i + 1 \in DOMAIN socket
            /\ Head(socket) = socket[1] /\ 1 \in DOMAIN socket
        BY <1>1, <4>1, PipeTail
      <4>3. QED
        BY <4>1, <4>2 DEF PairInv
    <3>2. CASE RenderRef
      <4>1. datagram \in Wire
        BY <1>1, <3>2 DEF RenderRef, PipeTypes, NoEvent
      <4>2. datagram'.id = datagram.id /\ datagram'.owes = datagram.owes /\ socket' = socket
        BY <3>2, <4>1 DEF RenderRef, Wire
      <4>3. QED
        BY <4>2 DEF PairInv
    <3>3. CASE Route
      BY <3>3 DEF Route, PairInv, NoEvent
    <3>4. CASE ReaderAttach \/ ReaderPublish \/ ReaderFail \/ UNCHANGED vars
      BY <3>4 DEF ReaderAttach, ReaderPublish, ReaderFail, vars, PairInv
    <3>5. QED
      BY <1>3, <3>1, <3>2, <3>3, <3>4 DEF ReaderMove, ReaderStep
  <2>3. QED
    BY <2>1, <2>2 DEF PairInv, Settled
<1>4. QED
  BY <1>2, <1>3, NextSplit

\* PairInv holds at the start.
LEMMA InitPairs == Init => PairInv
<1> SUFFICES ASSUME Init PROVE PairInv
  OBVIOUS
<1>1. DOMAIN socket = {} /\ datagram.id = datagram.owes
  BY DEF Init, NoEvent
<1>2. ASSUME NEW t \in Threads
      PROVE  IdsMatch(frames[t], Settled(t), ids[t])
  <2>1. frames[t] = <<>> /\ ids[t] = <<>> /\ Settled(t) = 0 /\ Len(ids[t]) = 0
    BY DEF Init, Settled, Idle, Preparing
  <2>2. LoggedIn(frames[t], 0) = {}
    BY DEF LoggedIn
  <2>3. QED
    BY <2>1, <2>2, FS_EmptySet DEF IdsMatch, Rank
<1>3. QED
  BY <1>1, <1>2 DEF PairInv

\* In every reachable state the stack of ids of every thread holds, rank by
\* rank, the ids of the logged calls it is inside of, and every datagram on
\* its way carries the id it owes.
THEOREM PairsInvariant == Spec => []PairInv
<1>1. RefInv /\ PairInv /\ [Next]_vars => PairInv'
  BY NextPairs
<1>2. QED
  BY <1>1, InitPairs, RefsInvariant, PTL DEF Spec

\* That is PairedByInvocation.
LEMMA PairsAreRight ==
  ASSUME PairInv
  PROVE  PairedByInvocation
  BY DEF PairInv, PairedByInvocation, Range

\* Every return carries the id of the call it ends, at any nesting, under
\* any answers of the config gate and for any depth of the stack, or 0 if
\* the call was deeper than the stack (bridge.c:140-149).
THEOREM ReturnsCarryTheirCall == Spec => []PairedByInvocation
  BY PairsInvariant, PairsAreRight, PTL

-----------------------------------------------------------------------------
(* Every call that got an id is in one place.                              *)

IsRead(id) == datagram.type = "call" /\ datagram.id = id

\* In how many places a call is.
Places(id) ==
  Cardinality(Unsent(id)) + Cardinality(Carrying(id)) + printed[id]
    + Count(id \in dropped) + Count(IsRead(id)) + Count(id \in pendingCalls)

TableExact ==
  /\ Table!TableTypeOK
  /\ pendingLen = Cardinality(pendingCalls)

\* A call's datagram carries an id.
CallsHaveIds ==
  /\ \A i \in DOMAIN socket : socket[i].type = "call" => socket[i].id # 0
  /\ datagram.type = "call" => datagram.id # 0

InOnePlace == \A id \in CallIds : Places(id) = Count(id <= counter)

CallInv == TableExact /\ dropped \subseteq CallIds /\ CallsHaveIds /\ InOnePlace

\* The threads and the datagrams that hold a call can be counted.
LEMMA PlaceCounts ==
  ASSUME PipeTypes, NEW id
  PROVE  /\ IsFiniteSet(Unsent(id)) /\ Cardinality(Unsent(id)) \in Nat
         /\ IsFiniteSet(Carrying(id)) /\ Cardinality(Carrying(id)) \in Nat
<1>1. Unsent(id) \subseteq Threads /\ IsFiniteSet(Threads)
  BY Constants DEF Unsent
<1>2. Carrying(id) \subseteq 1 .. Len(socket) /\ Len(socket) \in Nat
  BY PipeTypesParts DEF Carrying
<1>3. IsFiniteSet(1 .. Len(socket))
  BY <1>2, FS_Interval
<1>4. IsFiniteSet(Unsent(id)) /\ IsFiniteSet(Carrying(id))
  BY <1>1, <1>2, <1>3, FS_Subset
<1>5. QED
  BY <1>4, FS_CardinalityType

\* Sets of call ids are finite.
LEMMA CallIdsFinite ==
  ASSUME NEW S, S \subseteq CallIds
  PROVE  IsFiniteSet(S) /\ Cardinality(S) \in Nat
<1>1. IsFiniteSet(CallIds)
  BY Constants, FS_Interval DEF CallIds
<1>2. IsFiniteSet(S)
  BY <1>1, FS_Subset
<1>3. QED
  BY <1>2, FS_CardinalityType

\* Count is a number.
LEMMA CountType ==
  ASSUME NEW b \in BOOLEAN
  PROVE  Count(b) \in 0 .. 1 /\ (b <=> Count(b) = 1)
  BY DEF Count

\* A step of t by which no call gets its id and none is sent or dropped.
LEMMA UnsentKept ==
  ASSUME HookInv, HookInv', NEW t \in Threads, HookMove(t), NEW id,
         ~(event[t].type = "call" /\ step[t] = "send"),
         ~(event'[t].type = "call" /\ step'[t] = "send")
  PROVE  Unsent(id)' = Unsent(id)
<1>1. \A u \in Threads : u # t => Untouched(u)
  BY OthersUntouched DEF HookInv
<1>2. \A u \in Threads : u \in Unsent(id)' <=> u \in Unsent(id)
  BY <1>1 DEF Untouched, Unsent
<1>3. QED
  BY <1>2 DEF Unsent

\* A datagram more in the queue.
LEMMA CarryingAppend ==
  ASSUME PipeTypes, NEW w \in Wire, socket' = Append(socket, w), NEW id
  PROVE  /\ w.type = "call" /\ w.id = id =>
              Carrying(id)' = Carrying(id) \cup {Len(socket) + 1} /\ Len(socket) + 1 \notin Carrying(id)
         /\ ~(w.type = "call" /\ w.id = id) => Carrying(id)' = Carrying(id)
<1>1. /\ DOMAIN socket' = 1 .. Len(socket) + 1 /\ DOMAIN socket = 1 .. Len(socket)
      /\ \A i \in DOMAIN socket : socket'[i] = socket[i]
      /\ socket'[Len(socket) + 1] = w /\ Len(socket) \in Nat
  BY PipeAppend, PipeTypesParts
<1>2. /\ \A i \in DOMAIN socket' : i \in DOMAIN socket \/ i = Len(socket) + 1
      /\ \A i \in DOMAIN socket : i \in DOMAIN socket'
      /\ Len(socket) + 1 \in DOMAIN socket' /\ Len(socket) + 1 \notin DOMAIN socket
  BY <1>1
<1>3. Carrying(id)' = {i \in DOMAIN socket' : socket'[i].type = "call" /\ socket'[i].id = id}
  BY DEF Carrying
<1>4. QED
  BY <1>1, <1>2, <1>3, Zenon DEF Carrying

\* The first datagram leaves the queue.
LEMMA CarryingTail ==
  ASSUME PipeTypes, socket # <<>>, socket' = Tail(socket), NEW id
  PROVE  Cardinality(Carrying(id)) =
           Cardinality(Carrying(id)') + Count(Head(socket).type = "call" /\ Head(socket).id = id)
<1>1. /\ DOMAIN socket' = 1 .. Len(socket) - 1 /\ DOMAIN socket = 1 .. Len(socket)
      /\ \A i \in DOMAIN socket' : socket'[i] = socket[i + 1] /\ i + 1 \in DOMAIN socket
      /\ Head(socket) = socket[1] /\ 1 \in DOMAIN socket /\ Len(socket) \in Nat
  BY PipeTail, PipeTypesParts
<1> DEFINE new == Carrying(id)'  old == Carrying(id) \ {1}
<1>2. new = {i \in DOMAIN socket' : socket'[i].type = "call" /\ socket'[i].id = id}
  BY DEF Carrying
<1>3. \A i \in new : i \in Nat /\ i + 1 \in old
  BY <1>1, <1>2 DEF Carrying
<1>4. \A j \in old : j \in Nat /\ j - 1 \in new /\ (j - 1) + 1 = j
  <2> SUFFICES ASSUME NEW j \in old PROVE j \in Nat /\ j - 1 \in new /\ (j - 1) + 1 = j
    OBVIOUS
  <2>1. j \in 1 .. Len(socket) /\ j # 1 /\ socket[j].type = "call" /\ socket[j].id = id
    BY <1>1 DEF Carrying
  <2>2. j - 1 \in 1 .. Len(socket) - 1 /\ (j - 1) + 1 = j /\ j \in Nat
    BY <1>1, <2>1
  <2>3. socket'[j - 1] = socket[j]
    BY <1>1, <2>2
  <2>4. QED
    BY <1>1, <1>2, <2>1, <2>2, <2>3
<1>5. IsFiniteSet(new)
  <2>1. IsFiniteSet(1 .. Len(socket) - 1)
    BY <1>1, FS_Interval
  <2>2. QED
    BY <1>1, <1>2, <2>1, FS_Subset
<1> HIDE DEF new, old
<1>6. Cardinality(old) = Cardinality(new)
  <2> DEFINE f == [i \in new |-> i + 1]
  <2>1. f \in [new -> old]
    BY <1>3
  <2>2. \A i, j \in new : f[i] = f[j] => i = j
    BY <1>3
  <2>3. \A j \in old : \E i \in new : f[i] = j
    BY <1>4
  <2> HIDE DEF f
  <2>4. f \in Bijection(new, old)
    BY <2>1, <2>2, <2>3 DEF Bijection, Injection, Surjection, IsInjective
  <2>5. ExistsBijection(new, old)
    BY <2>4 DEF ExistsBijection
  <2>6. QED
    BY <1>5, <2>5, FS_Bijection
<1>7. 1 \in Carrying(id) <=> Head(socket).type = "call" /\ Head(socket).id = id
  BY <1>1 DEF Carrying
<1>8. IsFiniteSet(Carrying(id)) /\ Cardinality(Carrying(id)) \in Nat
  BY PlaceCounts
<1>9. Cardinality(Carrying(id) \ {1}) =
        IF 1 \in Carrying(id) THEN Cardinality(Carrying(id)) - 1 ELSE Cardinality(Carrying(id))
  BY <1>8, FS_RemoveElement
<1>10. Cardinality(Carrying(id)) = Cardinality(old) + Count(1 \in Carrying(id))
  BY <1>8, <1>9 DEF old, Count
<1>11. QED
  BY <1>6, <1>7, <1>10 DEF new, Count

\* Hook steps leave the table alone, and all but the sending of a call leave
\* every call where it is.
LEMMA HookTable ==
  ASSUME NEW t \in Threads, HookMove(t)
  PROVE  UNCHANGED <<datagram, tableVars>>
  BY DEF HookMove, HookStep, BeginCall, BeginSingle, BeginReturn, DeferRenderPush, MintRef,
         Filtered, PassCall, PassOther, MintOwn, Emit, Delivered, Refused

\* The table stays exact where it is not touched.
LEMMA TableExactKept ==
  ASSUME TableExact, UNCHANGED tableVars
  PROVE  TableExact'
  BY DEF TableExact, tableVars, Table!TableTypeOK, Table!CallIds

\* A call gets its id.
LEMMA PassCallPlaces ==
  ASSUME RefInv, HookInv', CallInv, NEW t \in Threads, PassCall(t)
  PROVE  CallInv'
<1>1. /\ HookInv /\ PipeTypes /\ HookMove(t) /\ counter' = counter + 1 /\ counter \in Nat
      /\ UNCHANGED <<event, socket, dropped, datagram, tableVars>>
  BY DEF RefInv, HookInv, HookMove, HookStep, PassCall
<1>2. /\ event[t].type = "call" /\ step[t] = "log" /\ step'[t] = "send"
      /\ Last(frames'[t]).cid = counter + 1
  BY <1>1, PassCallFrame DEF PassCall, AtGate, GoTo, HookInv, HookTypes
<1>3. \A u \in Threads : u # t => Untouched(u)
  BY <1>1, OthersUntouched DEF HookInv
<1>4. ASSUME NEW id \in CallIds
      PROVE  Places(id)' = Count(id <= counter')
  <2>1. t \notin Unsent(id)
    BY <1>2 DEF Unsent
  <2>2. \A u \in Threads : u \in Unsent(id)' <=> u \in Unsent(id) \/ (u = t /\ id = counter + 1)
    BY <1>1, <1>2, <1>3, <2>1 DEF Untouched, Unsent
  <2>3. Unsent(id)' = IF id = counter + 1 THEN Unsent(id) \cup {t} ELSE Unsent(id)
    BY <2>2 DEF Unsent
  <2>4. Cardinality(Unsent(id)') = Cardinality(Unsent(id)) + Count(id = counter + 1)
    <3>1. IsFiniteSet(Unsent(id)) /\ Cardinality(Unsent(id)) \in Nat
      BY <1>1, PlaceCounts
    <3>2. Cardinality(Unsent(id) \cup {t}) = Cardinality(Unsent(id)) + 1
      BY <2>1, <3>1, FS_AddElement
    <3>3. QED
      BY <2>3, <3>1, <3>2 DEF Count
  <2>5. Count(id <= counter') = Count(id <= counter) + Count(id = counter + 1)
    BY <1>1 DEF Count, CallIds
  <2>6. /\ Cardinality(Carrying(id)') = Cardinality(Carrying(id)) /\ printed'[id] = printed[id]
        /\ Count(id \in dropped)' = Count(id \in dropped)
        /\ Count(IsRead(id))' = Count(IsRead(id))
        /\ Count(id \in pendingCalls)' = Count(id \in pendingCalls)
    BY <1>1 DEF Carrying, IsRead, tableVars, Count
  <2>7. /\ Cardinality(Unsent(id)) \in Nat /\ Cardinality(Carrying(id)) \in Nat
        /\ printed[id] \in Nat /\ Count(id = counter + 1) \in Nat /\ Count(id \in dropped) \in Nat
        /\ Count(IsRead(id)) \in Nat /\ Count(id \in pendingCalls) \in Nat
    BY <1>1, PlaceCounts DEF Count, CallInv, TableExact, Table!TableTypeOK, Table!CallIds, CallIds
  <2>8. Places(id) = Count(id <= counter)
    BY DEF CallInv, InOnePlace
  <2>9. QED
    BY <2>4, <2>5, <2>6, <2>7, <2>8 DEF Places
<1>5. TableExact' /\ CallsHaveIds' /\ dropped' \subseteq CallIds
  BY <1>1, TableExactKept DEF CallInv, CallsHaveIds
<1>6. QED
  BY <1>4, <1>5 DEF CallInv, InOnePlace

\* A call is sent or dropped.
LEMMA EmitCallPlaces ==
  ASSUME RefInv, HookInv', CallInv, NEW t \in Threads, Emit(t), event[t].type = "call"
  PROVE  CallInv'
<1> DEFINE n == Last(frames[t]).cid  w == Datagram(t)
<1>1. /\ HookInv /\ PipeTypes /\ HookMove(t) /\ step[t] = "send"
      /\ UNCHANGED <<counter, datagram, tableVars>>
      /\ w.id = n /\ w.type = "call"
  <2>1. w.id = n /\ w.type = "call"
    BY DEF Datagram, Returns
  <2>2. QED
    BY <2>1 DEF RefInv, HookMove, HookStep, Emit
<1>2. n \in 1 .. counter /\ n \in CallIds /\ n \in Nat \ {0}
  BY <1>1, WaitingFinite, Constants DEF HookInv, HookOK, CallIds
<1>3. w \in Wire
  BY <1>1, DatagramParts
<1>4. event'[t].type = "none"
  BY <1>1 DEF Emit, Finish, Idle, Preparing, HookInv, HookTypes
<1>5. \A u \in Threads : u # t => Untouched(u)
  BY <1>1, OthersUntouched DEF HookInv
<1> HIDE DEF w
<1>6. ASSUME NEW id \in CallIds
      PROVE  Cardinality(Unsent(id)) = Cardinality(Unsent(id)') + Count(id = n)
             /\ Cardinality(Unsent(id)') \in Nat
  <2>1. t \in Unsent(id) <=> id = n
    BY <1>1 DEF Unsent
  <2>2. \A u \in Threads : u \in Unsent(id)' <=> u \in Unsent(id) /\ u # t
    BY <1>4, <1>5 DEF Untouched, Unsent
  <2>3. Unsent(id)' = Unsent(id) \ {t}
    BY <2>2 DEF Unsent
  <2>4. IsFiniteSet(Unsent(id)) /\ Cardinality(Unsent(id)) \in Nat
        /\ IsFiniteSet(Unsent(id) \ {t}) /\ Cardinality(Unsent(id) \ {t}) \in Nat
    BY <1>1, PlaceCounts, FS_RemoveElement, FS_CardinalityType
  <2>5. QED
    BY <2>1, <2>3, <2>4, FS_RemoveElement DEF Count
<1>7. TableExact'
  BY <1>1, TableExactKept DEF CallInv
<1>8. ASSUME NEW id \in CallIds
      PROVE  /\ Places(id) = Count(id <= counter)
             /\ printed'[id] = printed[id] /\ Count(IsRead(id))' = Count(IsRead(id))
             /\ Count(id \in pendingCalls)' = Count(id \in pendingCalls)
             /\ Count(id <= counter)' = Count(id <= counter)
             /\ Cardinality(Carrying(id)) \in Nat /\ printed[id] \in Nat
             /\ Count(id = n) \in Nat /\ Count(id \in dropped) \in Nat
             /\ Count(IsRead(id)) \in Nat /\ Count(id \in pendingCalls) \in Nat
  BY <1>1, PlaceCounts
     DEF Count, IsRead, tableVars, CallInv, InOnePlace, TableExact, Table!TableTypeOK,
         Table!CallIds, CallIds
<1>9. CASE Delivered(t)
  <2>1. socket' = Append(socket, w) /\ UNCHANGED dropped
    BY <1>9 DEF Delivered, w
  <2>2. ASSUME NEW id \in CallIds
        PROVE  Cardinality(Carrying(id)') = Cardinality(Carrying(id)) + Count(id = n)
    <3>1. CASE id = n
      <4>1. Carrying(id)' = Carrying(id) \cup {Len(socket) + 1} /\ Len(socket) + 1 \notin Carrying(id)
        BY <1>1, <1>3, <2>1, <3>1, CarryingAppend
      <4>2. QED
        <5>1. IsFiniteSet(Carrying(id))
          BY <1>1, PlaceCounts
        <5>2. Cardinality(Carrying(id) \cup {Len(socket) + 1}) = Cardinality(Carrying(id)) + 1
          BY <4>1, <5>1, FS_AddElement
        <5>3. Count(id = n) = 1
          BY <3>1 DEF Count
        <5>4. QED
          BY <4>1, <5>2, <5>3
    <3>2. CASE id # n
      BY <1>1, <1>3, <2>1, <3>2, CarryingAppend, PlaceCounts DEF Count
    <3>3. QED
      BY <3>1, <3>2
  <2>3. ASSUME NEW id \in CallIds
        PROVE  Places(id)' = Count(id <= counter)'
    <3>1. Count(id \in dropped)' = Count(id \in dropped)
      BY <2>1 DEF Count
    <3>2. QED
      BY <1>6, <1>8, <2>2, <3>1 DEF Places
  <2>4. CallsHaveIds'
    <3>1. /\ DOMAIN socket' = 1 .. Len(socket) + 1 /\ DOMAIN socket = 1 .. Len(socket)
          /\ \A i \in DOMAIN socket : socket'[i] = socket[i]
          /\ socket'[Len(socket) + 1] = w /\ Len(socket) \in Nat
      BY <1>1, <1>3, <2>1, PipeAppend, PipeTypesParts
    <3>2. \A i \in DOMAIN socket' : i \in DOMAIN socket \/ i = Len(socket) + 1
      BY <3>1
    <3>3. QED
      BY <1>1, <1>2, <3>1, <3>2 DEF CallInv, CallsHaveIds
  <2>5. QED
    BY <1>7, <2>1, <2>3, <2>4 DEF CallInv, InOnePlace
<1>10. CASE Refused(t)
  <2>1. UNCHANGED socket /\ dropped' = dropped \cup {n}
    BY <1>1, <1>10 DEF Refused, w
  <2>2. ASSUME NEW id \in CallIds
        PROVE  Places(id)' = Count(id <= counter)'
    <3>1. Cardinality(Carrying(id)') = Cardinality(Carrying(id))
      BY <2>1 DEF Carrying
    <3>2. id = n => Count(id \in dropped) = 0
      BY <1>6, <1>8 DEF Places, Count
    <3>3. Count(id \in dropped)' = Count(id \in dropped) + Count(id = n)
      BY <2>1, <3>2 DEF Count
    <3>4. QED
      BY <1>6, <1>8, <3>1, <3>3 DEF Places
  <2>3. CallsHaveIds'
    BY <1>1, <2>1 DEF CallInv, CallsHaveIds
  <2>4. QED
    BY <1>2, <1>7, <2>1, <2>2, <2>3 DEF CallInv, InOnePlace
<1>11. QED
  BY <1>9, <1>10 DEF Emit

\* No other step of a thread moves a call.
LEMMA OtherHookPlaces ==
  ASSUME RefInv, HookInv', CallInv, NEW t \in Threads, HookMove(t), ~PassCall(t),
         Emit(t) => event[t].type # "call"
  PROVE  CallInv'
<1>1. HookInv /\ PipeTypes /\ UNCHANGED <<datagram, tableVars>>
  BY HookTable DEF RefInv
<1>2. UNCHANGED <<counter, dropped>>
  BY DEF HookMove, HookStep, BeginCall, BeginSingle, BeginReturn, DeferRenderPush, MintRef,
         Filtered, PassOther, MintOwn, Emit, Delivered, Refused
<1>3. ~(event[t].type = "call" /\ step[t] = "send")
  BY <1>1 DEF HookMove, HookStep, BeginCall, BeginSingle, BeginReturn, AppRuns, DeferRenderPush,
         MintRef, Filtered, PassOther, MintOwn, AtGate, HookInv, HookOK
<1>4. ~(event'[t].type = "call" /\ step'[t] = "send")
  <2>1. CASE BeginCall(t) \/ BeginSingle(t) \/ BeginReturn(t)
    BY <1>1, <2>1 DEF BeginCall, BeginSingle, BeginReturn, Prepare, GoTo, HookInv, HookTypes
  <2>2. CASE DeferRenderPush(t) \/ MintRef(t)
    BY <1>1, <2>2 DEF DeferRenderPush, MintRef, GoTo, HookInv, HookTypes
  <2>3. CASE Filtered(t) \/ Emit(t)
    BY <1>1, <2>3 DEF Filtered, Emit, Finish, Idle, Preparing, HookInv, HookTypes
  <2>4. CASE PassOther(t) \/ MintOwn(t)
    BY <1>1, <2>4 DEF PassOther, MintOwn, HookInv, HookOK, Deferring
  <2>5. QED
    BY <2>1, <2>2, <2>3, <2>4 DEF HookMove, HookStep
<1>5. \A id : Unsent(id)' = Unsent(id)
  BY <1>1, <1>3, <1>4, UnsentKept
<1>6. (\A id : Carrying(id)' = Carrying(id)) /\ CallsHaveIds'
  <2>1. CASE UNCHANGED socket
    BY <1>1, <2>1 DEF Carrying, CallInv, CallsHaveIds
  <2>2. CASE step[t] = "send" /\ socket' = Append(socket, Datagram(t))
    <3> DEFINE w == Datagram(t)
    <3>1. w \in Wire /\ w.type # "call"
      BY <1>1, <1>3, <2>2, DatagramParts DEF Datagram
    <3> HIDE DEF w
    <3>2. socket' = Append(socket, w)
      BY <2>2 DEF w
    <3>3. \A id : Carrying(id)' = Carrying(id)
      BY <1>1, <3>1, <3>2, CarryingAppend
    <3>4. /\ DOMAIN socket' = 1 .. Len(socket) + 1 /\ DOMAIN socket = 1 .. Len(socket)
          /\ \A i \in DOMAIN socket : socket'[i] = socket[i]
          /\ socket'[Len(socket) + 1] = w /\ Len(socket) \in Nat
      BY <1>1, <3>1, <3>2, PipeAppend, PipeTypesParts
    <3>5. \A i \in DOMAIN socket' : i \in DOMAIN socket \/ i = Len(socket) + 1
      BY <3>4
    <3>6. CallsHaveIds'
      BY <1>1, <3>1, <3>4, <3>5 DEF CallInv, CallsHaveIds
    <3>7. QED
      BY <3>3, <3>6
  <2>3. QED
    BY <1>1, <2>1, <2>2, HookSends
<1>7. ASSUME NEW id \in CallIds
      PROVE  Places(id)' = Count(id <= counter)'
  <2>1. Places(id) = Count(id <= counter)
    BY DEF CallInv, InOnePlace
  <2>2. Places(id)' = Places(id)
    BY <1>1, <1>2, <1>5, <1>6 DEF Places, IsRead, Count, tableVars
  <2>3. QED
    BY <1>2, <2>1, <2>2 DEF Count
<1>8. QED
  BY <1>1, <1>2, <1>6, <1>7, TableExactKept DEF CallInv, InOnePlace

\* What the reader's steps leave alone.
LEMMA ReaderLeaves ==
  ASSUME ReaderMove \/ UNCHANGED vars, NEW id
  PROVE  /\ Unsent(id)' = Unsent(id) /\ Count(id \in dropped)' = Count(id \in dropped)
         /\ Count(id <= counter)' = Count(id <= counter) /\ dropped' = dropped
  BY ReaderUntouched DEF hookVars, Unsent, Count

\* The parts of the sum are numbers.
LEMMA PlaceTypes ==
  ASSUME RefInv, CallInv, NEW id \in CallIds
  PROVE  /\ Places(id) = Count(id <= counter) /\ Count(id <= counter) \in 0 .. 1
         /\ Cardinality(Unsent(id)) \in Nat /\ Cardinality(Carrying(id)) \in Nat
         /\ printed[id] \in Nat /\ Count(id \in dropped) \in Nat
         /\ Count(IsRead(id)) \in Nat /\ Count(id \in pendingCalls) \in Nat
  BY PlaceCounts
     DEF RefInv, Count, CallInv, InOnePlace, TableExact, Table!TableTypeOK, Table!CallIds, CallIds

CarryingCounted == \A k : Cardinality(Carrying(k)) \in Nat

\* How many datagrams carry a call is a number.
LEMMA CarryingCount == PipeTypes => CarryingCounted
  BY PlaceCounts DEF CarryingCounted

\* The same after a step.
LEMMA CarryingCountNext == PipeTypes' => CarryingCounted'
  BY CarryingCount, PTL

\* The reader takes the first datagram.
LEMMA ReadPlaces ==
  ASSUME RefInv, RefInv', CallInv, ReaderRead
  PROVE  CallInv'
<1>1. /\ socket # <<>> /\ socket' = Tail(socket) /\ datagram = NoEvent /\ datagram' = Head(socket)
      /\ UNCHANGED tableVars /\ ReaderMove /\ PipeTypes /\ PipeTypes'
  BY DEF ReaderRead, ReaderMove, ReaderStep, RefInv
<1>2. TableExact'
  BY <1>1, TableExactKept DEF CallInv
<1>3. CallsHaveIds'
  <2>1. /\ \A i \in DOMAIN socket' : socket'[i] = socket[i + 1] /\ i + 1 \in DOMAIN socket
        /\ Head(socket) = socket[1] /\ 1 \in DOMAIN socket
    BY <1>1, PipeTail
  <2>2. QED
    BY <1>1, <2>1 DEF CallInv, CallsHaveIds
<1>4. ASSUME NEW id \in CallIds
      PROVE  Places(id)' = Count(id <= counter)'
  <2>1. /\ Cardinality(Carrying(id)) = Cardinality(Carrying(id)') + Count(IsRead(id)')
        /\ Count(IsRead(id)) = 0
    BY <1>1, CarryingTail DEF IsRead, NoEvent, Count
  <2>2. Cardinality(Carrying(id)') \in Nat
    BY <1>1, CarryingCountNext DEF CarryingCounted
  <2>3. Count(id \in pendingCalls)' = Count(id \in pendingCalls) /\ printed'[id] = printed[id]
    BY <1>1 DEF tableVars, Count
  <2>4. Count(IsRead(id))' \in Nat
    BY DEF Count
  <2>5. QED
    BY <1>1, <2>1, <2>2, <2>3, <2>4, ReaderLeaves, PlaceTypes DEF Places
<1>5. QED
  BY <1>1, <1>2, <1>3, <1>4, ReaderLeaves DEF CallInv, InOnePlace

\* Steps of the reader that leave every call where it is.
LEMMA IdleReaderPlaces ==
  ASSUME RefInv, CallInv, ReaderMove \/ UNCHANGED vars, UNCHANGED <<socket, tableVars>>,
         (datagram.type = "call" \/ datagram'.type = "call") =>
           datagram'.type = datagram.type /\ datagram'.id = datagram.id
  PROVE  CallInv'
<1>1. TableExact'
  BY TableExactKept DEF CallInv
<1>2. CallsHaveIds'
  BY DEF CallInv, CallsHaveIds
<1>3. ASSUME NEW id \in CallIds
      PROVE  Places(id)' = Count(id <= counter)'
  <2>1. /\ Carrying(id)' = Carrying(id) /\ Count(IsRead(id))' = Count(IsRead(id))
        /\ printed'[id] = printed[id]
        /\ Count(id \in pendingCalls)' = Count(id \in pendingCalls)
    BY DEF Carrying, IsRead, Count, tableVars
  <2>2. QED
    BY <2>1, ReaderLeaves, PlaceTypes DEF Places
<1>4. dropped' = dropped
  BY ReaderLeaves
<1>5. QED
  BY <1>1, <1>2, <1>3, <1>4 DEF CallInv, InOnePlace

\* The table counts with the same Cardinality.
LEMMA SameCardinality == \A S : Table!Cardinality(S) = Cardinality(S)
  BY Zenon DEF Table!Cardinality, Cardinality

\* Removing a part of a finite set takes its size off.
LEMMA RemovePart ==
  ASSUME NEW S, IsFiniteSet(S), NEW T \in SUBSET S
  PROVE  Cardinality(S \ T) = Cardinality(S) - Cardinality(T)
<1>1. S \cap T = T
  OBVIOUS
<1>2. QED
  BY <1>1, FS_Difference

\* The call being dispatched is stored, and an eviction prints some.
LEMMA StoreExact ==
  ASSUME TableExact, NEW id \in CallIds, id \notin pendingCalls, Table!DispatchCall(id)
  PROVE  /\ TableExact'
         /\ \A k \in CallIds : printed'[k] + Count(k \in pendingCalls') =
              printed[k] + Count(k \in pendingCalls) + Count(k = id)
<1> DEFINE stored == pendingCalls \cup {id}
           gone == Table!Evicts(stored, Table!NewestOf(id), pendingLen + 1)
<1>1. /\ pendingCalls \subseteq CallIds /\ pendingNewest \in 0 .. MaxId /\ pendingLen \in Nat
      /\ printed \in [CallIds -> Nat] /\ evicted \in SUBSET CallIds /\ alone \in SUBSET (0 .. MaxId)
      /\ pendingLen = Cardinality(pendingCalls)
  BY DEF TableExact, Table!TableTypeOK, Table!CallIds, CallIds
<1>2. gone \subseteq stored /\ stored \subseteq CallIds
  BY <1>1 DEF Table!Evicts, Table!Stale
<1>3. Table!NewestOf(id) \in 0 .. MaxId
  BY <1>1 DEF Table!NewestOf, CallIds
<1>4. /\ pendingCalls' = stored \ gone /\ pendingNewest' = Table!NewestOf(id)
      /\ pendingLen' = pendingLen + 1 - Cardinality(gone)
      /\ printed' = [k \in CallIds |-> IF k \in gone THEN printed[k] + 1 ELSE printed[k]]
      /\ evicted' = evicted \cup gone /\ alone' = alone
  <2>1. Table!CallIds = CallIds
    BY DEF Table!CallIds, CallIds
  <2>2. pendingCalls' = stored \ gone /\ pendingNewest' = Table!NewestOf(id)
    BY DEF Table!DispatchCall
  <2>3. pendingLen' = pendingLen + 1 - Cardinality(gone)
    BY SameCardinality DEF Table!DispatchCall
  <2>4. printed' = [k \in CallIds |-> IF k \in gone THEN printed[k] + 1 ELSE printed[k]]
    BY <2>1 DEF Table!DispatchCall
  <2>5. evicted' = evicted \cup gone /\ alone' = alone
    BY DEF Table!DispatchCall
  <2>6. QED
    BY <2>2, <2>3, <2>4, <2>5
<1> HIDE DEF gone
<1>5. Cardinality(stored) = pendingLen + 1
  BY <1>1, CallIdsFinite, FS_AddElement
<1>6. Cardinality(stored \ gone) = Cardinality(stored) - Cardinality(gone)
  BY <1>2, CallIdsFinite, RemovePart
<1>7. pendingLen' = Cardinality(pendingCalls') /\ pendingLen' \in Nat
  BY <1>1, <1>2, <1>4, <1>5, <1>6, CallIdsFinite
<1>8. TableExact'
  BY <1>1, <1>2, <1>3, <1>4, <1>7 DEF TableExact, Table!TableTypeOK, Table!CallIds, CallIds
<1>9. ASSUME NEW k \in CallIds
      PROVE  printed'[k] + Count(k \in pendingCalls') =
               printed[k] + Count(k \in pendingCalls) + Count(k = id)
  <2>1. printed[k] \in Nat /\ printed'[k] = IF k \in gone THEN printed[k] + 1 ELSE printed[k]
    BY <1>1, <1>4
  <2>2. Count(k \in stored) = Count(k \in pendingCalls) + Count(k = id)
    BY DEF Count
  <2>3. CASE k \in gone
    BY <1>2, <1>4, <2>1, <2>2, <2>3 DEF Count
  <2>4. CASE k \notin gone
    BY <1>4, <2>1, <2>2, <2>4 DEF Count
  <2>5. QED
    BY <2>3, <2>4
<1>10. QED
  BY <1>8, <1>9

\* A return prints the call it finds.
LEMMA ReturnExact ==
  ASSUME TableExact, NEW id \in 0 .. MaxId, Table!DispatchReturn(id)
  PROVE  /\ TableExact'
         /\ \A k \in CallIds : printed'[k] + Count(k \in pendingCalls') =
              printed[k] + Count(k \in pendingCalls)
<1>1. /\ pendingCalls \subseteq CallIds /\ pendingNewest \in 0 .. MaxId /\ pendingLen \in Nat
      /\ printed \in [CallIds -> Nat] /\ evicted \in SUBSET CallIds /\ alone \in SUBSET (0 .. MaxId)
      /\ pendingLen = Cardinality(pendingCalls)
  BY DEF TableExact, Table!TableTypeOK, Table!CallIds, CallIds
<1>2. CASE Table!ReturnPaired(id)
  <2>1. /\ id \in CallIds /\ id \in pendingCalls /\ pendingCalls' = pendingCalls \ {id}
        /\ pendingLen' = pendingLen - 1 /\ printed' = [printed EXCEPT ![id] = @ + 1]
        /\ UNCHANGED <<pendingNewest, evicted, alone>>
    BY <1>1, <1>2 DEF Table!ReturnPaired
  <2>2. Cardinality(pendingCalls') = pendingLen - 1 /\ Cardinality(pendingCalls') \in Nat
    BY <1>1, <2>1, CallIdsFinite, FS_RemoveElement
  <2>3. printed' \in [CallIds -> Nat]
    BY <1>1, <2>1
  <2>4. TableExact'
    BY <1>1, <2>1, <2>2, <2>3 DEF TableExact, Table!TableTypeOK, Table!CallIds, CallIds
  <2>5. ASSUME NEW k \in CallIds
        PROVE  printed'[k] + Count(k \in pendingCalls') = printed[k] + Count(k \in pendingCalls)
    BY <1>1, <2>1 DEF Count
  <2>6. QED
    BY <2>4, <2>5
<1>3. CASE Table!ReturnAlone(id)
  BY <1>1, <1>3 DEF Table!ReturnAlone, TableExact, Table!TableTypeOK, Table!CallIds, CallIds
<1>4. QED
  BY <1>2, <1>3 DEF Table!DispatchReturn

\* The call being dispatched goes to the table; a return takes one from it.
LEMMA RoutePlaces ==
  ASSUME RefInv, CallInv, Route
  PROVE  CallInv'
<1>1. /\ datagram # NoEvent /\ datagram \in Wire /\ datagram' = NoEvent /\ UNCHANGED socket
      /\ ReaderMove /\ TableExact
  BY DEF Route, ReaderMove, ReaderStep, RefInv, PipeTypes, CallInv
<1>2. datagram'.type # "call" /\ datagram.id \in 0 .. MaxId
  BY <1>1 DEF NoEvent, Wire
<1>3. CallsHaveIds'
  BY <1>1, <1>2 DEF CallInv, CallsHaveIds
<1>4. ASSUME NEW id \in CallIds
      PROVE  Cardinality(Carrying(id)') = Cardinality(Carrying(id)) /\ Count(IsRead(id))' = 0
  BY <1>1, <1>2 DEF Carrying, IsRead, Count
<1>5. dropped' \subseteq CallIds
  BY <1>1, ReaderLeaves DEF CallInv
<1>6. CASE datagram.type = "call"
  <2>1. datagram.id \in CallIds /\ Table!DispatchCall(datagram.id)
    <3>1. datagram.id \in CallIds
      BY <1>2, <1>6, Constants DEF CallInv, CallsHaveIds, CallIds
    <3>2. Table!DispatchCall(datagram.id)
      BY <1>6 DEF Route, Returns
    <3>3. QED
      BY <3>1, <3>2
  <2>2. datagram.id \notin pendingCalls
    <3>1. Count(IsRead(datagram.id)) = 1
      BY <1>6 DEF IsRead, Count
    <3>2. Count(datagram.id \in pendingCalls) = 0
      BY <2>1, <3>1, PlaceTypes DEF Places
    <3>3. QED
      BY <3>2 DEF Count
  <2>3. /\ TableExact'
        /\ \A k \in CallIds : printed'[k] + Count(k \in pendingCalls') =
              printed[k] + Count(k \in pendingCalls) + Count(k = datagram.id)
    BY <1>1, <2>1, <2>2, StoreExact
  <2>4. ASSUME NEW id \in CallIds
        PROVE  Places(id)' = Count(id <= counter)'
    <3>1. Count(IsRead(id)) = Count(id = datagram.id)
      BY <1>6 DEF IsRead, Count
    <3>2. printed'[id] \in Nat /\ Count(id \in pendingCalls') \in Nat
      BY <2>3 DEF TableExact, Table!TableTypeOK, Table!CallIds, CallIds, Count
    <3>3. QED
      BY <1>1, <1>4, <2>3, <3>1, <3>2, ReaderLeaves, PlaceTypes DEF Places
  <2>5. QED
    BY <1>3, <1>5, <2>3, <2>4 DEF CallInv, InOnePlace
<1>7. CASE datagram.type \in Returns
  <2>1. datagram.type # "call" /\ Table!DispatchReturn(datagram.id)
    BY <1>7 DEF Route, Returns
  <2>2. /\ TableExact'
        /\ \A k \in CallIds : printed'[k] + Count(k \in pendingCalls') =
              printed[k] + Count(k \in pendingCalls)
    BY <1>1, <1>2, <2>1, ReturnExact
  <2>3. ASSUME NEW id \in CallIds
        PROVE  Places(id)' = Count(id <= counter)'
    <3>1. Count(IsRead(id)) = 0
      BY <2>1 DEF IsRead, Count
    <3>2. printed'[id] \in Nat /\ Count(id \in pendingCalls') \in Nat
      BY <2>2 DEF TableExact, Table!TableTypeOK, Table!CallIds, CallIds, Count
    <3>3. QED
      BY <1>1, <1>4, <2>2, <3>1, <3>2, ReaderLeaves, PlaceTypes DEF Places
  <2>4. QED
    BY <1>3, <1>5, <2>2, <2>3 DEF CallInv, InOnePlace
<1>8. CASE datagram.type \notin {"call"} \cup Returns
  BY <1>1, <1>2, <1>8, IdleReaderPlaces DEF Route
<1>9. QED
  BY <1>6, <1>7, <1>8

\* Every step keeps CallInv.
LEMMA NextPlaces ==
  ASSUME RefInv, RefInv', CallInv, [Next]_vars
  PROVE  CallInv'
<1>1. HookInv'
  BY DEF RefInv
<1>2. CASE \E t \in Threads : HookMove(t)
  BY <1>1, <1>2, PassCallPlaces, EmitCallPlaces, OtherHookPlaces
<1>3. CASE ReaderRead
  BY <1>3, ReadPlaces
<1>4. CASE Route
  BY <1>4, RoutePlaces
<1>5. CASE RenderRef
  <2>1. datagram \in Wire
    BY <1>5 DEF RenderRef, RefInv, PipeTypes, NoEvent
  <2>2. datagram'.type = datagram.type /\ datagram'.id = datagram.id
    BY <1>5, <2>1 DEF RenderRef, Wire
  <2>3. QED
    BY <1>5, <2>2, IdleReaderPlaces DEF RenderRef, ReaderMove, ReaderStep
<1>6. CASE ReaderAttach \/ ReaderPublish \/ ReaderFail \/ UNCHANGED vars
  <2>1. UNCHANGED <<socket, datagram, tableVars>> /\ (ReaderMove \/ UNCHANGED vars)
    BY <1>6 DEF ReaderAttach, ReaderPublish, ReaderFail, vars, ReaderMove, ReaderStep
  <2>2. QED
    BY <2>1, IdleReaderPlaces
<1>7. QED
  BY <1>2, <1>3, <1>4, <1>5, <1>6, NextSplit DEF ReaderMove, ReaderStep

\* CallInv holds at the start.
LEMMA InitPlaces == Init => CallInv
<1> SUFFICES ASSUME Init PROVE CallInv
  OBVIOUS
<1>1. /\ counter = 0 /\ socket = <<>> /\ datagram.type = "none" /\ dropped = {}
      /\ pendingCalls = {} /\ pendingLen = 0 /\ printed = [id \in CallIds |-> 0]
      /\ \A t \in Threads : event[t].type = "none"
  BY DEF Init, Table!TableInit, Table!CallIds, CallIds, NoEvent, Idle, Preparing
<1>2. TableExact
  BY <1>1, FS_EmptySet, Constants
     DEF Init, Table!TableInit, TableExact, Table!TableTypeOK, Table!CallIds, CallIds
<1>3. ASSUME NEW id \in CallIds
      PROVE  Places(id) = Count(id <= counter)
  <2>1. Unsent(id) = {} /\ Carrying(id) = {} /\ printed[id] = 0
    BY <1>1 DEF Unsent, Carrying
  <2>2. Count(id \in dropped) = 0 /\ Count(IsRead(id)) = 0 /\ Count(id \in pendingCalls) = 0
        /\ Count(id <= counter) = 0
    BY <1>1 DEF Count, IsRead, CallIds
  <2>3. QED
    BY <2>1, <2>2, FS_EmptySet DEF Places
<1>4. QED
  BY <1>1, <1>2, <1>3 DEF CallInv, CallsHaveIds, InOnePlace

\* The inductive invariant behind the accounting of calls holds in every
\* reachable state: the table is typed, its counter is its size, every call
\* datagram has an id, and an id that was given out is in one place while
\* the others are nowhere.
THEOREM CallsInvariant == Spec => []CallInv
<1>1. RefInv /\ RefInv' /\ CallInv /\ [Next]_vars => CallInv'
  BY NextPlaces
<1>2. QED
  BY <1>1, InitPlaces, RefsInvariant, PTL DEF Spec

\* That is EachCallOnePlace.
LEMMA PlacesAreOne ==
  ASSUME RefInv, CallInv
  PROVE  EachCallOnePlace
<1>1. ASSUME NEW id \in 1 .. counter
      PROVE  id \in CallIds /\ Places(id) = 1
  <2>1. counter \in Nat /\ counter <= MaxId
    BY WaitingFinite, Constants DEF RefInv, HookInv
  <2>2. id \in CallIds /\ id <= counter
    BY <2>1, Constants DEF CallIds
  <2>3. QED
    BY <2>2 DEF CallInv, InOnePlace, Count
<1>2. QED
  BY <1>1 DEF EachCallOnePlace, Places, IsRead

\* A call that was given an id is in one place, with its thread, dropped,
\* in the socket, being dispatched, waiting for its return, or printed
\* once: no interleaving of hooks, refusals of send() and evictions loses
\* or doubles a call line (event_pipe.c, event_pipe.go).
THEOREM CallsAreInOnePlace == Spec => []EachCallOnePlace
  BY RefsInvariant, CallsInvariant, PlacesAreOne, PTL

\* The invariants together say that every variable has its type.
LEMMA TypesAreRight ==
  ASSUME RefInv, CallInv
  PROVE  TypeOK
<1>1. counter \in 0 .. MaxId
  BY WaitingFinite, Constants DEF RefInv, HookInv
<1>2. \A t \in Threads : Len(sidecar[t]) <= MaxRefs
  BY DEF RefInv, HookInv, HookOK
<1>3. QED
  BY <1>1, <1>2 DEF RefInv, HookInv, HookTypes, PipeTypes, CallInv, TableExact, TypeOK

\* Every variable has its type in every reachable state; the counter beside
\* the pending map never goes below zero.
THEOREM TypesInvariant == Spec => []TypeOK
  BY RefsInvariant, CallsInvariant, TypesAreRight, PTL

-----------------------------------------------------------------------------
(* Returns on their way.                                                   *)

\* The datagrams that are on their way, the one being dispatched first.
OnWay == 0 .. Len(socket)
At(i) == IF i = 0 THEN datagram ELSE socket[i]

\* Place i has the return, or the call, of this id.
Returning(i, id) == At(i).type \in Returns /\ At(i).id = id
Calling(i, id) == At(i).type = "call" /\ At(i).id = id

\* Some thread is inside of the call that has this id.
Inside(id) == \E t \in Threads : \E k \in 1 .. Len(frames[t]) : frames[t][k].cid = id

\* An id belongs to one invocation, and as long as a thread is inside of it no
\* return of it was dispatched.
FramesOnce ==
  \A t, u \in Threads : \A k \in 1 .. Len(frames[t]), m \in 1 .. Len(frames[u]) :
    frames[t][k].cid = frames[u][m].cid /\ frames[t][k].cid # 0 => t = u /\ k = m

FramesOpen ==
  \A id \in CallIds : Inside(id) => id <= counter /\ id \notin ClosedCalls

\* A return that is on its way is the only one of its call, was not dispatched
\* before, and its thread left the call.
ReturnsOnce ==
  \A id \in CallIds : \A i, j \in OnWay : Returning(i, id) /\ Returning(j, id) => i = j

ReturnsOpen ==
  \A id \in CallIds : \A i \in OnWay :
    Returning(i, id) => id <= counter /\ id \notin ClosedCalls /\ ~Inside(id)

\* It comes after its call.
CallsFirst ==
  \A id \in CallIds : \A i, j \in OnWay : Returning(i, id) /\ Calling(j, id) => j < i

\* What the table says of the past.
TablePast ==
  /\ \A id \in evicted : printed[id] > 0
  /\ ClosedCalls \subseteq ReceivedCalls \cup dropped

ReturnInv == FramesOnce /\ FramesOpen /\ ReturnsOnce /\ ReturnsOpen /\ CallsFirst /\ TablePast

\* The ids in the frames are ids of calls, or 0.
LEMMA FrameIds ==
  ASSUME HookInv, NEW t \in Threads, NEW k \in 1 .. Len(frames[t])
  PROVE  frames[t][k].cid \in 0 .. MaxId
<1>1. frames[t][k] \in Frame
  BY DEF HookInv, HookTypes
<1>2. QED
  BY <1>1 DEF Frame

\* A hook that ends and logged a return leaves its frame.
LEMMA LeftFrame ==
  ASSUME HookInv, NEW t \in Threads, Leave(t), event[t].type \in Returns
  PROVE  /\ frames[t] # <<>> /\ frames'[t] = Front(frames[t])
         /\ Len(frames[t]) \in 1 .. Len(frames[t]) /\ Len(frames'[t]) = Len(frames[t]) - 1
         /\ Last(frames[t]) = frames[t][Len(frames[t])]
         /\ \A k \in 1 .. Len(frames'[t]) : k \in 1 .. Len(frames[t]) /\ k # Len(frames[t])
                                            /\ frames'[t][k] = frames[t][k]
<1>1. frames[t] # <<>> /\ frames[t] \in Seq(Frame) /\ frames'[t] = Front(frames[t])
  BY DEF Leave, HookInv, HookTypes, HookOK
<1>2. /\ Len(Front(frames[t])) = Len(frames[t]) - 1 /\ Len(frames[t]) \in 1 .. Len(frames[t])
      /\ \A k \in 1 .. Len(frames[t]) - 1 : Front(frames[t])[k] = frames[t][k]
      /\ Last(frames[t]) = frames[t][Len(frames[t])]
  BY <1>1, FrontElements
<1>3. \A k \in 1 .. Len(frames[t]) - 1 : k \in 1 .. Len(frames[t]) /\ k # Len(frames[t])
  BY <1>2
<1>4. QED
  BY <1>1, <1>2, <1>3

\* A frame with an id was there before, or its call just got the id.
LEMMA FramesFrom ==
  ASSUME HookInv, NEW t \in Threads, HookMove(t), NEW u \in Threads,
         NEW k \in 1 .. Len(frames'[u]), frames'[u][k].cid # 0
  PROVE  \/ k \in 1 .. Len(frames[u]) /\ frames'[u][k].cid = frames[u][k].cid
         \/ PassCall(t) /\ u = t /\ k = Len(frames[t]) /\ frames'[u][k].cid = counter + 1
<1>1. CASE u # t
  BY <1>1, OthersUntouched DEF Untouched, HookInv
<1>2. CASE u = t /\ BeginCall(t)
  <2>1. PICK h \in Families, allowed \in Gates :
          frames' = [frames EXCEPT ![t] = Append(@, [family |-> h, allowed |-> allowed, cid |-> 0])]
    BY <1>2 DEF BeginCall
  <2> DEFINE f == [family |-> h, allowed |-> allowed, cid |-> 0]
  <2>2. f \in Frame /\ f.cid = 0
    BY Constants DEF Frame
  <2>3. frames[t] \in Seq(Frame) /\ frames'[t] = Append(frames[t], f)
    BY <2>1 DEF HookInv, HookTypes
  <2> HIDE DEF f
  <2>4. /\ Len(frames'[t]) = Len(frames[t]) + 1 /\ frames'[t][Len(frames[t]) + 1] = f
        /\ \A i \in 1 .. Len(frames[t]) : frames'[t][i] = frames[t][i]
        /\ Len(frames[t]) \in Nat
    BY <2>2, <2>3, AppendElements
  <2>5. k \in 1 .. Len(frames[t]) \/ k = Len(frames[t]) + 1
    BY <1>2, <2>4
  <2>6. QED
    BY <1>2, <2>2, <2>4, <2>5
<1>3. CASE u = t /\ PassCall(t)
  <2>1. /\ frames'[t] \in Seq(Frame) /\ frames'[t] # <<>> /\ Len(frames'[t]) = Len(frames[t])
        /\ Last(frames'[t]).cid = counter + 1
        /\ \A i \in 1 .. Len(frames[t]) - 1 : frames'[t][i] = frames[t][i]
    BY <1>3, PassCallFrame
  <2>2. Last(frames'[t]) = frames'[t][Len(frames[t])] /\ Len(frames[t]) \in Nat
    <3>1. Last(frames'[t]) = frames'[t][Len(frames'[t])]
      BY <2>1, FrontElements
    <3>2. QED
      BY <2>1, <3>1, FrameParts
  <2>3. k \in 1 .. Len(frames[t]) /\ (k \in 1 .. Len(frames[t]) - 1 \/ k = Len(frames[t]))
    BY <1>3, <2>1, <2>2
  <2>4. QED
    BY <1>3, <2>1, <2>2, <2>3
<1>4. CASE u = t /\ (Filtered(t) \/ Emit(t))
  <2>1. Leave(t)
    BY <1>4 DEF Filtered, Emit
  <2>2. CASE event[t].type \in Returns
    BY <1>4, <2>1, <2>2, LeftFrame
  <2>3. CASE event[t].type \notin Returns
    BY <1>4, <2>1, <2>3 DEF Leave
  <2>4. QED
    BY <2>2, <2>3
<1>5. CASE BeginSingle(t) \/ BeginReturn(t) \/ DeferRenderPush(t) \/ MintRef(t) \/ PassOther(t)
           \/ MintOwn(t)
  BY <1>5 DEF BeginSingle, BeginReturn, DeferRenderPush, MintRef, PassOther, MintOwn
<1>6. QED
  BY <1>1, <1>2, <1>3, <1>4, <1>5 DEF HookMove, HookStep

\* What the datagram that is sent says of the frames of its thread.
LEMMA SentFrom ==
  ASSUME HookInv, PairInv, NEW t \in Threads, HookMove(t), step[t] = "send"
  PROVE  /\ Datagram(t).type = "call" =>
              Len(frames[t]) \in 1 .. Len(frames[t])
              /\ Datagram(t).id = frames[t][Len(frames[t])].cid
         /\ Datagram(t).type \in Returns =>
              /\ Len(frames[t]) \in 1 .. Len(frames[t])
              /\ Datagram(t).id # 0 => Datagram(t).id = frames[t][Len(frames[t])].cid
              /\ \A k \in 1 .. Len(frames'[t]) : k \in 1 .. Len(frames[t]) /\ k # Len(frames[t])
                                                 /\ frames'[t][k] = frames[t][k]
<1>1. Emit(t) /\ Leave(t)
  BY DEF HookMove, HookStep, BeginCall, BeginSingle, BeginReturn, AppRuns, DeferRenderPush,
         MintRef, Filtered, PassCall, PassOther, MintOwn, AtGate, Emit
<1>2. /\ Datagram(t).type = "call" => event[t].type = "call"
      /\ Datagram(t).type \in Returns => event[t].type \in Returns
  BY DEF Datagram, Returns
<1>3. ASSUME event[t].type = "call"
      PROVE  /\ Len(frames[t]) \in 1 .. Len(frames[t])
             /\ Datagram(t).id = frames[t][Len(frames[t])].cid
  <2>1. frames[t] # <<>> /\ frames[t] \in Seq(Frame)
    BY <1>3 DEF HookInv, HookTypes, HookOK
  <2>2. Datagram(t).id = Last(frames[t]).cid
    BY <1>3 DEF Datagram, Returns
  <2>3. QED
    BY <2>1, <2>2, FrontElements
<1>4. ASSUME event[t].type \in Returns
      PROVE  /\ Len(frames[t]) \in 1 .. Len(frames[t])
             /\ Datagram(t).id # 0 => Datagram(t).id = frames[t][Len(frames[t])].cid
             /\ \A k \in 1 .. Len(frames'[t]) : k \in 1 .. Len(frames[t]) /\ k # Len(frames[t])
                                                /\ frames'[t][k] = frames[t][k]
  <2>1. Datagram(t).id = PoppedId(t)
    BY <1>4 DEF Datagram, Returns
  <2>2. PoppedId(t) = Owed(t)
    BY <1>4, ReturnPops DEF PairInv
  <2>3. Owed(t) = Last(frames[t]).cid \/ Owed(t) = 0
    BY DEF Owed
  <2>4. QED
    BY <1>1, <1>4, <2>1, <2>2, <2>3, LeftFrame
<1>5. QED
  BY <1>2, <1>3, <1>4

\* The places on the way with one datagram more.
LEMMA WayAppend ==
  ASSUME PipeTypes, NEW w \in Wire, socket' = Append(socket, w), datagram' = datagram
  PROVE  /\ Len(socket) \in Nat /\ Len(socket) + 1 \in Nat \ {0}
         /\ \A i \in OnWay' : i \in OnWay \/ (i = Len(socket) + 1 /\ At(i)' = w)
         /\ \A i \in OnWay : i # Len(socket) + 1 /\ i < Len(socket) + 1 /\ At(i)' = At(i)
<1>1. /\ DOMAIN socket' = 1 .. Len(socket) + 1 /\ DOMAIN socket = 1 .. Len(socket)
      /\ \A i \in DOMAIN socket : socket'[i] = socket[i]
      /\ socket'[Len(socket) + 1] = w /\ Len(socket) \in Nat
  BY PipeAppend, PipeTypesParts
<1>2. Len(socket') = Len(socket) + 1
  BY AppendElements DEF PipeTypes
<1>3. \A i \in OnWay : i = 0 \/ i \in DOMAIN socket
  BY <1>1 DEF OnWay
<1>4. \A i \in OnWay : i # Len(socket) + 1 /\ i < Len(socket) + 1 /\ i \in Int
  BY <1>1 DEF OnWay
<1>5. \A i \in OnWay' : i \in OnWay \/ i = Len(socket) + 1
  BY <1>1, <1>2 DEF OnWay
<1>6. \A i \in OnWay : At(i)' = At(i)
  BY <1>1, <1>3 DEF At
<1>7. Len(socket) + 1 # 0 /\ Len(socket) + 1 \in Nat \ {0}
  BY <1>1
<1>8. ASSUME NEW i, i = Len(socket) + 1
      PROVE  At(i)' = w
  BY <1>1, <1>7, <1>8 DEF At
<1>9. QED
  BY <1>1, <1>4, <1>5, <1>6, <1>7, <1>8

\* What a hook's step leaves of the past.
LEMMA HookPast ==
  ASSUME HookInv, NEW t \in Threads, HookMove(t)
  PROVE  /\ ReceivedCalls' = ReceivedCalls /\ ClosedCalls' = ClosedCalls
         /\ dropped \subseteq dropped' /\ evicted' = evicted /\ printed' = printed
         /\ counter \in Nat /\ (counter' = counter \/ (PassCall(t) /\ counter' = counter + 1))
<1>1. UNCHANGED <<pendingCalls, printed, evicted, alone>>
  BY HookTable DEF tableVars
<1>2. dropped \subseteq dropped'
  BY DEF HookMove, HookStep, BeginCall, BeginSingle, BeginReturn, DeferRenderPush, MintRef,
         Filtered, PassCall, PassOther, MintOwn, Emit, Delivered, Refused
<1>3. counter' = counter \/ (PassCall(t) /\ counter' = counter + 1)
  BY DEF HookMove, HookStep, BeginCall, BeginSingle, BeginReturn, DeferRenderPush, MintRef,
         Filtered, PassCall, PassOther, MintOwn, Emit
<1>4. QED
  BY <1>1, <1>2, <1>3 DEF ReceivedCalls, ClosedCalls, HookInv

\* What was seen of calls had an id that was given out.
LEMMA SeenWasGiven ==
  ASSUME RefInv, CallInv, TablePast, NEW id \in CallIds,
         id \in ReceivedCalls \cup dropped \cup ClosedCalls
  PROVE  id <= counter
<1>1. id \in ReceivedCalls \cup dropped
  BY DEF TablePast
<1>2. id \in pendingCalls \/ printed[id] > 0 \/ id \in dropped
  BY <1>1 DEF ReceivedCalls
<1>3. Count(id \in pendingCalls) = 1 \/ printed[id] > 0 \/ Count(id \in dropped) = 1
  BY <1>2 DEF Count
<1>4. Places(id) # 0
  BY <1>3, PlaceTypes DEF Places
<1>5. Count(id <= counter) # 0
  BY <1>4, PlaceTypes
<1>6. QED
  BY <1>5 DEF Count

\* A step of a hook keeps the frames apart and open.
LEMMA HookFrames ==
  ASSUME RefInv, CallInv, ReturnInv, NEW t \in Threads, HookMove(t)
  PROVE  FramesOnce' /\ FramesOpen'
<1>1. HookInv /\ FramesOnce /\ FramesOpen /\ TablePast
  BY DEF RefInv, ReturnInv
<1>2. /\ ClosedCalls' = ClosedCalls /\ counter \in Nat
      /\ counter' = counter \/ (PassCall(t) /\ counter' = counter + 1)
  BY <1>1, HookPast
<1>3. ASSUME NEW u \in Threads, NEW k \in 1 .. Len(frames'[u]), frames'[u][k].cid # 0
      PROVE  \/ /\ k \in 1 .. Len(frames[u]) /\ frames'[u][k].cid = frames[u][k].cid
                /\ frames[u][k].cid \in CallIds /\ frames[u][k].cid <= counter
                /\ frames[u][k].cid \notin ClosedCalls
             \/ PassCall(t) /\ u = t /\ k = Len(frames[t]) /\ frames'[u][k].cid = counter + 1
  <2>1. CASE k \in 1 .. Len(frames[u]) /\ frames'[u][k].cid = frames[u][k].cid
    <3>1. frames[u][k].cid \in CallIds
      BY <1>1, <1>3, <2>1, FrameIds, Constants DEF CallIds
    <3>2. Inside(frames[u][k].cid)
      BY <2>1 DEF Inside
    <3>3. QED
      BY <1>1, <2>1, <3>1, <3>2 DEF FramesOpen
  <2>2. QED
    BY <1>1, <1>3, <2>1, FramesFrom
<1>4. FramesOnce'
  <2> SUFFICES ASSUME NEW u \in Threads, NEW v \in Threads, NEW k \in 1 .. Len(frames'[u]),
                      NEW m \in 1 .. Len(frames'[v]),
                      frames'[u][k].cid = frames'[v][m].cid, frames'[u][k].cid # 0
               PROVE  u = v /\ k = m
    BY DEF FramesOnce
  <2> DEFINE old(x, i) == i \in 1 .. Len(frames[x]) /\ frames'[x][i].cid = frames[x][i].cid
                          /\ frames[x][i].cid <= counter
             new(x, i) == x = t /\ i = Len(frames[t]) /\ frames'[x][i].cid = counter + 1
  <2>1. (old(u, k) \/ new(u, k)) /\ (old(v, m) \/ new(v, m))
    BY <1>3
  <2>2. CASE old(u, k) /\ old(v, m)
    <3>1. /\ k \in 1 .. Len(frames[u]) /\ m \in 1 .. Len(frames[v])
          /\ frames[u][k].cid = frames[v][m].cid /\ frames[u][k].cid # 0
      BY <2>2
    <3>2. QED
      BY <1>1, <3>1 DEF FramesOnce
  <2>3. CASE new(u, k) /\ new(v, m)
    BY <2>3
  <2>4. CASE (old(u, k) /\ new(v, m)) \/ (new(u, k) /\ old(v, m))
    BY <1>2, <2>4
  <2>5. QED
    BY <2>1, <2>2, <2>3, <2>4
<1>5. FramesOpen'
  <2> SUFFICES ASSUME NEW id \in CallIds, NEW u \in Threads, NEW k \in 1 .. Len(frames'[u]),
                      frames'[u][k].cid = id
               PROVE  id <= counter' /\ id \notin ClosedCalls'
    BY DEF FramesOpen, Inside, CallIds
  <2>1. id # 0 /\ id \in Nat
    BY DEF CallIds
  <2>2. CASE id <= counter /\ id \notin ClosedCalls
    BY <1>2, <2>1, <2>2
  <2>3. CASE PassCall(t) /\ id = counter + 1
    <3>1. counter' = counter + 1
      BY <2>3 DEF PassCall
    <3>2. ~(id <= counter)
      BY <1>2, <2>3
    <3>3. id \notin ClosedCalls
      BY <1>1, <3>2, SeenWasGiven
    <3>4. QED
      BY <1>2, <2>3, <3>1, <3>3
  <2>4. QED
    BY <1>3, <2>1, <2>2, <2>3
<1>6. QED
  BY <1>4, <1>5

\* An id that no thread was inside of is given to none but a new call.
LEMMA InsideFrom ==
  ASSUME HookInv, NEW t \in Threads, HookMove(t), NEW id \in CallIds, id <= counter, ~Inside(id)
  PROVE  ~Inside(id)'
<1> SUFFICES ASSUME NEW u \in Threads, NEW k \in 1 .. Len(frames'[u]), frames'[u][k].cid = id
             PROVE  FALSE
  BY DEF Inside
<1>1. id # 0 /\ id # counter + 1
  BY DEF CallIds, HookInv
<1>2. k \in 1 .. Len(frames[u]) /\ frames[u][k].cid = id
  BY <1>1, FramesFrom
<1>3. QED
  BY <1>2 DEF Inside

\* A return about to be sent is the first of its call, which is open.
LEMMA ReturnSent ==
  ASSUME HookInv, PairInv, FramesOnce, FramesOpen, NEW t \in Threads, HookMove(t), step[t] = "send",
         Datagram(t).type \in Returns, NEW id \in CallIds, id = Datagram(t).id
  PROVE  id <= counter /\ id \notin ClosedCalls /\ Inside(id) /\ ~Inside(id)'
<1> DEFINE n == Len(frames[t])
<1>1. /\ n \in 1 .. Len(frames[t]) /\ id = frames[t][n].cid /\ id # 0
      /\ \A k \in 1 .. Len(frames'[t]) : k \in 1 .. Len(frames[t]) /\ k # n
                                         /\ frames'[t][k] = frames[t][k]
  BY SentFrom DEF CallIds
<1> HIDE DEF n
<1>2. Inside(id)
  BY <1>1 DEF Inside
<1>3. id <= counter /\ id \notin ClosedCalls
  BY <1>2 DEF FramesOpen
<1>4. ASSUME NEW u \in Threads, NEW k \in 1 .. Len(frames'[u]), frames'[u][k].cid = id
      PROVE  FALSE
  <2>1. k \in 1 .. Len(frames[u]) /\ frames[u][k].cid = id
    <3>1. id # counter + 1
      BY <1>3 DEF CallIds, HookInv
    <3>2. QED
      BY <1>1, <1>4, <3>1, FramesFrom
  <2>2. u = t /\ k = n
    BY <1>1, <2>1 DEF FramesOnce
  <2>3. QED
    BY <1>1, <1>4, <2>2
<1>5. QED
  BY <1>2, <1>3, <1>4 DEF Inside

\* A step of a hook keeps the returns on their way apart, open and behind
\* their calls.
LEMMA HookWay ==
  ASSUME RefInv, PairInv, ReturnInv, NEW t \in Threads, HookMove(t)
  PROVE  ReturnsOnce' /\ ReturnsOpen' /\ CallsFirst'
<1>1. HookInv /\ PipeTypes /\ FramesOnce /\ FramesOpen /\ ReturnsOnce /\ ReturnsOpen /\ CallsFirst
  BY DEF RefInv, ReturnInv
<1>2. /\ ClosedCalls' = ClosedCalls /\ counter \in Nat /\ counter' \in Nat /\ counter <= counter'
      /\ datagram' = datagram
  BY <1>1, HookPast, HookTable
<1>3. ASSUME NEW id \in CallIds, NEW i \in OnWay, Returning(i, id)
      PROVE  id <= counter' /\ id \notin ClosedCalls' /\ ~Inside(id) /\ ~Inside(id)'
  <2>1. id \in Nat /\ id <= counter /\ id \notin ClosedCalls /\ ~Inside(id)
    BY <1>1, <1>3 DEF ReturnsOpen, CallIds
  <2>2. QED
    BY <1>1, <1>2, <2>1, InsideFrom
<1>4. CASE UNCHANGED socket
  <2>1. /\ OnWay' = OnWay
        /\ \A id, i : (Returning(i, id)' <=> Returning(i, id)) /\ (Calling(i, id)' <=> Calling(i, id))
    BY <1>2, <1>4 DEF OnWay, At, Returning, Calling
  <2>2. ReturnsOnce' /\ CallsFirst'
    BY <1>1, <2>1 DEF ReturnsOnce, CallsFirst, CallIds
  <2>3. ReturnsOpen'
    BY <1>3, <2>1 DEF ReturnsOpen, CallIds
  <2>4. QED
    BY <2>2, <2>3
<1>5. CASE step[t] = "send" /\ socket' = Append(socket, Datagram(t))
  <2> DEFINE w == Datagram(t)  n == Len(socket) + 1
  <2>1. w \in Wire
    BY <1>1, <1>5, DatagramParts
  <2>2. /\ n \in Nat
        /\ \A i \in OnWay' : i \in OnWay \/ (i = n /\ At(i)' = w)
        /\ \A i \in OnWay : i # n /\ i < n /\ At(i)' = At(i)
    <3> HIDE DEF w
    <3>1. socket' = Append(socket, w)
      BY <1>5 DEF w
    <3>2. QED
      BY <1>1, <1>2, <2>1, <3>1, WayAppend
  <2>3. ASSUME NEW id \in CallIds, NEW i \in OnWay', Returning(i, id)'
        PROVE  \/ i \in OnWay /\ Returning(i, id)
               \/ i = n /\ w.type \in Returns /\ id = w.id /\ id <= counter /\ id \notin ClosedCalls
                  /\ Inside(id) /\ ~Inside(id)'
    <3>1. CASE i \in OnWay
      BY <2>2, <2>3, <3>1 DEF Returning
    <3>2. CASE i = n /\ At(i)' = w
      <4>1. w.type \in Returns /\ w.id = id
        BY <2>3, <3>2 DEF Returning
      <4>2. QED
        BY <1>1, <1>5, <3>2, <4>1, ReturnSent DEF ReturnInv
    <3>3. QED
      BY <2>2, <3>1, <3>2
  <2>4. ASSUME NEW id \in CallIds, NEW i \in OnWay', Calling(i, id)'
        PROVE  (i \in OnWay /\ Calling(i, id)) \/ (i = n /\ w.type = "call" /\ Inside(id))
    <3>1. CASE i \in OnWay
      BY <2>2, <2>4, <3>1 DEF Calling
    <3>2. CASE i = n /\ At(i)' = w
      <4>1. w.type = "call" /\ w.id = id
        BY <2>4, <3>2 DEF Calling
      <4>2. /\ Len(frames[t]) \in 1 .. Len(frames[t])
            /\ id = frames[t][Len(frames[t])].cid
        BY <1>1, <1>5, <4>1, SentFrom
      <4>3. QED
        BY <3>2, <4>1, <4>2 DEF Inside
    <3>3. QED
      BY <2>2, <3>1, <3>2
  <2> HIDE DEF w, n
  <2>5. ReturnsOnce'
    <3> SUFFICES ASSUME NEW id \in CallIds, NEW i \in OnWay', NEW j \in OnWay',
                        Returning(i, id)', Returning(j, id)'
                 PROVE  i = j
      BY DEF ReturnsOnce, CallIds
    <3>1. CASE i \in OnWay /\ Returning(i, id) /\ j \in OnWay /\ Returning(j, id)
      BY <1>1, <3>1 DEF ReturnsOnce
    <3>2. CASE i = n /\ j = n
      BY <3>2
    <3>3. CASE Inside(id) /\ ((i \in OnWay /\ Returning(i, id)) \/ (j \in OnWay /\ Returning(j, id)))
      BY <1>3, <3>3
    <3>4. QED
      BY <2>3, <3>1, <3>2, <3>3
  <2>6. ReturnsOpen'
    <3> SUFFICES ASSUME NEW id \in CallIds, NEW i \in OnWay', Returning(i, id)'
                 PROVE  id <= counter' /\ id \notin ClosedCalls' /\ ~Inside(id)'
      BY DEF ReturnsOpen, CallIds
    <3>1. CASE i \in OnWay /\ Returning(i, id)
      BY <1>3, <3>1
    <3>2. CASE id <= counter /\ id \notin ClosedCalls /\ ~Inside(id)'
      BY <1>2, <3>2 DEF CallIds
    <3>3. QED
      BY <2>3, <3>1, <3>2
  <2>7. CallsFirst'
    <3> SUFFICES ASSUME NEW id \in CallIds, NEW i \in OnWay', NEW j \in OnWay',
                        Returning(i, id)', Calling(j, id)'
                 PROVE  j < i
      BY DEF CallsFirst, CallIds
    <3>1. CASE i \in OnWay /\ Returning(i, id)
      <4>1. ~Inside(id)
        BY <1>3, <3>1
      <4>2. j \in OnWay /\ Calling(j, id)
        BY <2>4, <4>1
      <4>3. QED
        BY <1>1, <3>1, <4>2 DEF CallsFirst
    <3>2. CASE i = n /\ w.type \in Returns
      <4>1. j \in OnWay
        BY <2>4, <3>2 DEF Returns
      <4>2. QED
        BY <2>2, <3>2, <4>1
    <3>3. QED
      BY <2>3, <3>1, <3>2
  <2>8. QED
    BY <2>5, <2>6, <2>7
<1>6. QED
  BY <1>1, <1>4, <1>5, HookSends

\* The places on the way when the reader takes the first datagram.
LEMMA WayTail ==
  ASSUME PipeTypes, ReaderRead
  PROVE  \A i \in OnWay' : i + 1 \in OnWay /\ i \in Nat /\ At(i)' = At(i + 1)
<1>1. socket # <<>> /\ socket' = Tail(socket) /\ datagram' = Head(socket)
  BY DEF ReaderRead
<1>2. /\ DOMAIN socket' = 1 .. Len(socket) - 1 /\ Len(socket) \in Nat
      /\ \A i \in DOMAIN socket' : socket'[i] = socket[i + 1]
      /\ Head(socket) = socket[1] /\ 1 \in DOMAIN socket /\ DOMAIN socket = 1 .. Len(socket)
  BY <1>1, PipeTail, PipeTypesParts
<1>3. Len(socket') = Len(socket) - 1
  BY <1>1, TailElements DEF PipeTypes
<1>4. ASSUME NEW i \in OnWay'
      PROVE  i + 1 \in OnWay /\ i \in Nat /\ At(i)' = At(i + 1)
  <2>1. i \in 0 .. Len(socket) - 1 /\ i + 1 \in 0 .. Len(socket) /\ i + 1 # 0 /\ i \in Nat
    BY <1>2, <1>3, <1>4 DEF OnWay
  <2>2. At(i + 1) = socket[i + 1]
    BY <2>1 DEF At
  <2>3. CASE i = 0
    BY <1>1, <1>2, <2>1, <2>2, <2>3 DEF At, OnWay
  <2>4. CASE i # 0
    <3>1. i \in DOMAIN socket'
      BY <1>2, <2>1, <2>4
    <3>2. QED
      BY <1>2, <2>1, <2>2, <2>4, <3>1 DEF At, OnWay
  <2>5. QED
    BY <2>3, <2>4
<1>5. QED
  BY <1>4

\* The reader leaves the frames alone.
LEMMA ReaderFrames ==
  ASSUME ReturnInv, ReaderMove \/ UNCHANGED vars
  PROVE  /\ FramesOnce' /\ \A id : Inside(id)' <=> Inside(id)
         /\ counter' = counter /\ dropped' = dropped
<1>1. frames' = frames /\ counter' = counter /\ dropped' = dropped
  BY ReaderUntouched DEF hookVars
<1>2. QED
  BY <1>1 DEF ReturnInv, FramesOnce, Inside

\* It takes a datagram: all move up by a place.
LEMMA ReadReturns ==
  ASSUME RefInv, ReturnInv, ReaderRead
  PROVE  ReturnInv'
<1>1. /\ UNCHANGED tableVars /\ ReaderMove /\ PipeTypes
      /\ FramesOpen /\ ReturnsOnce /\ ReturnsOpen /\ CallsFirst /\ TablePast
  BY DEF ReaderRead, ReaderMove, ReaderStep, RefInv, ReturnInv
<1>2. ClosedCalls' = ClosedCalls /\ ReceivedCalls' = ReceivedCalls /\ evicted' = evicted
      /\ printed' = printed
  BY <1>1 DEF tableVars, ClosedCalls, ReceivedCalls
<1>3. ASSUME NEW id, NEW i \in OnWay'
      PROVE  /\ i + 1 \in OnWay /\ i \in Nat
             /\ Returning(i, id)' => Returning(i + 1, id)
             /\ Calling(i, id)' => Calling(i + 1, id)
  BY <1>1, WayTail DEF Returning, Calling
<1>4. ReturnsOnce' /\ CallsFirst'
  <2>1. ASSUME NEW id \in CallIds, NEW i \in OnWay', NEW j \in OnWay',
               Returning(i, id)', Returning(j, id)'
        PROVE  i = j
    <3>1. i + 1 = j + 1 /\ i \in Nat /\ j \in Nat
      BY <1>1, <1>3, <2>1 DEF ReturnsOnce
    <3>2. QED
      BY <3>1
  <2>2. ASSUME NEW id \in CallIds, NEW i \in OnWay', NEW j \in OnWay',
               Returning(i, id)', Calling(j, id)'
        PROVE  j < i
    <3>1. j + 1 < i + 1 /\ i \in Nat /\ j \in Nat
      BY <1>1, <1>3, <2>2 DEF CallsFirst
    <3>2. QED
      BY <3>1
  <2>3. QED
    BY <2>1, <2>2 DEF ReturnsOnce, CallsFirst, CallIds
<1>5. ReturnsOpen'
  <2> SUFFICES ASSUME NEW id \in CallIds, NEW i \in OnWay', Returning(i, id)'
               PROVE  id <= counter' /\ id \notin ClosedCalls' /\ ~Inside(id)'
    BY DEF ReturnsOpen, CallIds
  <2>1. id <= counter /\ id \notin ClosedCalls /\ ~Inside(id)
    BY <1>1, <1>3 DEF ReturnsOpen
  <2>2. QED
    BY <1>1, <1>2, <2>1, ReaderFrames
<1>6. FramesOpen' /\ TablePast' /\ FramesOnce'
  BY <1>1, <1>2, ReaderFrames DEF FramesOpen, TablePast, CallIds
<1>7. QED
  BY <1>4, <1>5, <1>6 DEF ReturnInv

\* Steps of the reader that move no datagram and no call.
LEMMA IdleReaderReturns ==
  ASSUME ReturnInv, ReaderMove \/ UNCHANGED vars, UNCHANGED <<socket, tableVars>>,
         datagram'.type = datagram.type, datagram'.id = datagram.id
  PROVE  ReturnInv'
<1>1. /\ ClosedCalls' = ClosedCalls /\ ReceivedCalls' = ReceivedCalls /\ evicted' = evicted
      /\ printed' = printed
  BY DEF tableVars, ClosedCalls, ReceivedCalls
<1>2. /\ OnWay' = OnWay
      /\ \A id, i : (Returning(i, id)' <=> Returning(i, id)) /\ (Calling(i, id)' <=> Calling(i, id))
  BY DEF OnWay, At, Returning, Calling
<1>3. FramesOnce' /\ (\A id : Inside(id)' <=> Inside(id)) /\ counter' = counter /\ dropped' = dropped
  BY ReaderFrames
<1>4. ReturnsOnce' /\ CallsFirst'
  BY <1>2 DEF ReturnInv, ReturnsOnce, CallsFirst, CallIds
<1>5. ReturnsOpen' /\ FramesOpen'
  BY <1>1, <1>2, <1>3 DEF ReturnInv, ReturnsOpen, FramesOpen, CallIds
<1>6. TablePast'
  BY <1>1, <1>3 DEF ReturnInv, TablePast
<1>7. QED
  BY <1>3, <1>4, <1>5, <1>6 DEF ReturnInv

-----------------------------------------------------------------------------
(* What the table is told.                                                 *)

\* A call was seen by the table when it is stored or printed, and dropped when
\* send() refused it, and it is no more than one of them.
LEMMA SeenOnce ==
  ASSUME RefInv, CallInv, NEW id \in CallIds
  PROVE  /\ printed[id] \in Nat
         /\ IsRead(id) \/ Unsent(id) # {} \/ Carrying(id) # {} =>
              id \notin ReceivedCalls \cup dropped
         /\ id <= counter /\ ~IsRead(id) /\ Unsent(id) = {} /\ Carrying(id) = {} =>
              id \in ReceivedCalls \cup dropped
         /\ id \in pendingCalls => printed[id] = 0
         /\ id \in dropped => id \notin ReceivedCalls
<1> DEFINE a == Cardinality(Unsent(id))  b == Cardinality(Carrying(id))
           c == printed[id]  d == Count(id \in dropped)  e == Count(IsRead(id))
           f == Count(id \in pendingCalls)
<1>1. /\ a \in Nat /\ b \in Nat /\ c \in Nat /\ d \in Nat /\ e \in Nat /\ f \in Nat
      /\ a + b + c + d + e + f = Count(id <= counter) /\ Count(id <= counter) \in 0 .. 1
  BY PlaceTypes DEF Places
<1>2. /\ IsFiniteSet(Unsent(id)) /\ IsFiniteSet(Carrying(id))
      /\ a = 0 <=> Unsent(id) = {}
      /\ b = 0 <=> Carrying(id) = {}
  BY PlaceCounts, FS_EmptySet DEF RefInv
<1>3. /\ d = IF id \in dropped THEN 1 ELSE 0
      /\ e = IF IsRead(id) THEN 1 ELSE 0
      /\ f = IF id \in pendingCalls THEN 1 ELSE 0
      /\ Count(id <= counter) = IF id <= counter THEN 1 ELSE 0
  BY DEF Count
<1>4. id \in ReceivedCalls <=> id \in pendingCalls \/ c > 0
  BY DEF ReceivedCalls
<1> HIDE DEF a, b, c, d, e, f
<1>5. /\ IsRead(id) \/ Unsent(id) # {} \/ Carrying(id) # {} => d = 0 /\ c = 0 /\ f = 0
      /\ f = 1 => c = 0
      /\ d = 1 => c = 0 /\ f = 0
      /\ id <= counter /\ ~IsRead(id) /\ Unsent(id) = {} /\ Carrying(id) = {} =>
           d = 1 \/ c > 0 \/ f = 1
  BY <1>1, <1>2, <1>3
<1>6. QED
  BY <1>1, <1>3, <1>4, <1>5 DEF c

\* A call is dispatched: none of its id was seen before.
LEMMA CallArrives ==
  ASSUME RefInv, CallInv, TablePast, Route, datagram.type = "call"
  PROVE  /\ datagram.id \in CallIds /\ Table!DispatchCall(datagram.id)
         /\ datagram.id \notin ReceivedCalls \cup dropped \cup ClosedCalls
         /\ ReceivedCalls' = ReceivedCalls \cup {datagram.id}
         /\ ClosedCalls' = ClosedCalls
         /\ \A id \in evicted' : printed'[id] > 0
<1>1. PICK id \in CallIds : id = datagram.id
  BY Constants DEF CallInv, CallsHaveIds, CallIds, RefInv, PipeTypes, Wire, NoEvent
<1>2. Table!DispatchCall(id)
  BY <1>1 DEF Route, Returns
<1>3. id \notin ReceivedCalls \cup dropped \cup ClosedCalls
  BY <1>1, SeenOnce DEF IsRead, TablePast
<1> DEFINE stored == pendingCalls \cup {id}
           gone == Table!Evicts(stored, Table!NewestOf(id), pendingLen + 1)
<1>4. /\ pendingCalls' = stored \ gone /\ alone' = alone /\ evicted' = evicted \cup gone
      /\ printed' = [k \in CallIds |-> IF k \in gone THEN printed[k] + 1 ELSE printed[k]]
      /\ gone \subseteq stored /\ stored \subseteq CallIds /\ evicted \subseteq CallIds
  <2>1. /\ pendingCalls' = stored \ gone /\ alone' = alone /\ evicted' = evicted \cup gone
        /\ printed' = [k \in CallIds |-> IF k \in gone THEN printed[k] + 1 ELSE printed[k]]
    BY <1>2 DEF Table!DispatchCall, Table!CallIds, CallIds
  <2>2. gone \subseteq stored
    BY DEF Table!Evicts, Table!Stale
  <2>3. stored \subseteq CallIds /\ evicted \subseteq CallIds
    BY DEF CallInv, TableExact, Table!TableTypeOK, Table!CallIds, CallIds
  <2>4. QED
    BY <2>1, <2>2, <2>3
<1> HIDE DEF gone
<1>5. ASSUME NEW k \in CallIds
      PROVE  /\ printed[k] \in Nat /\ (k \in gone => printed[k] = 0)
             /\ printed'[k] = IF k \in gone THEN printed[k] + 1 ELSE printed[k]
  <2>1. printed[k] \in Nat /\ (k \in pendingCalls => printed[k] = 0)
    BY SeenOnce
  <2>2. printed[id] = 0
    <3>1. printed[id] \in Nat /\ ~(printed[id] > 0)
      BY <1>3, SeenOnce DEF ReceivedCalls
    <3>2. QED
      BY <3>1
  <2>3. QED
    BY <1>4, <2>1, <2>2
<1>6. ASSUME NEW k \in CallIds
      PROVE  /\ k \in ReceivedCalls' <=> k \in ReceivedCalls \/ k = id
             /\ k \in ClosedCalls' <=> k \in ClosedCalls
  <2>1. k \in gone => printed'[k] > 0
    BY <1>5
  <2>2. k \in ReceivedCalls' <=> k \in ReceivedCalls \/ k = id
    BY <1>4, <1>5, <2>1 DEF ReceivedCalls, CallIds
  <2>3. k \in ClosedCalls' <=> k \in ClosedCalls
    BY <1>4, <1>5 DEF ClosedCalls, CallIds
  <2>4. QED
    BY <2>2, <2>3
<1>7. ReceivedCalls' = ReceivedCalls \cup {id} /\ ClosedCalls' = ClosedCalls
  <2>1. ReceivedCalls \subseteq CallIds /\ ClosedCalls \subseteq CallIds
        /\ ReceivedCalls' \subseteq CallIds /\ ClosedCalls' \subseteq CallIds
    BY DEF ReceivedCalls, ClosedCalls, CallIds
  <2>2. QED
    BY <1>6, <2>1
<1>8. \A k \in evicted' : printed'[k] > 0
  <2>1. \A k \in evicted : printed[k] > 0
    BY DEF TablePast
  <2>2. QED
    BY <1>4, <1>5, <2>1
<1>9. QED
  BY <1>1, <1>2, <1>3, <1>7, <1>8

\* The return of a call is dispatched: its call was sent before, and none of its
\* returns was seen.
LEMMA ReturnArrives ==
  ASSUME RefInv, CallInv, ReturnInv, Route, datagram.type \in Returns, datagram.id # 0
  PROVE  /\ datagram.id \in CallIds /\ Table!DispatchReturn(datagram.id)
         /\ datagram.id \in OpenCalls
         /\ ReceivedCalls' = ReceivedCalls
         /\ ClosedCalls' = ClosedCalls \cup {datagram.id}
         /\ evicted' = evicted /\ \A id \in evicted' : printed'[id] > 0
<1>1. PICK id \in CallIds : id = datagram.id
  BY Constants DEF CallIds, RefInv, PipeTypes, Wire, NoEvent
<1>2. Table!DispatchReturn(id)
  BY <1>1 DEF Route, Returns
<1>3. 0 \in OnWay /\ Returning(0, id) /\ \A i \in DOMAIN socket : i \in OnWay /\ i > 0 /\ At(i) = socket[i]
  <2>1. DOMAIN socket = 1 .. Len(socket) /\ Len(socket) \in Nat
    BY PipeTypesParts DEF RefInv
  <2>2. QED
    BY <1>1, <2>1 DEF OnWay, At, Returning
<1>4. id <= counter /\ id \notin ClosedCalls /\ ~Inside(id)
  BY <1>3 DEF ReturnInv, ReturnsOpen
<1>5. Carrying(id) = {}
  <2> SUFFICES ASSUME NEW i \in DOMAIN socket, socket[i].type = "call", socket[i].id = id
               PROVE  FALSE
    BY DEF Carrying
  <2>1. Calling(i, id) /\ i \in OnWay /\ i > 0
    BY <1>3 DEF Calling
  <2>2. i < 0
    BY <1>3, <2>1 DEF ReturnInv, CallsFirst
  <2>3. QED
    BY <2>1, <2>2 DEF OnWay
<1>6. Unsent(id) = {}
  <2> SUFFICES ASSUME NEW t \in Threads, event[t].type = "call", Last(frames[t]).cid = id
               PROVE  FALSE
    BY DEF Unsent
  <2>1. frames[t] # <<>> /\ frames[t] \in Seq(Frame)
    BY DEF RefInv, HookInv, HookTypes, HookOK
  <2>2. Len(frames[t]) \in 1 .. Len(frames[t]) /\ frames[t][Len(frames[t])].cid = id
    BY <2>1, FrontElements
  <2>3. QED
    BY <1>4, <2>2 DEF Inside
<1>7. ~IsRead(id)
  BY DEF IsRead, Returns
<1>8. id \in ReceivedCalls \cup dropped
  BY <1>4, <1>5, <1>6, <1>7, SeenOnce
<1>9. id \in OpenCalls
  BY <1>4, <1>8 DEF OpenCalls
<1>10. \A k \in evicted : printed[k] > 0 /\ k \in CallIds
  BY DEF ReturnInv, TablePast, CallInv, TableExact, Table!TableTypeOK, Table!CallIds, CallIds
<1>11. printed \in [CallIds -> Nat] /\ pendingCalls \subseteq CallIds
  BY DEF CallInv, TableExact, Table!TableTypeOK, Table!CallIds, CallIds
<1>12. CASE Table!ReturnPaired(id)
  <2>1. /\ id \in pendingCalls /\ pendingCalls' = pendingCalls \ {id}
        /\ printed' = [printed EXCEPT ![id] = @ + 1] /\ evicted' = evicted /\ alone' = alone
    BY <1>12 DEF Table!ReturnPaired
  <2>2. printed[id] = 0 /\ id \notin evicted
    <3>1. printed[id] = 0
      BY <2>1, SeenOnce
    <3>2. QED
      BY <1>10, <3>1
  <2>3. ASSUME NEW k \in CallIds
        PROVE  /\ printed[k] \in Nat
               /\ printed'[k] = IF k = id THEN 1 ELSE printed[k]
    BY <1>11, <2>1, <2>2
  <2>4. ReceivedCalls' = ReceivedCalls
    BY <2>1, <2>2, <2>3 DEF ReceivedCalls, CallIds
  <2>5. ClosedCalls' = ClosedCalls \cup {id}
    BY <2>1, <2>2, <2>3 DEF ClosedCalls, CallIds
  <2>6. \A k \in evicted' : printed'[k] > 0
    BY <1>10, <2>1, <2>2, <2>3
  <2>7. QED
    BY <1>1, <1>2, <1>9, <2>1, <2>4, <2>5, <2>6
<1>13. CASE Table!ReturnAlone(id)
  <2>1. /\ alone' = alone \cup {id}
        /\ UNCHANGED <<pendingCalls, printed, evicted>>
    BY <1>13 DEF Table!ReturnAlone
  <2>2. ReceivedCalls' = ReceivedCalls /\ ClosedCalls' = ClosedCalls \cup {id}
    BY <2>1 DEF ReceivedCalls, ClosedCalls, CallIds
  <2>3. QED
    BY <1>1, <1>2, <1>9, <1>10, <2>1, <2>2
<1>14. QED
  BY <1>2, <1>12, <1>13 DEF Table!DispatchReturn

\* A return that carries 0 is printed alone, and nothing of a call is seen.
LEMMA DeepReturnArrives ==
  ASSUME RefInv, CallInv, ReturnInv, Route, datagram.type \in Returns, datagram.id = 0
  PROVE  /\ Table!DispatchReturn(0)
         /\ ReceivedCalls' = ReceivedCalls /\ ClosedCalls' = ClosedCalls
         /\ evicted' = evicted /\ printed' = printed
<1>1. Table!DispatchReturn(0)
  BY DEF Route, Returns
<1>2. 0 \notin pendingCalls
  BY DEF CallInv, TableExact, Table!TableTypeOK, Table!CallIds
<1>3. alone' = alone \cup {0} /\ UNCHANGED <<pendingCalls, printed, evicted>>
  BY <1>1, <1>2 DEF Table!DispatchReturn, Table!ReturnPaired, Table!ReturnAlone
<1>4. \A id \in CallIds : id # 0
  BY DEF CallIds
<1>5. QED
  BY <1>1, <1>3, <1>4 DEF ReceivedCalls, ClosedCalls, CallIds

\* A datagram is dispatched.
LEMMA RouteReturns ==
  ASSUME RefInv, CallInv, ReturnInv, Route
  PROVE  ReturnInv'
<1>1. /\ UNCHANGED socket /\ datagram' = NoEvent /\ ReaderMove
      /\ FramesOpen /\ ReturnsOnce /\ ReturnsOpen /\ CallsFirst /\ TablePast
      /\ dropped' = dropped /\ counter' = counter
  BY ReaderFrames DEF Route, ReaderMove, ReaderStep, ReturnInv
<1>2. /\ ReceivedCalls \subseteq ReceivedCalls' /\ \A id \in evicted' : printed'[id] > 0
      /\ ClosedCalls' \subseteq ReceivedCalls' \cup dropped'
      /\ \A id \in CallIds : id \in ClosedCalls' => id \in ClosedCalls \/ Returning(0, id)
  <2>1. CASE datagram.type = "call"
    BY <1>1, <2>1, CallArrives DEF TablePast
  <2>2. CASE datagram.type \in Returns /\ datagram.id # 0
    <3>1. datagram.id \in OpenCalls /\ ReceivedCalls' = ReceivedCalls
          /\ ClosedCalls' = ClosedCalls \cup {datagram.id}
          /\ \A id \in evicted' : printed'[id] > 0
      BY <2>2, ReturnArrives
    <3>2. QED
      BY <1>1, <2>2, <3>1 DEF TablePast, OpenCalls, Returning, At
  <2>3. CASE datagram.type \in Returns /\ datagram.id = 0
    BY <1>1, <2>3, DeepReturnArrives DEF TablePast
  <2>4. CASE datagram.type \notin {"call"} \cup Returns
    <3>1. UNCHANGED tableVars
      BY <2>4 DEF Route
    <3>2. ReceivedCalls' = ReceivedCalls /\ ClosedCalls' = ClosedCalls /\ evicted' = evicted
          /\ printed' = printed
      BY <3>1 DEF tableVars, ReceivedCalls, ClosedCalls
    <3>3. QED
      BY <1>1, <3>2 DEF TablePast
  <2>5. QED
    BY <2>1, <2>2, <2>3, <2>4
<1>3. 0 \in OnWay /\ OnWay' = OnWay
  BY <1>1, PipeTypesParts DEF OnWay, RefInv
<1>4. ASSUME NEW id, NEW i \in OnWay
      PROVE  /\ Returning(i, id)' => Returning(i, id) /\ i # 0
             /\ Calling(i, id)' => Calling(i, id)
  BY <1>1 DEF Returning, Calling, At, NoEvent, Returns
<1>5. ReturnsOnce' /\ CallsFirst'
  BY <1>1, <1>3, <1>4 DEF ReturnsOnce, CallsFirst, CallIds
<1>6. ReturnsOpen'
  <2> SUFFICES ASSUME NEW id \in CallIds, NEW i \in OnWay, Returning(i, id)'
               PROVE  id <= counter' /\ id \notin ClosedCalls' /\ ~Inside(id)'
    BY <1>3 DEF ReturnsOpen, CallIds
  <2>1. Returning(i, id) /\ i # 0
    BY <1>4
  <2>2. id <= counter /\ id \notin ClosedCalls /\ ~Inside(id)
    BY <1>1, <2>1 DEF ReturnsOpen
  <2>3. ~Returning(0, id)
    BY <1>1, <1>3, <2>1 DEF ReturnsOnce
  <2>4. QED
    BY <1>1, <1>2, <2>2, <2>3, ReaderFrames
<1>7. FramesOpen'
  <2> SUFFICES ASSUME NEW id \in CallIds, Inside(id)'
               PROVE  id <= counter' /\ id \notin ClosedCalls'
    BY DEF FramesOpen, CallIds
  <2>1. Inside(id) /\ id <= counter /\ id \notin ClosedCalls
    BY <1>1, ReaderFrames DEF FramesOpen
  <2>2. ~Returning(0, id)
    BY <1>1, <1>3, <2>1 DEF ReturnsOpen
  <2>3. QED
    BY <1>1, <1>2, <2>1, <2>2
<1>8. FramesOnce' /\ TablePast'
  BY <1>1, <1>2, ReaderFrames DEF TablePast
<1>9. QED
  BY <1>5, <1>6, <1>7, <1>8 DEF ReturnInv

\* Every step keeps ReturnInv.
LEMMA NextReturns ==
  ASSUME RefInv, PairInv, CallInv, ReturnInv, [Next]_vars
  PROVE  ReturnInv'
<1>1. CASE \E t \in Threads : HookMove(t)
  <2>1. PICK t \in Threads : HookMove(t)
    BY <1>1
  <2>2. FramesOnce' /\ FramesOpen'
    BY <2>1, HookFrames
  <2>3. ReturnsOnce' /\ ReturnsOpen' /\ CallsFirst'
    BY <2>1, HookWay
  <2>4. TablePast'
    BY <2>1, HookPast DEF ReturnInv, RefInv, TablePast
  <2>5. QED
    BY <2>2, <2>3, <2>4 DEF ReturnInv
<1>2. CASE ReaderRead
  BY <1>2, ReadReturns
<1>3. CASE Route
  BY <1>3, RouteReturns
<1>4. CASE RenderRef
  <2>1. datagram \in Wire
    BY <1>4 DEF RenderRef, RefInv, PipeTypes, NoEvent
  <2>2. datagram'.type = datagram.type /\ datagram'.id = datagram.id
    BY <1>4, <2>1 DEF RenderRef, Wire
  <2>3. QED
    BY <1>4, <2>2, IdleReaderReturns DEF RenderRef, ReaderMove, ReaderStep
<1>5. CASE ReaderAttach \/ ReaderPublish \/ ReaderFail \/ UNCHANGED vars
  <2>1. UNCHANGED <<socket, datagram, tableVars>> /\ (ReaderMove \/ UNCHANGED vars)
    BY <1>5 DEF ReaderAttach, ReaderPublish, ReaderFail, vars, ReaderMove, ReaderStep
  <2>2. QED
    BY <2>1, IdleReaderReturns
<1>6. QED
  BY <1>1, <1>2, <1>3, <1>4, <1>5, NextSplit DEF ReaderMove, ReaderStep

\* ReturnInv holds at the start.
LEMMA InitReturns == Init => ReturnInv
<1> SUFFICES ASSUME Init PROVE ReturnInv
  OBVIOUS
<1>1. /\ socket = <<>> /\ datagram.type = "none" /\ evicted = {} /\ alone = {} /\ counter = 0
      /\ pendingCalls = {} /\ printed = [id \in CallIds |-> 0]
      /\ \A t \in Threads : frames[t] = <<>>
  BY DEF Init, Table!TableInit, Table!CallIds, CallIds, NoEvent
<1>2. ClosedCalls = {}
  BY <1>1 DEF ClosedCalls
<1>3. OnWay = {0} /\ At(0) = datagram
  BY <1>1 DEF OnWay, At
<1>4. \A id : \A i \in OnWay : ~Returning(i, id)
  BY <1>1, <1>3 DEF Returning, Returns
<1>5. FramesOnce /\ FramesOpen
  BY <1>1 DEF FramesOnce, FramesOpen, Inside
<1>6. QED
  BY <1>1, <1>2, <1>3, <1>4, <1>5 DEF ReturnInv, ReturnsOnce, ReturnsOpen, CallsFirst, TablePast

\* In every reachable state an id belongs to one invocation, and a return that
\* is on its way is the only one of its call, comes after it, and ends a call
\* that no thread is inside of any more and no return was dispatched for.
THEOREM ReturnsInvariant == Spec => []ReturnInv
<1>1. RefInv /\ PairInv /\ CallInv /\ ReturnInv /\ [Next]_vars => ReturnInv'
  BY NextReturns
<1>2. QED
  BY <1>1, InitReturns, RefsInvariant, PairsInvariant, CallsInvariant, PTL DEF Spec

-----------------------------------------------------------------------------
(* The pipe drives the table as PendingCalls does.                         *)

driverVars == <<tableVars, OpenCalls, ClosedCalls, ReceivedCalls>>

\* Driver counts with the same Cardinality.
LEMMA DriverCardinality == \A S : Driver!Cardinality(S) = Cardinality(S)
  BY Zenon DEF Driver!Cardinality, Cardinality

\* The table in the pipe is the driver's table.
LEMMA DriverTable ==
  ASSUME NEW id
  PROVE  /\ Table!DispatchCall(id) => Driver!DispatchCall(id)
         /\ Table!DispatchReturn(id) => Driver!DispatchReturn(id)
<1>1. ASSUME Table!DispatchCall(id)
      PROVE  Driver!DispatchCall(id)
  <2>1. Driver!NewestOf(id) = Table!NewestOf(id) /\ Driver!CallIds = Table!CallIds
    BY DEF Driver!NewestOf, Table!NewestOf, Driver!CallIds, Table!CallIds
  <2>2. \A s, n, k : Driver!Evicts(s, n, k) = Table!Evicts(s, n, k)
    BY DEF Driver!Evicts, Table!Evicts, Driver!EvictTrigger, Table!EvictTrigger, Driver!Stale,
           Table!Stale
  <2>3. \A S : Driver!Cardinality(S) = Table!Cardinality(S)
    BY DriverCardinality, SameCardinality
  <2>4. QED
    BY <1>1, <2>1, <2>2, <2>3 DEF Driver!DispatchCall, Table!DispatchCall
<1>2. ASSUME Table!DispatchReturn(id)
      PROVE  Driver!DispatchReturn(id)
  BY <1>2 DEF Driver!DispatchReturn, Table!DispatchReturn, Driver!ReturnPaired,
              Table!ReturnPaired, Driver!ReturnAlone, Table!ReturnAlone
<1>3. QED
  BY <1>1, <1>2

\* A call that send() refused is a call that the driver sent and lost.
LEMMA RefusedDrives ==
  ASSUME RefInv, CallInv, ReturnInv, NEW t \in Threads, HookMove(t)
  PROVE  Driver!Next \/ UNCHANGED driverVars
<1>1. /\ ReceivedCalls' = ReceivedCalls /\ ClosedCalls' = ClosedCalls /\ UNCHANGED tableVars
      /\ HookInv /\ TablePast
  BY HookPast, HookTable DEF RefInv, ReturnInv
<1>2. CASE dropped' = dropped
  BY <1>1, <1>2 DEF driverVars, OpenCalls
<1>3. CASE dropped' # dropped
  <2>1. Emit(t) /\ Refused(t) /\ event[t].type = "call" /\ step[t] = "send"
    BY <1>3 DEF HookMove, HookStep, BeginCall, BeginSingle, BeginReturn, DeferRenderPush, MintRef,
       Filtered, PassCall, PassOther, MintOwn, Emit, Delivered, Refused
  <2>2. dropped' = dropped \cup {Last(frames[t]).cid} /\ Last(frames[t]).cid \in 1 .. counter
    BY <1>1, <2>1 DEF Refused, Datagram, Returns, HookInv, HookOK
  <2>3. counter \in Nat /\ counter <= MaxId
    BY WaitingFinite, Constants DEF RefInv, HookInv
  <2>4. PICK id \in CallIds : id = Last(frames[t]).cid
    BY <2>2, <2>3, Constants DEF CallIds
  <2>5. t \in Unsent(id)
    BY <2>1, <2>4 DEF Unsent
  <2>6. id \notin ReceivedCalls \cup dropped \cup ClosedCalls
    BY <1>1, <2>5, SeenOnce DEF TablePast
  <2>7. OpenCalls' = OpenCalls \cup {id} /\ id \notin OpenCalls \cup ClosedCalls
    BY <1>1, <2>2, <2>4, <2>6 DEF OpenCalls
  <2>8. Driver!SendCall(id)
    BY <1>1, <2>7 DEF Driver!SendCall, Driver!tableVars, tableVars
  <2>9. id \in Driver!CallIds
    BY DEF Driver!CallIds, CallIds
  <2>10. QED
    BY <2>8, <2>9 DEF Driver!Next
<1>4. QED
  BY <1>2, <1>3

\* A datagram that is dispatched is a call or a return that the driver sent
\* and the table got.
LEMMA RouteDrives ==
  ASSUME RefInv, CallInv, ReturnInv, Route
  PROVE  Driver!Next \/ UNCHANGED driverVars
<1>1. dropped' = dropped /\ Driver!CallIds = CallIds /\ TablePast
  BY ReaderFrames DEF ReaderMove, ReaderStep, Driver!CallIds, CallIds, ReturnInv
<1>2. CASE datagram.type = "call"
  <2>1. /\ datagram.id \in CallIds /\ Driver!DispatchCall(datagram.id)
        /\ datagram.id \notin ReceivedCalls \cup dropped \cup ClosedCalls
        /\ ReceivedCalls' = ReceivedCalls \cup {datagram.id} /\ ClosedCalls' = ClosedCalls
    BY <1>1, <1>2, CallArrives, DriverTable
  <2>2. OpenCalls' = OpenCalls \cup {datagram.id} /\ datagram.id \notin OpenCalls \cup ClosedCalls
    BY <1>1, <2>1 DEF OpenCalls
  <2>3. Driver!SendCall(datagram.id)
    BY <2>1, <2>2 DEF Driver!SendCall
  <2>4. QED
    BY <1>1, <2>1, <2>3 DEF Driver!Next
<1>3. CASE datagram.type \in Returns /\ datagram.id # 0
  <2>1. /\ datagram.id \in CallIds /\ Driver!DispatchReturn(datagram.id)
        /\ datagram.id \in OpenCalls
        /\ ReceivedCalls' = ReceivedCalls /\ ClosedCalls' = ClosedCalls \cup {datagram.id}
    BY <1>3, ReturnArrives, DriverTable
  <2>2. OpenCalls' = OpenCalls \ {datagram.id}
    BY <1>1, <2>1 DEF OpenCalls
  <2>3. Driver!SendReturn(datagram.id)
    BY <2>1, <2>2 DEF Driver!SendReturn
  <2>4. QED
    BY <1>1, <2>1, <2>3 DEF Driver!Next
<1>4. CASE datagram.type \in Returns /\ datagram.id = 0
  <2>1. Driver!DispatchReturn(0) /\ ReceivedCalls' = ReceivedCalls /\ ClosedCalls' = ClosedCalls
    BY <1>4, DeepReturnArrives, DriverTable
  <2>2. OpenCalls' = OpenCalls
    BY <1>1, <2>1 DEF OpenCalls
  <2>3. QED
    BY <2>1, <2>2 DEF Driver!SendDeepReturn, Driver!Next
<1>5. CASE datagram.type \notin {"call"} \cup Returns
  <2>1. UNCHANGED tableVars
    BY <1>5 DEF Route
  <2>2. QED
    BY <1>1, <2>1 DEF driverVars, tableVars, OpenCalls, ClosedCalls, ReceivedCalls
<1>6. QED
  BY <1>2, <1>3, <1>4, <1>5

\* Every step is one of the driver, or none.
LEMMA DriverStep ==
  ASSUME RefInv, CallInv, ReturnInv, [Next]_vars
  PROVE  Driver!Next \/ UNCHANGED driverVars
<1>1. CASE \E t \in Threads : HookMove(t)
  BY <1>1, RefusedDrives
<1>2. CASE Route
  BY <1>2, RouteDrives
<1>3. CASE ReaderAttach \/ ReaderPublish \/ ReaderRead \/ RenderRef \/ ReaderFail \/ UNCHANGED vars
  <2>1. UNCHANGED <<tableVars, dropped>>
    BY <1>3 DEF ReaderAttach, ReaderPublish, ReaderRead, RenderRef, ReaderFail, vars,
       unchangedByReader
  <2>2. QED
    BY <2>1 DEF driverVars, tableVars, OpenCalls, ClosedCalls, ReceivedCalls
<1>4. QED
  BY <1>1, <1>2, <1>3, NextSplit DEF ReaderMove, ReaderStep

\* The driver starts with nothing sent.
LEMMA DriverInit == Init => Driver!Init
<1> SUFFICES ASSUME Init PROVE Driver!Init
  OBVIOUS
<1>1. /\ Driver!TableInit /\ dropped = {} /\ pendingCalls = {} /\ alone = {}
      /\ \A id \in CallIds : printed[id] = 0
  BY DEF Init, Table!TableInit, Table!CallIds, Driver!TableInit, Driver!CallIds, CallIds
<1>2. ReceivedCalls = {} /\ ClosedCalls = {} /\ OpenCalls = {}
  BY <1>1 DEF ReceivedCalls, ClosedCalls, OpenCalls
<1>3. QED
  BY <1>1, <1>2 DEF Driver!Init

\* The pipe drives the reader's table as PendingCalls says, for any threads that
\* nest hooks, any gate, stack, socket and window: no return reaches the table
\* twice, before its call, or for a call that was not sent (bridge.c,
\* event_pipe.c, event_pipe.go).
THEOREM PipeImplementsDriver == Spec => ImplementsPending
<1>1. RefInv /\ CallInv /\ ReturnInv /\ [Next]_vars => [Driver!Next]_(Driver!vars)
  BY DriverStep DEF driverVars, Driver!vars, Driver!tableVars, tableVars
<1>2. QED
  BY <1>1, DriverInit, RefsInvariant, CallsInvariant, ReturnsInvariant, PTL
     DEF Spec, ImplementsPending, Driver!Spec

\* What PendingProofs proves, of the pipe's table.
Proved == INSTANCE PendingProofs
            WITH open <- OpenCalls, closed <- ClosedCalls, received <- ReceivedCalls

\* It is proved of the same operators.
LEMMA ProvedTable ==
  /\ Proved!Init <=> Driver!Init
  /\ Proved!Next <=> Driver!Next
  /\ Proved!vars = Driver!vars
<1>1. \A S : Proved!Cardinality(S) = Driver!Cardinality(S)
  BY Zenon DEF Proved!Cardinality, Driver!Cardinality
<1>2. Proved!CallIds = Driver!CallIds
  BY DEF Proved!CallIds, Driver!CallIds
<1>3. ASSUME NEW id
      PROVE  Proved!DispatchCall(id) <=> Driver!DispatchCall(id)
  <2>1. Proved!NewestOf(id) = Driver!NewestOf(id)
    BY DEF Proved!NewestOf, Driver!NewestOf
  <2>2. \A s, n, k : Proved!Evicts(s, n, k) = Driver!Evicts(s, n, k)
    BY DEF Proved!Evicts, Driver!Evicts, Proved!EvictTrigger, Driver!EvictTrigger, Proved!Stale,
           Driver!Stale
  <2>3. QED
    BY <1>1, <1>2, <2>1, <2>2 DEF Proved!DispatchCall, Driver!DispatchCall
<1>4. ASSUME NEW id
      PROVE  Proved!DispatchReturn(id) <=> Driver!DispatchReturn(id)
  BY DEF Proved!DispatchReturn, Driver!DispatchReturn, Proved!ReturnPaired, Driver!ReturnPaired,
         Proved!ReturnAlone, Driver!ReturnAlone
<1>5. Proved!tableVars = Driver!tableVars
  BY DEF Proved!tableVars, Driver!tableVars
<1>6. Proved!vars = Driver!vars
  BY <1>5 DEF Proved!vars, Driver!vars
<1>7. Proved!Init <=> Driver!Init
  BY <1>2 DEF Proved!Init, Driver!Init, Proved!TableInit, Driver!TableInit
<1>8. ASSUME NEW id
      PROVE  /\ Proved!SendCall(id) <=> Driver!SendCall(id)
             /\ Proved!SendReturn(id) <=> Driver!SendReturn(id)
  BY <1>3, <1>4, <1>5
     DEF Proved!SendCall, Driver!SendCall, Proved!SendReturn, Driver!SendReturn,
         Proved!tableVars, Driver!tableVars
<1>9. Proved!SendDeepReturn <=> Driver!SendDeepReturn
  BY <1>4 DEF Proved!SendDeepReturn, Driver!SendDeepReturn
<1>10. QED
  BY <1>2, <1>6, <1>7, <1>8, <1>9 DEF Proved!Next, Driver!Next

\* The pipe is a driver that PendingProofs speaks of.
LEMMA PipeIsProved == Spec => Proved!Spec
<1>1. [Driver!Next]_(Driver!vars) => [Proved!Next]_(Proved!vars)
  <2> SUFFICES ASSUME [Driver!Next]_(Driver!vars) PROVE [Proved!Next]_(Proved!vars)
    OBVIOUS
  <2>1. CASE Driver!Next
    BY <2>1, ProvedTable
  <2>2. CASE UNCHANGED Driver!vars
    BY <2>2 DEF Driver!vars, Proved!vars, Driver!tableVars, Proved!tableVars
  <2>3. QED
    BY <2>1, <2>2
<1>2. QED
  BY <1>1, ProvedTable, PipeImplementsDriver, PTL DEF ImplementsPending, Driver!Spec, Proved!Spec

\* The constants are as PendingProofs assumes them.
LEMMA TableConstants == Window \in Nat \ {0} /\ MaxId \in Nat
  BY Constants, ConstantsAssumption

\* The reader's memory is bounded: however many hooks nest on however many
\* threads, whatever send() refuses and however late their returns come, the
\* pending map never holds more than 2 * Window calls (pendingEvictTrigger).
THEOREM PipeTableBounded == Spec => []Driver!BoundedPending
<1>1. Proved!Spec => []Proved!BoundedPending
  BY TableConstants, Proved!TableBounded, PTL
<1>2. Proved!BoundedPending => Driver!BoundedPending
  <2>1. \A S : Proved!Cardinality(S) = Driver!Cardinality(S)
    BY Zenon DEF Proved!Cardinality, Driver!Cardinality
  <2>2. QED
    BY <2>1 DEF Proved!BoundedPending, Driver!BoundedPending, Proved!EvictTrigger, Driver!EvictTrigger
<1>3. QED
  BY <1>1, <1>2, PipeIsProved, PTL

\* In the pipe a return is printed alone only if its call is not one that the
\* reader received, or was evicted: no interleaving of threads and no refusal
\* makes the reader miss a pairing (dispatchReturn, dispatchObjReturn).
THEOREM PipePairsReturns == Spec => []Driver!AloneOnlyIfUnpaired
<1>1. Proved!Spec => []Proved!AloneOnlyIfUnpaired
  BY TableConstants, Proved!NoPairingMissed, PTL
<1>2. Proved!AloneOnlyIfUnpaired => Driver!AloneOnlyIfUnpaired
  BY DEF Proved!AloneOnlyIfUnpaired, Driver!AloneOnlyIfUnpaired
<1>3. QED
  BY <1>1, <1>2, PipeIsProved, PTL

\* A call within Window ids of the newest one leaves the pipe's table only when
\* its own return is dispatched (evictStalePending).
THEOREM PipeKeepsRecent == Spec => Driver!RecentCallsKept
<1> DEFINE Kept == \A id \in pendingCalls \ pendingCalls' :
                     id + Window >= pendingNewest' => id \in ClosedCalls'
<1>1. Proved!Spec => Proved!RecentCallsKept
  BY TableConstants, Proved!RecentKept, PTL
<1>2. [Kept]_(Proved!vars) => [Kept]_(Driver!vars)
  BY DEF Driver!vars, Proved!vars, Driver!tableVars, Proved!tableVars
<1>3. QED
  BY <1>1, <1>2, PipeIsProved, PTL DEF Proved!RecentCallsKept, Driver!RecentCallsKept
=============================================================================
