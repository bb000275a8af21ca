---------------------------- MODULE PendingProofs ----------------------------
(***************************************************************************)
(* The reader's pending table, proved for every window and any number of   *)
(* calls: typing, the exactness of its counter, the bound on its size, and *)
(* that each received call is printed or waits, once.                      *)
(***************************************************************************)
EXTENDS PendingCalls, TLAPS, FiniteSetTheorems

\* The inductive invariant.  The size of the table is known only because a
\* call id is stored once (received, open and closed say so) and because no
\* stored id exceeds pendingNewest, so that an eviction leaves a window.
IInv ==
  /\ TypeOK
  /\ LenExact
  /\ BoundedPending
  /\ CallsAccounted
  /\ AloneOnlyIfUnpaired
  /\ pendingCalls \subseteq received
  /\ received \subseteq open \cup closed
  /\ open \cap closed = {}
  /\ alone \ {0} \subseteq closed
  /\ \A id \in pendingCalls : id <= pendingNewest
  /\ \A id \in received \cap open : id \in pendingCalls \cup evicted

\* Sets of call ids are finite: what the counting below rests on.
LEMMA CallIdsFinite == ASSUME NEW S \in SUBSET CallIds
                       PROVE  IsFiniteSet(S) /\ Cardinality(S) \in Nat
<1>1. IsFiniteSet(1 .. MaxId)
  BY MaxIdAssumption, FS_Interval
<1>2. IsFiniteSet(S)
  BY <1>1, FS_Subset DEF CallIds
<1> QED BY <1>2, FS_CardinalityType

\* Removing a part of a finite set takes the part's size off.
LEMMA RemovePart ==
  ASSUME NEW S, IsFiniteSet(S), NEW T \in SUBSET S
  PROVE  Cardinality(S \ T) = Cardinality(S) - Cardinality(T)
<1>1. S \cap T = T
  OBVIOUS
<1>2. Cardinality(S \ T) = Cardinality(S) - Cardinality(S \cap T)
  BY FS_Difference
<1> QED BY <1>1, <1>2

\* Ids within an interval of length n are at most n.
LEMMA IntervalBound ==
  ASSUME NEW S, NEW a \in Int, NEW n \in Nat, S \subseteq (a + 1) .. (a + n)
  PROVE  Cardinality(S) <= n
<1>1. IsFiniteSet((a + 1) .. (a + n)) /\ Cardinality((a + 1) .. (a + n)) = n
  BY FS_Interval
<1> QED BY <1>1, FS_Subset

\* pendingStore keeps the bound: either it does not evict, or what an eviction
\* leaves fits into the window.
LEMMA StoreBounded ==
  ASSUME NEW stored \in SUBSET CallIds, NEW newest \in 0 .. MaxId,
         \A id \in stored : id <= newest
  PROVE  Cardinality(stored \ Evicts(stored, newest, Cardinality(stored))) <= EvictTrigger
<1> USE WindowAssumption, MaxIdAssumption
<1> DEFINE gone == Evicts(stored, newest, Cardinality(stored))
           left == stored \ gone
<1>0. Cardinality(stored) \in Nat
  BY CallIdsFinite
<1>1. CASE ~(Cardinality(stored) > EvictTrigger)
  <2>1. left = stored
    BY <1>1 DEF Evicts
  <2> QED BY <1>0, <1>1, <2>1 DEF EvictTrigger
<1>2. CASE Cardinality(stored) > EvictTrigger /\ newest <= Window
  <2>1. left \subseteq (0 + 1) .. (0 + Window)
    <3> SUFFICES ASSUME NEW e \in left PROVE e \in 1 .. Window
      OBVIOUS
    <3>1. e \in 1 .. MaxId /\ e <= newest
      BY DEF CallIds
    <3> QED BY <1>2, <3>1
  <2>2. Cardinality(left) <= Window
    BY <2>1, IntervalBound
  <2>3. Cardinality(left) \in Nat
    BY CallIdsFinite
  <2> QED BY <2>2, <2>3 DEF EvictTrigger
<1>3. CASE Cardinality(stored) > EvictTrigger /\ ~(newest <= Window)
  <2> DEFINE a == newest - Window - 1
  <2>1. left \subseteq (a + 1) .. (a + (Window + 1))
    <3> SUFFICES ASSUME NEW e \in left PROVE e \in (newest - Window) .. newest
      OBVIOUS
    <3>1. e \in 1 .. MaxId /\ e <= newest
      BY DEF CallIds
    <3>2. ~(e < newest - Window)
      BY <1>3 DEF Evicts, Stale
    <3> QED BY <3>1, <3>2
  <2>2. Cardinality(left) <= Window + 1
    <3>1. a \in Int /\ Window + 1 \in Nat
      OBVIOUS
    <3> HIDE DEF a, left
    <3> QED BY <2>1, <3>1, IntervalBound
  <2>3. Cardinality(left) \in Nat
    BY CallIdsFinite
  <2> QED BY <2>2, <2>3 DEF EvictTrigger
<1> QED BY <1>1, <1>2, <1>3

-----------------------------------------------------------------------------
LEMMA InitInv == Init => IInv
<1> SUFFICES ASSUME Init PROVE IInv
  OBVIOUS
<1>1. Cardinality({}) = 0
  BY FS_EmptySet
<1> QED
  BY <1>1, MaxIdAssumption, WindowAssumption
  DEF Init, TableInit, IInv, TypeOK, TableTypeOK, LenExact, BoundedPending,
      CallsAccounted, AloneOnlyIfUnpaired, EvictTrigger, CallIds

\* A call event sent and received.
LEMMA ReceivedCallKeeps ==
  ASSUME IInv, NEW id \in CallIds, SendCall(id), DispatchCall(id),
         received' = received \cup {id}
  PROVE  IInv'
<1> USE WindowAssumption, MaxIdAssumption
<1> DEFINE stored == pendingCalls \cup {id}
           newest == NewestOf(id)
           gone == Evicts(stored, newest, pendingLen + 1)
<1>1. /\ id \notin pendingCalls /\ id \notin received
      /\ id \notin closed /\ id \notin open
  BY DEF IInv, SendCall
<1>2. /\ pendingCalls \in SUBSET CallIds
      /\ stored \in SUBSET CallIds
      /\ gone \in SUBSET stored
      /\ newest \in 0 .. MaxId
      /\ \A k \in stored : k <= newest
  BY DEF IInv, TypeOK, TableTypeOK, Evicts, Stale, NewestOf, CallIds
<1>3. IsFiniteSet(pendingCalls) /\ IsFiniteSet(stored) /\ IsFiniteSet(stored \ gone)
      /\ Cardinality(stored) \in Nat /\ Cardinality(gone) \in Nat
      /\ Cardinality(stored \ gone) \in Nat
  BY <1>2, CallIdsFinite
<1>4. Cardinality(stored) = pendingLen + 1
  <2>1. Cardinality(stored) = Cardinality(pendingCalls) + 1
    BY <1>1, <1>3, FS_AddElement
  <2> QED BY <2>1 DEF IInv, LenExact
<1>5. Cardinality(stored \ gone) = pendingLen + 1 - Cardinality(gone)
  <2>1. Cardinality(stored \ gone) = Cardinality(stored) - Cardinality(gone)
    BY <1>2, <1>3, RemovePart
  <2>2. pendingLen \in Nat
    BY DEF IInv, TypeOK, TableTypeOK
  <2> HIDE DEF gone, stored
  <2> QED BY <1>3, <1>4, <2>1, <2>2
<1>6. /\ pendingCalls' = stored \ gone
      /\ pendingNewest' = newest
      /\ pendingLen' = pendingLen + 1 - Cardinality(gone)
      /\ printed' = [k \in CallIds |-> IF k \in gone THEN printed[k] + 1 ELSE printed[k]]
      /\ evicted' = evicted \cup gone
      /\ alone' = alone
      /\ open' = open \cup {id} /\ closed' = closed
  BY DEF DispatchCall, SendCall
<1>7. TypeOK'
  <2>1. pendingLen' \in Nat
    BY <1>3, <1>5, <1>6
  <2>2. printed' \in [CallIds -> Nat]
    BY <1>6 DEF IInv, TypeOK, TableTypeOK
  <2>3. pendingCalls' \in SUBSET CallIds /\ pendingNewest' \in 0 .. MaxId
    BY <1>2, <1>6
  <2>4. evicted' \in SUBSET CallIds
    BY <1>2, <1>6 DEF IInv, TypeOK, TableTypeOK
  <2> QED BY <1>6, <2>1, <2>2, <2>3, <2>4 DEF IInv, TypeOK, TableTypeOK
<1>8. LenExact'
  BY <1>5, <1>6 DEF LenExact
<1>9. BoundedPending'
  BY <1>2, <1>4, <1>6, StoreBounded DEF BoundedPending
<1>10. CallsAccounted'
  <2> SUFFICES ASSUME NEW k \in CallIds
               PROVE  printed'[k] + (IF k \in pendingCalls' THEN 1 ELSE 0)
                        = (IF k \in received' THEN 1 ELSE 0)
    BY DEF CallsAccounted
  <2>1. printed[k] + (IF k \in pendingCalls THEN 1 ELSE 0)
          = (IF k \in received THEN 1 ELSE 0)
    BY DEF IInv, CallsAccounted
  <2>2. printed[k] \in Nat
    BY DEF IInv, TypeOK, TableTypeOK
  <2>3. pendingCalls \subseteq received
    BY DEF IInv
  <2>4. received' = received \cup {id}
    OBVIOUS
  <2>5. printed'[k] = IF k \in gone THEN printed[k] + 1 ELSE printed[k]
    BY <1>6
  <2> HIDE DEF gone
  <2>6. CASE k = id
    BY <1>1, <1>6, <2>1, <2>2, <2>4, <2>5, <2>6
  <2>7. CASE k # id
    BY <1>2, <1>6, <2>1, <2>2, <2>4, <2>5, <2>7
  <2> QED BY <2>6, <2>7
<1>11. AloneOnlyIfUnpaired' /\ (alone \ {0} \subseteq closed)'
  <2>1. id \notin alone
    BY <1>1 DEF IInv, CallIds
  <2> QED BY <1>6, <2>1 DEF IInv, AloneOnlyIfUnpaired
<1>12. /\ (pendingCalls \subseteq received)'
       /\ (received \subseteq open \cup closed)'
       /\ (open \cap closed = {})'
  BY <1>1, <1>2, <1>6 DEF IInv
<1>13. (\A k \in pendingCalls : k <= pendingNewest)'
  BY <1>2, <1>6
<1>14. (\A k \in received \cap open : k \in pendingCalls \cup evicted)'
  BY <1>1, <1>6 DEF IInv
<1> QED
  BY <1>7, <1>8, <1>9, <1>10, <1>11, <1>12, <1>13, <1>14 DEF IInv

\* A call event sent and dropped by the socket.
LEMMA DroppedCallKeeps ==
  ASSUME IInv, NEW id \in CallIds, SendCall(id), UNCHANGED <<received, tableVars>>
  PROVE  IInv'
<1>1. id \notin received /\ id \notin closed
  BY DEF IInv, SendCall
<1> QED
  BY <1>1 DEF SendCall, IInv, TypeOK, TableTypeOK, tableVars, LenExact, BoundedPending,
     CallsAccounted, AloneOnlyIfUnpaired, EvictTrigger

\* A return event received that finds its call.
LEMMA PairedReturnKeeps ==
  ASSUME IInv, NEW id \in CallIds, SendReturn(id), ReturnPaired(id)
  PROVE  IInv'
<1> USE WindowAssumption, MaxIdAssumption
<1>1. /\ pendingCalls' = pendingCalls \ {id}
      /\ pendingLen' = pendingLen - 1
      /\ printed' = [printed EXCEPT ![id] = @ + 1]
      /\ open' = open \ {id} /\ closed' = closed \cup {id}
      /\ UNCHANGED <<pendingNewest, evicted, alone, received>>
      /\ id \in pendingCalls /\ id \in open
  BY DEF SendReturn, ReturnPaired
<1>2. IsFiniteSet(pendingCalls) /\ Cardinality(pendingCalls) \in Nat
      /\ Cardinality(pendingCalls \ {id}) \in Nat
  BY CallIdsFinite DEF IInv, TypeOK, TableTypeOK
<1>3. Cardinality(pendingCalls \ {id}) = Cardinality(pendingCalls) - 1
  BY <1>1, <1>2, FS_RemoveElement
<1>4. TypeOK'
  BY <1>1, <1>2, <1>3 DEF IInv, TypeOK, TableTypeOK, LenExact
<1>5. LenExact' /\ BoundedPending'
  BY <1>1, <1>2, <1>3 DEF IInv, LenExact, BoundedPending, EvictTrigger
<1>6. CallsAccounted'
  BY <1>1 DEF IInv, CallsAccounted, TypeOK, TableTypeOK
<1>7. AloneOnlyIfUnpaired' /\ (alone \ {0} \subseteq closed)'
  BY <1>1 DEF IInv, AloneOnlyIfUnpaired
<1>8. /\ (pendingCalls \subseteq received)'
      /\ (received \subseteq open \cup closed)'
      /\ (open \cap closed = {})'
      /\ (\A k \in pendingCalls : k <= pendingNewest)'
      /\ (\A k \in received \cap open : k \in pendingCalls \cup evicted)'
  BY <1>1 DEF IInv
<1> QED
  BY <1>4, <1>5, <1>6, <1>7, <1>8 DEF IInv

\* A return event received that finds no call.
LEMMA LoneReturnKeeps ==
  ASSUME IInv, NEW id \in CallIds, SendReturn(id), ReturnAlone(id)
  PROVE  IInv'
<1>1. /\ alone' = alone \cup {id}
      /\ open' = open \ {id} /\ closed' = closed \cup {id}
      /\ UNCHANGED <<pendingCalls, pendingNewest, pendingLen, printed, evicted, received>>
      /\ id \notin pendingCalls /\ id \in open
  BY DEF SendReturn, ReturnAlone
<1>2. TypeOK'
  BY <1>1, MaxIdAssumption DEF IInv, TypeOK, TableTypeOK, CallIds
<1>3. LenExact' /\ BoundedPending' /\ CallsAccounted'
  BY <1>1 DEF IInv, LenExact, BoundedPending, CallsAccounted, EvictTrigger
<1>4. id \notin received \/ id \in evicted
  BY <1>1 DEF IInv
<1>5. AloneOnlyIfUnpaired' /\ (alone \ {0} \subseteq closed)'
  BY <1>1, <1>4 DEF IInv, AloneOnlyIfUnpaired
<1>6. /\ (pendingCalls \subseteq received)'
      /\ (received \subseteq open \cup closed)'
      /\ (open \cap closed = {})'
      /\ (\A k \in pendingCalls : k <= pendingNewest)'
      /\ (\A k \in received \cap open : k \in pendingCalls \cup evicted)'
  BY <1>1 DEF IInv
<1> QED
  BY <1>2, <1>3, <1>5, <1>6 DEF IInv

\* A return event sent and dropped by the socket.
LEMMA DroppedReturnKeeps ==
  ASSUME IInv, NEW id \in CallIds, SendReturn(id), UNCHANGED tableVars
  PROVE  IInv'
<1> QED
  BY DEF SendReturn, IInv, TypeOK, TableTypeOK, tableVars, LenExact, BoundedPending,
     CallsAccounted, AloneOnlyIfUnpaired, EvictTrigger

\* A return that carries 0 finds no call and is printed on its own line.
LEMMA DeepReturnKeeps ==
  ASSUME IInv, SendDeepReturn
  PROVE  IInv'
<1>1. 0 \notin pendingCalls /\ 0 \notin received
  BY DEF IInv, TypeOK, TableTypeOK, CallIds
<1>2. /\ alone' = alone \cup {0}
      /\ UNCHANGED <<pendingCalls, pendingNewest, pendingLen, printed, evicted,
                     open, closed, received>>
  BY <1>1 DEF SendDeepReturn, DispatchReturn, ReturnPaired, ReturnAlone
<1>3. TypeOK'
  BY <1>2, MaxIdAssumption DEF IInv, TypeOK, TableTypeOK, CallIds
<1>4. LenExact' /\ BoundedPending' /\ CallsAccounted'
  BY <1>2 DEF IInv, LenExact, BoundedPending, CallsAccounted, EvictTrigger
<1>5. AloneOnlyIfUnpaired' /\ (alone \ {0} \subseteq closed)'
  BY <1>1, <1>2 DEF IInv, AloneOnlyIfUnpaired
<1> QED
  BY <1>2, <1>3, <1>4, <1>5 DEF IInv

LEMMA NextInv == IInv /\ [Next]_vars => IInv'
<1> SUFFICES ASSUME IInv, [Next]_vars PROVE IInv'
  OBVIOUS
<1>1. ASSUME NEW id \in CallIds, SendCall(id) PROVE IInv'
  BY <1>1, ReceivedCallKeeps, DroppedCallKeeps DEF SendCall
<1>2. ASSUME NEW id \in CallIds, SendReturn(id) PROVE IInv'
  <2>1. CASE ReturnPaired(id)
    BY <1>2, <2>1, PairedReturnKeeps
  <2>2. CASE ReturnAlone(id)
    BY <1>2, <2>2, LoneReturnKeeps
  <2>3. CASE UNCHANGED tableVars
    BY <1>2, <2>3, DroppedReturnKeeps
  <2> QED BY <1>2, <2>1, <2>2, <2>3 DEF SendReturn, DispatchReturn
<1>3. CASE UNCHANGED vars
  BY <1>3 DEF vars, IInv, TypeOK, TableTypeOK, tableVars, LenExact, BoundedPending,
     CallsAccounted, AloneOnlyIfUnpaired, EvictTrigger
<1>4. CASE SendDeepReturn
  BY <1>4, DeepReturnKeeps
<1> QED BY <1>1, <1>2, <1>3, <1>4 DEF Next

\* The inductive invariant holds in every reachable state.
THEOREM Invariance == Spec => []IInv
  BY InitInv, NextInv, PTL DEF Spec

\* Every reachable state of the table and of its environment is well typed; in
\* particular pendingLen never goes below zero.
THEOREM TypeCorrect == Spec => []TypeOK
<1>1. IInv => TypeOK
  BY DEF IInv
<1> QED BY <1>1, Invariance, PTL

\* The counter that triggers eviction is the size of the map (event_pipe.go,
\* pendingStore, pendingTake, evictStalePending).
THEOREM CounterExact == Spec => []LenExact
<1>1. IInv => LenExact
  BY DEF IInv
<1> QED BY <1>1, Invariance, PTL

\* The table never holds more than 2 * Window calls, whatever the socket drops
\* and however late returns come (pendingEvictTrigger).
THEOREM TableBounded == Spec => []BoundedPending
<1>1. IInv => BoundedPending
  BY DEF IInv
<1> QED BY <1>1, Invariance, PTL

\* A received call waits in the table or its line was printed, once.
THEOREM NoCallLost == Spec => []CallsAccounted
<1>1. IInv => CallsAccounted
  BY DEF IInv
<1> QED BY <1>1, Invariance, PTL

\* A return is printed alone only when its call was dropped or evicted.
THEOREM NoPairingMissed == Spec => []AloneOnlyIfUnpaired
<1>1. IInv => AloneOnlyIfUnpaired
  BY DEF IInv
<1> QED BY <1>1, Invariance, PTL

\* A call leaves the table for want of a return only when it is more than
\* Window ids behind the newest one (evictStalePending's cutoff).
THEOREM RecentKept == Spec => RecentCallsKept
<1> DEFINE Kept == \A id \in pendingCalls \ pendingCalls' :
                     id + Window >= pendingNewest' => id \in closed'
<1>1. IInv /\ [Next]_vars => [Kept]_vars
  <2> SUFFICES ASSUME IInv, Next,
                      NEW k \in pendingCalls \ pendingCalls', k + Window >= pendingNewest'
               PROVE  k \in closed'
    OBVIOUS
  <2>1. ASSUME NEW id \in CallIds, SendReturn(id) PROVE k \in closed'
    BY <2>1 DEF SendReturn, DispatchReturn, ReturnPaired, ReturnAlone, tableVars
  <2>2. ASSUME NEW id \in CallIds, SendCall(id) PROVE k \in closed'
    <3>1. k \in CallIds /\ pendingNewest \in 0 .. MaxId
      BY DEF IInv, TypeOK, TableTypeOK
    <3>2. DispatchCall(id)
      BY <2>2 DEF SendCall, tableVars
    <3>3. k \in Evicts(pendingCalls \cup {id}, NewestOf(id), pendingLen + 1)
          /\ pendingNewest' = NewestOf(id)
      BY <3>2 DEF DispatchCall
    <3>4. k < NewestOf(id) - Window
      BY <3>3 DEF Evicts, Stale
    <3>5. k \in Nat /\ NewestOf(id) \in Nat /\ Window \in Nat
      BY <3>1, WindowAssumption, MaxIdAssumption DEF CallIds, NewestOf
    <3> QED BY <3>3, <3>4, <3>5
  <2>3. CASE SendDeepReturn
    <3>1. 0 \notin pendingCalls
      BY DEF IInv, TypeOK, TableTypeOK, CallIds
    <3> QED BY <2>3, <3>1 DEF SendDeepReturn, DispatchReturn, ReturnPaired, ReturnAlone
  <2> QED BY <2>1, <2>2, <2>3 DEF Next
<1> QED BY <1>1, Invariance, PTL DEF Spec, RecentCallsKept
=============================================================================
