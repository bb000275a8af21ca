---------------------------- MODULE HookPathProofs ----------------------------
(***************************************************************************)
(* Proofs about the parts of the hook path that keep tables of their own:    *)
(* the config gate, the id caches, the range set and the allocator, for any  *)
(* number of threads and any sizes of the tables; and about the two walks    *)
(* over a signature, wherever the cache cut it.                              *)
(***************************************************************************)
EXTENDS ConfigGate, IdCache, RangeSet, JlAlloc, Signatures, FiniteSetTheorems, WellFoundedInduction, TLAPS

-----------------------------------------------------------------------------
(* Least elements and induction.                                           *)

\* A set of naturals has a least element: "the first range that is near", "the lowest
\* address" and "the smallest class" of the code exist.
LEMMA LeastExists ==
  ASSUME NEW T \in SUBSET Nat, T # {}
  PROVE  \E x \in T : \A y \in T : x <= y
<1> DEFINE R == StrictSubsetOrdering(Nat)
           S == FiniteSubsetsOf(Nat)
           Below(x) == 1 .. x
           B == {Below(x) : x \in T}
<1>1. \A x \in Nat : Below(x) \in S /\ Below(x) \in SUBSET Nat
  <2> TAKE x \in Nat
  <2>1. IsFiniteSet(1 .. x)
    BY FS_Interval
  <2>2. 1 .. x \subseteq Nat
    OBVIOUS
  <2> QED
    BY <2>1, <2>2 DEF FiniteSubsetsOf
<1>2. IsWellFoundedOn(R, S)
  BY FS_StrictSubsetOrderingWellFounded
<1>3. B \subseteq S /\ B # {}
  BY <1>1
<1> HIDE DEF R, S, B
<1>4. PICK b \in B : \A d \in B : ~(<<d, b>> \in R)
  BY <1>2, <1>3, WFMin
<1>5. PICK x \in T : b = Below(x)
  BY <1>4 DEF B
<1>6. ASSUME NEW y \in T, y < x
      PROVE  FALSE
  <2>1. Below(y) \in B
    BY DEF B
  <2>2. Below(y) \subseteq Below(x) /\ Below(y) # Below(x)
    <3>1. x \in Below(x) /\ x \notin Below(y)
      BY <1>6
    <3>2. Below(y) \subseteq Below(x)
      BY <1>6
    <3> QED
      BY <3>1, <3>2
  <2>3. Below(x) \in SUBSET Nat /\ Below(y) \in SUBSET Nat
    BY <1>1
  <2> HIDE DEF Below
  <2>4. <<Below(y), Below(x)>> \in R
    BY <2>2, <2>3 DEF R, StrictSubsetOrdering
  <2> QED
    BY <1>4, <1>5, <2>1, <2>4
<1> QED
  BY <1>6

\* Induction over the naturals, for a set instead of a predicate.
LEMMA SetInduction ==
  ASSUME NEW P, 0 \in P, \A n \in Nat : n \in P => n + 1 \in P
  PROVE  \A n \in Nat : n \in P
<1> DEFINE Out == {n \in Nat : n \notin P}
<1> SUFFICES ASSUME Out # {} PROVE FALSE
  OBVIOUS
<1>1. PICK x \in Out : \A y \in Out : x <= y
  BY LeastExists
<1>2. x # 0 /\ x - 1 \in Nat /\ x - 1 \in P
  BY <1>1
<1> QED
  BY <1>1, <1>2
-----------------------------------------------------------------------------
(* The config gate answers every lookup by the asked name's own answer, and  *)
(* keeps every name in one slot that probing reaches.                       *)

SlotType == [key : Pointers \cup {NoPointer}, owned : Names \cup {NoName}, result : Results]
QueryType == {NoQuery} \cup [at : Slots \cup {Uncached}, ptr : Pointers]
ReplyType == [ptr : Pointers \cup {NoPointer}, allowed : {0, 1}]

GateType ==
  /\ cache \in [Slots -> SlotType]
  /\ query \in [GateThreads -> QueryType]
  /\ reply \in [GateThreads -> ReplyType]

\* A fresh slot has no name; any other answers its name, under a pointer to it.
SlotsRight == \A s \in Slots :
  IF Fresh(s) THEN cache[s].owned = NoName
  ELSE /\ cache[s].key \in Pointers
       /\ cache[s].owned = NameOf[cache[s].key]
       /\ cache[s].result = GoAnswer(cache[s].owned)

\* Every slot before the i-th in n's probe sequence is another name's.
OthersBefore(n, i) ==
  \A j \in 0 .. i - 1 : ~Fresh(Probe(n, j)) /\ cache[Probe(n, j)].owned # n

\* A query waits for a slot that probing for its name may take.
QueriesRight == \A t \in GateThreads : query[t].at \in Slots =>
  \A i \in Slots :
    Probe(NameOf[query[t].ptr], i) = query[t].at => OthersBefore(NameOf[query[t].ptr], i)

GateInv == GateType /\ SlotsRight /\ AnswersBelong /\ QueriesRight /\ CachedOnce
-----------------------------------------------------------------------------
\* A probe sequence visits slots, and each at most once.
LEMMA ProbeInto ==
  ASSUME NEW n \in Names, NEW i \in Slots
  PROVE  Probe(n, i) \in Slots
BY GateAssumption DEF Probe, Slots

LEMMA ProbeOnce ==
  ASSUME NEW n \in Names, NEW i \in Slots, NEW j \in Slots, Probe(n, i) = Probe(n, j)
  PROVE  i = j
BY GateAssumption DEF Probe, Slots

\* Go's answer is 0 or 1.
LEMMA AnswerType == \A n \in Names : GoAnswer(n) \in {0, 1}
BY DEF GoAnswer

\* Positions before a position of a probe sequence are positions.
LEMMA Earlier == \A i \in Slots : \A j \in 0 .. i - 1 : j \in Slots
BY GateAssumption DEF Slots
-----------------------------------------------------------------------------
LEMMA InitGate == GateInit => GateInv
<1> SUFFICES ASSUME GateInit PROVE GateInv
  OBVIOUS
<1> USE GateAssumption DEF GateInit
<1>1. GateType
  BY DEF GateType, SlotType, QueryType, ReplyType, EmptySlot, NoReply, Results
<1>2. SlotsRight
  BY DEF SlotsRight, Fresh, EmptySlot
<1>3. AnswersBelong
  BY DEF AnswersBelong, NoReply
<1>4. QueriesRight
  BY DEF QueriesRight, NoQuery, Slots
<1>5. CachedOnce
  BY ProbeInto DEF CachedOnce, EmptySlot
<1> QED
  BY <1>1, <1>2, <1>3, <1>4, <1>5 DEF GateInv
-----------------------------------------------------------------------------
\* Filled slots keep their name: a position that was passed stays passed.
Kept == \A s \in Slots : ~Fresh(s) => ~Fresh(s)' /\ cache'[s].owned = cache[s].owned

LEMMA StaysBefore ==
  ASSUME Kept, NEW n \in Names, NEW i \in Slots, OthersBefore(n, i)
  PROVE  OthersBefore(n, i)'
<1> SUFFICES ASSUME NEW j \in 0 .. i - 1
             PROVE  ~Fresh(Probe(n, j))' /\ cache'[Probe(n, j)].owned # n
  BY DEF OthersBefore, Probe
<1>1. Probe(n, j) \in Slots
  BY Earlier, ProbeInto
<1> QED
  BY <1>1 DEF Kept, OthersBefore, Fresh, Probe

\* A thread that waits for a slot waits with a pointer.
LEMMA QueryHasPointer ==
  ASSUME GateType, NEW t \in GateThreads, query[t].at \in Slots \cup {Uncached}
  PROVE  query[t].ptr \in Pointers /\ NameOf[query[t].ptr] \in Names
<1>1. -1 \notin Slots \cup {Uncached}
  BY GateAssumption DEF Slots, Uncached
<1>2. query[t] \in QueryType /\ query[t] # NoQuery
  BY <1>1 DEF GateType, NoQuery
<1> QED
  BY <1>2, GateAssumption DEF QueryType

\* Queries that a step leaves alone stay right.
LEMMA OldQueriesRight ==
  ASSUME GateType, QueriesRight, Kept, NEW t \in GateThreads, query'[t] = query[t],
         query[t].at \in Slots, NEW i \in Slots, NEW n \in Names,
         n = NameOf[query[t].ptr], Probe(n, i) = query[t].at
  PROVE  OthersBefore(n, i)'
<1>1. OthersBefore(n, i)
  BY DEF QueriesRight
<1> QED
  BY <1>1, StaysBefore

\* Names that a step leaves in their slots stay reachable.
LEMMA OldNamesOnce ==
  ASSUME CachedOnce, Kept, NEW n \in Names, NEW i \in Slots, cache[Probe(n, i)].owned = n
  PROVE  OthersBefore(n, i)'
<1>1. OthersBefore(n, i)
  BY DEF CachedOnce, OthersBefore
<1> QED
  BY <1>1, StaysBefore

\* A step that leaves the queries alone or ends them, and the names in their slots.
LEMMA SameNames ==
  ASSUME GateInv,
         \A s \in Slots : cache'[s].owned = cache[s].owned /\ cache'[s].result = cache[s].result,
         \A t \in GateThreads : query'[t].at \in Slots => query'[t] = query[t]
  PROVE  QueriesRight' /\ CachedOnce'
<1>1. Kept
  BY DEF Kept, Fresh
<1>2. QueriesRight'
  <2> SUFFICES ASSUME NEW t \in GateThreads, query'[t].at \in Slots, NEW i \in Slots,
                      NEW n \in Names, n = NameOf[query'[t].ptr],
                      Probe(n, i) = query'[t].at
               PROVE  OthersBefore(n, i)'
    <3>1. \A t \in GateThreads : query'[t].at \in Slots => NameOf[query'[t].ptr] \in Names
      BY QueryHasPointer DEF GateInv
    <3> QED
      BY <3>1 DEF QueriesRight, Probe
  <2> QED
    BY <1>1, OldQueriesRight DEF GateInv
<1>3. CachedOnce'
  <2> SUFFICES ASSUME NEW i \in Slots, NEW n \in Names, cache'[Probe(n, i)].owned = n
               PROVE  OthersBefore(n, i)'
    BY DEF CachedOnce, OthersBefore, Probe
  <2>1. cache[Probe(n, i)].owned = n
    BY ProbeInto
  <2> QED
    BY <1>1, <2>1, OldNamesOnce DEF GateInv
<1> QED
  BY <1>2, <1>3
-----------------------------------------------------------------------------
\* A hit answers for the name its slot holds.
LEMMA HitKeeps ==
  ASSUME GateInv, NEW t \in GateThreads, NEW p \in Pointers, Hit(t, p)
  PROVE  GateInv'
<1> DEFINE n == NameOf[p]
<1>1. PICK i \in Slots :
        /\ StopsAt(p, i)
        /\ ~Fresh(Probe(n, i))
        /\ cache' = [cache EXCEPT ![Probe(n, i)].key = p]
        /\ reply' = [reply EXCEPT ![t] = [ptr |-> p, allowed |-> cache[Probe(n, i)].result]]
  BY DEF Hit, Give
<1> DEFINE s == Probe(n, i)
<1>2. n \in Names /\ s \in Slots /\ config' = config /\ query' = query
  BY GateAssumption, ProbeInto DEF Hit
<1>3. cache[s].owned = n /\ cache[s].result = GoAnswer(n)
  <2>1. cache[s].key = p \/ cache[s].owned = n
    BY <1>1 DEF StopsAt, Answers
  <2> QED
    BY <1>1, <1>2, <2>1 DEF GateInv, SlotsRight
<1>4. /\ cache'[s] = [cache[s] EXCEPT !.key = p]
      /\ \A r \in Slots \ {s} : cache'[r] = cache[r]
  BY <1>1, <1>2 DEF GateInv, GateType
<1>5. GateType'
  <2>1. cache' \in [Slots -> SlotType]
    BY <1>1, <1>2 DEF GateInv, GateType, SlotType
  <2>2. reply' \in [GateThreads -> ReplyType]
    BY <1>1, <1>2, <1>3, AnswerType DEF GateInv, GateType, ReplyType
  <2> QED
    BY <1>2, <2>1, <2>2 DEF GateInv, GateType
<1>6. \A r \in Slots : cache'[r].owned = cache[r].owned /\ cache'[r].result = cache[r].result
  BY <1>2, <1>4 DEF GateInv, GateType, SlotType
<1>7. SlotsRight'
  <2>1. cache'[s].key = p
    BY <1>2, <1>4 DEF GateInv, GateType, SlotType
  <2> QED
    BY <1>1, <1>2, <1>3, <1>4, <1>6, <2>1 DEF GateInv, SlotsRight, Fresh, GoAnswer
<1>8. AnswersBelong'
  BY <1>1, <1>2, <1>3 DEF GateInv, GateType, AnswersBelong, GoAnswer
<1> QED
  BY <1>2, <1>5, <1>6, <1>7, <1>8, SameNames DEF GateInv

\* A miss waits for the slot at which probing stopped.
LEMMA MissKeeps ==
  ASSUME GateInv, NEW t \in GateThreads, NEW p \in Pointers, Miss(t, p)
  PROVE  GateInv'
<1> DEFINE n == NameOf[p]
<1>1. PICK i \in Slots :
        /\ StopsAt(p, i)
        /\ Fresh(Probe(n, i))
        /\ query' = [query EXCEPT ![t] = [at |-> Probe(n, i), ptr |-> p]]
  BY DEF Miss
<1>2. n \in Names /\ Probe(n, i) \in Slots /\ UNCHANGED <<config, cache, reply>>
  BY GateAssumption, ProbeInto DEF Miss
<1>3. GateType'
  BY <1>1, <1>2 DEF GateInv, GateType, QueryType
<1>4. SlotsRight' /\ AnswersBelong' /\ CachedOnce'
  BY <1>2 DEF GateInv, SlotsRight, AnswersBelong, CachedOnce, GoAnswer, Fresh
<1>5. Kept
  BY <1>2 DEF Kept, Fresh
<1>6. OthersBefore(n, i)
  BY <1>1 DEF StopsAt, Answers, OthersBefore
<1>7. QueriesRight'
  <2> SUFFICES ASSUME NEW u \in GateThreads, query'[u].at \in Slots, NEW k \in Slots,
                      NEW m \in Names, m = NameOf[query'[u].ptr], Probe(m, k) = query'[u].at
               PROVE  OthersBefore(m, k)'
    <3>1. \A u \in GateThreads : query'[u].at \in Slots => NameOf[query'[u].ptr] \in Names
      BY <1>1, <1>2, QueryHasPointer DEF GateInv, GateType
    <3> QED
      BY <3>1 DEF QueriesRight, Probe
  <2>1. CASE u = t
    <3>1. m = n /\ Probe(n, k) = Probe(n, i)
      BY <1>1, <2>1 DEF GateInv, GateType
    <3>2. k = i
      BY <1>2, <3>1, ProbeOnce
    <3> QED
      BY <1>2, <1>5, <1>6, <3>1, <3>2, StaysBefore
  <2>2. CASE u # t
    <3>1. query'[u] = query[u]
      BY <1>1, <2>2 DEF GateInv, GateType
    <3> QED
      BY <1>5, <3>1, OldQueriesRight DEF GateInv
  <2> QED
    BY <2>1, <2>2
<1> QED
  BY <1>3, <1>4, <1>7 DEF GateInv

\* A query without a slot waits for nothing.
LEMMA OverflowKeeps ==
  ASSUME GateInv, NEW t \in GateThreads, NEW p \in Pointers, Overflow(t, p)
  PROVE  GateInv'
<1>1. UNCHANGED <<config, cache, reply>> /\ query' = [query EXCEPT ![t] = [at |-> Uncached, ptr |-> p]]
  BY DEF Overflow
<1>2. GateType'
  BY <1>1 DEF GateInv, GateType, QueryType
<1>3. SlotsRight' /\ AnswersBelong'
  BY <1>1 DEF GateInv, SlotsRight, AnswersBelong, GoAnswer, Fresh
<1>4. Uncached \notin Slots
  BY GateAssumption DEF Uncached, Slots
<1>5. \A u \in GateThreads : query'[u].at \in Slots => query'[u] = query[u]
  BY <1>1, <1>4 DEF GateInv, GateType
<1> QED
  BY <1>1, <1>2, <1>3, <1>5, SameNames DEF GateInv

\* Go's answer fills the slot if it is still fresh, and is used without it if not.
LEMMA SettleKeeps ==
  ASSUME GateInv, NEW t \in GateThreads, Settle(t)
  PROVE  GateInv'
<1> DEFINE s == query[t].at
           p == query[t].ptr
           n == NameOf[p]
<1>1. /\ s \in Slots
      /\ config' = config
      /\ query' = [query EXCEPT ![t] = NoQuery]
  BY DEF Settle
<1>2. p \in Pointers /\ n \in Names
  BY <1>1, QueryHasPointer DEF GateInv
<1>3. query' \in [GateThreads -> QueryType]
  BY <1>1 DEF GateInv, GateType, QueryType
<1>4. /\ query'[t] = NoQuery
      /\ \A u \in GateThreads : query'[u].at \in Slots => query'[u] = query[u]
  <2>1. NoQuery.at \notin Slots
    BY GateAssumption DEF NoQuery, Slots
  <2> QED
    BY <1>1, <2>1 DEF GateInv, GateType
<1>5. CASE /\ Fresh(s)
           /\ cache' = [cache EXCEPT ![s] = [key |-> p, owned |-> n, result |-> GoAnswer(n)]]
           /\ Give(t, p, GoAnswer(n))
  <2>1. /\ cache'[s] = [key |-> p, owned |-> n, result |-> GoAnswer(n)]
        /\ \A r \in Slots \ {s} : cache'[r] = cache[r]
    BY <1>1, <1>5 DEF GateInv, GateType
  <2>2. GoAnswer(n) \in {0, 1}
    BY <1>2, AnswerType
  <2>3. GateType'
    <3>1. cache' \in [Slots -> SlotType]
      BY <1>1, <1>2, <1>5, <2>2 DEF GateInv, GateType, SlotType, Results
    <3>2. reply' \in [GateThreads -> ReplyType]
      BY <1>2, <1>5, <2>2 DEF GateInv, GateType, Give, ReplyType
    <3> QED
      BY <1>3, <3>1, <3>2 DEF GateType
  <2>4. SlotsRight'
    BY <1>1, <1>2, <2>1, <2>2 DEF GateInv, SlotsRight, Fresh, Unchecked, GoAnswer
  <2>5. AnswersBelong'
    BY <1>1, <1>2, <1>5 DEF GateInv, GateType, AnswersBelong, Give, GoAnswer
  <2>6. Kept
    BY <1>1, <1>5, <2>1 DEF Kept, Fresh
  <2>7. QueriesRight'
    <3> SUFFICES ASSUME NEW u \in GateThreads, query'[u].at \in Slots, NEW k \in Slots,
                        NEW m \in Names, m = NameOf[query'[u].ptr], Probe(m, k) = query'[u].at
                 PROVE  OthersBefore(m, k)'
      <4>1. \A u \in GateThreads : query'[u].at \in Slots => NameOf[query'[u].ptr] \in Names
        BY <1>4, QueryHasPointer DEF GateInv
      <4> QED
        BY <4>1 DEF QueriesRight, Probe
    <3>1. query'[u] = query[u]
      BY <1>4
    <3> QED
      BY <2>6, <3>1, OldQueriesRight DEF GateInv
  <2>8. CachedOnce'
    <3> SUFFICES ASSUME NEW i \in Slots, NEW m \in Names, cache'[Probe(m, i)].owned = m
                 PROVE  OthersBefore(m, i)'
      BY DEF CachedOnce, OthersBefore, Probe
    <3>1. CASE Probe(m, i) = s
      <4>1. m = n
        BY <2>1, <3>1
      <4>2. OthersBefore(m, i)
        BY <1>1, <3>1, <4>1 DEF GateInv, QueriesRight
      <4> QED
        BY <2>6, <4>2, StaysBefore
    <3>2. CASE Probe(m, i) # s
      <4>1. cache[Probe(m, i)].owned = m
        BY <2>1, <3>2, ProbeInto
      <4> QED
        BY <2>6, <4>1, OldNamesOnce DEF GateInv
    <3> QED
      BY <3>1, <3>2
  <2> QED
    BY <2>3, <2>4, <2>5, <2>7, <2>8 DEF GateInv
<1>6. CASE \E b \in {0, 1} : b = GoAnswer(n) /\ Give(t, p, b) /\ cache' = cache
  <2>1. GateType'
    BY <1>2, <1>3, <1>6 DEF GateInv, GateType, Give, ReplyType
  <2>2. SlotsRight' /\ AnswersBelong'
    BY <1>1, <1>2, <1>6 DEF GateInv, GateType, SlotsRight, AnswersBelong, Give, GoAnswer, Fresh
  <2> QED
    BY <1>4, <1>6, <2>1, <2>2, SameNames DEF GateInv
<1>7. CASE ~Fresh(s) /\ cache[s].owned = n /\ Give(t, p, cache[s].result) /\ cache' = cache
  \* Another thread has filled the slot for this name: its result is Go's answer.
  <2>1. cache[s].result = GoAnswer(n)
    BY <1>1, <1>7 DEF GateInv, SlotsRight
  <2> QED
    BY <1>2, <1>6, <1>7, <2>1, AnswerType
<1>8. CASE Give(t, p, GoAnswer(n)) /\ cache' = cache
  BY <1>2, <1>6, <1>8, AnswerType
<1> QED
  BY <1>5, <1>7, <1>8 DEF Settle

\* An answer the table had no room for is given as it came.
LEMMA DirectKeeps ==
  ASSUME GateInv, NEW t \in GateThreads, Direct(t)
  PROVE  GateInv'
<1> DEFINE p == query[t].ptr
<1>1. /\ UNCHANGED <<config, cache>>
      /\ query' = [query EXCEPT ![t] = NoQuery]
      /\ reply' = [reply EXCEPT ![t] = [ptr |-> p, allowed |-> GoAnswer(NameOf[p])]]
  BY DEF Direct, Give
<1>2. p \in Pointers /\ GoAnswer(NameOf[p]) \in {0, 1}
  BY QueryHasPointer, AnswerType DEF Direct, GateInv
<1>3. GateType'
  BY <1>1, <1>2 DEF GateInv, GateType, QueryType, ReplyType
<1>4. SlotsRight' /\ AnswersBelong'
  BY <1>1, <1>2 DEF GateInv, GateType, SlotsRight, AnswersBelong, GoAnswer, Fresh
<1>5. \A u \in GateThreads : query'[u].at \in Slots => query'[u] = query[u]
  <2>1. NoQuery.at \notin Slots
    BY GateAssumption DEF NoQuery, Slots
  <2> QED
    BY <1>1, <2>1 DEF GateInv, GateType
<1> QED
  BY <1>1, <1>3, <1>4, <1>5, SameNames DEF GateInv
-----------------------------------------------------------------------------
\* Every step of the gate keeps the invariant.
LEMMA StepKeeps == GateInv /\ [GateNext]_gateVars => GateInv'
<1> SUFFICES ASSUME GateInv, [GateNext]_gateVars PROVE GateInv'
  OBVIOUS
<1>1. CASE UNCHANGED gateVars
  BY <1>1 DEF gateVars, GateInv, GateType, SlotsRight, AnswersBelong, QueriesRight, CachedOnce,
              OthersBefore, GoAnswer, Fresh
<1>2. ASSUME NEW t \in GateThreads, Settle(t) PROVE GateInv'
  BY <1>2, SettleKeeps
<1>3. ASSUME NEW t \in GateThreads, Direct(t) PROVE GateInv'
  BY <1>3, DirectKeeps
<1>4. ASSUME NEW t \in GateThreads, NEW p \in Pointers, Hit(t, p) \/ Miss(t, p) \/ Overflow(t, p)
      PROVE  GateInv'
  BY <1>4, HitKeeps, MissKeeps, OverflowKeeps
<1> QED
  BY <1>1, <1>2, <1>3, <1>4 DEF GateNext

\* A hook is never filtered by another name's answer (hook_common.c 268-362).
THEOREM AnswersRight == GateSpec => []AnswersBelong
<1>1. GateInv => AnswersBelong
  BY DEF GateInv
<1> QED
  BY <1>1, InitGate, StepKeeps, PTL DEF GateSpec

\* Two threads asking at once never put a name into two slots, nor where probing
\* stops before it (hook_common.c 319-345).
THEOREM NamesOnce == GateSpec => []CachedOnce
<1>1. GateInv => CachedOnce
  BY DEF GateInv
<1> QED
  BY <1>1, InitGate, StepKeeps, PTL DEF GateSpec
-----------------------------------------------------------------------------
(* The id caches.                                                          *)

MaybeText == Texts \cup {NoText}
Info == [name : MaybeText, sig : MaybeText, clazz : MaybeText]
EntryRecs == [id : Ids \cup {NoId}, name : MaybeText, sig : MaybeText, clazz : MaybeText, used : BOOLEAN]
PutOps == [at : {"name", "clazz", "sig"}, id : Ids, text : Texts, clazz : MaybeText, slot : Positions]
SigOps == [at : {"copy_sig"}, id : Ids, slot : Positions, name : MaybeText]
ClazzOps == [at : {"copy_clazz"}, id : Ids, slot : Positions, name : MaybeText, sig : MaybeText]
GotOps == [at : {"got"}, id : Ids, info : Info, latest : Info]
IdOps == {Idle} \cup PutOps \cup SigOps \cup ClazzOps \cup GotOps

Putting == {"name", "clazz", "sig"}
Copying == {"copy_sig", "copy_clazz"}

IdTypes ==
  /\ table \in [Positions -> EntryRecs]
  /\ holders \in SUBSET IdThreads
  /\ writer \in IdThreads \cup {NoThread}
  /\ op \in [IdThreads -> IdOps]
  /\ stored \in [Ids -> Info]

\* The lock's state and the threads inside it agree, and a writer is alone.
IdLock ==
  /\ \A t \in IdThreads : op[t].at \in Putting <=> writer = t
  /\ \A t \in IdThreads : op[t].at \in Copying <=> t \in holders
  /\ writer # NoThread => holders = {}

\* Probing reaches every entry in use.
Reachable == \A s \in Positions : table[s].used =>
  /\ table[s].id \in Ids
  /\ \E n \in Positions : EndsAt(table[s].id, n) /\ IdProbe(table[s].id, n) = s

\* An id without an entry was never stored.
Unstored == \A id \in Ids :
  (\A s \in Positions : table[s].used => table[s].id # id) => stored[id] = Nothing

Whole(s) == LET e == table[s] IN
  e.used => [name |-> e.name, sig |-> e.sig, clazz |-> e.clazz] = stored[e.id]

\* Entries nobody writes are what was stored.
FreshEntries == \A s \in Positions :
  (writer \in IdThreads => op[writer].slot # s) => Whole(s)

\* The writer's slot at every moment of the put.
PutProgress == \A t \in IdThreads, id \in Ids, s \in Positions :
  op[t].at \in Putting /\ op[t].id = id /\ op[t].slot = s =>
    /\ \E n \in Positions : EndsAt(id, n) /\ IdProbe(id, n) = s
    /\ op[t].at = "name" => Whole(s)
    /\ op[t].at # "name" => table[s].id = id /\ table[s].name = op[t].text
    /\ op[t].at = "clazz" /\ table[s].used => table[s].clazz = stored[id].clazz
    /\ op[t].at = "sig" => table[s].clazz = IF op[t].clazz = NoText THEN stored[id].clazz
                                           ELSE op[t].clazz

\* What a reader has copied so far.
CopyProgress == \A t \in IdThreads : op[t].at \in Copying =>
  /\ table[op[t].slot].used /\ table[op[t].slot].id = op[t].id
  /\ op[t].name = stored[op[t].id].name
  /\ op[t].at = "copy_clazz" => op[t].sig = stored[op[t].id].sig

IdInv ==
  /\ IdTypes /\ IdLock /\ Reachable /\ Unstored /\ FreshEntries /\ PutProgress /\ CopyProgress
  /\ InfoIsLatest
-----------------------------------------------------------------------------
\* A probe index is reduced modulo the table size and stays in the table.
LEMMA ProbeInTable == \A id \in Ids, n \in Positions : IdProbe(id, n) \in Positions
BY IdAssumption DEF IdProbe, Positions

\* A search stops at one probe: the first free slot or the entry itself.
LEMMA EndIsOne ==
  ASSUME NEW id \in Ids, NEW n \in Positions, NEW m \in Positions, EndsAt(id, n), EndsAt(id, m)
  PROVE  n = m
<1> DEFINE Ends(k) == ~table[IdProbe(id, k)].used \/ table[IdProbe(id, k)].id = id
<1>1. Ends(n) /\ (\A k \in 0 .. n - 1 : ~Ends(k)) /\ Ends(m) /\ \A k \in 0 .. m - 1 : ~Ends(k)
  BY DEF EndsAt
<1>2. n \in Nat /\ m \in Nat
  BY IdAssumption DEF Positions
<1> HIDE DEF Ends
<1>3. ~(n < m) /\ ~(m < n)
  BY <1>1, <1>2
<1> QED
  BY <1>2, <1>3

\* Only the ids of used entries matter to a search.
LEMMA EndsKept ==
  ASSUME NEW id \in Ids, NEW n \in Positions, EndsAt(id, n), IdTypes,
         \A s \in Positions : /\ table'[s].used = table[s].used
                              /\ table[s].used => table'[s].id = table[s].id
  PROVE  EndsAt(id, n)'
<1>1. \A k \in 0 .. n : k \in Positions /\ IdProbe(id, k) \in Positions
  BY ProbeInTable, IdAssumption DEF Positions
<1>2. n \in Nat /\ n \in 0 .. n /\ \A k \in 0 .. n - 1 : k \in 0 .. n
  BY IdAssumption DEF Positions
<1>3. \A k \in 0 .. n :
        (~table'[IdProbe(id, k)].used \/ table'[IdProbe(id, k)].id = id)
        <=> (~table[IdProbe(id, k)].used \/ table[IdProbe(id, k)].id = id)
  BY <1>1
<1>4. EndsAt(id, n)' <=>
        /\ ~table'[IdProbe(id, n)].used \/ table'[IdProbe(id, n)].id = id
        /\ \A k \in 0 .. n - 1 : ~(~table'[IdProbe(id, k)].used \/ table'[IdProbe(id, k)].id = id)
  BY DEF EndsAt, IdProbe
<1> QED
  BY <1>2, <1>3, <1>4 DEF EndsAt

\* The zeroed table, the free lock and idle hooks satisfy the invariant.
LEMMA IdInitial == IdInit => IdInv
<1> SUFFICES ASSUME IdInit PROVE IdInv
  OBVIOUS
<1> USE DEF IdInit
<1>1. \A s \in Positions : table[s] = FreeEntry /\ table[s].used = FALSE
  BY DEF FreeEntry
<1>2. \A t \in IdThreads : op[t] = Idle /\ op[t].at = "idle"
  BY DEF Idle
<1>3. IdTypes
  <2>1. FreeEntry \in EntryRecs
    BY DEF FreeEntry, EntryRecs, MaybeText
  <2>2. Nothing \in Info
    BY DEF Nothing, Info, MaybeText
  <2> QED
    BY <2>1, <2>2 DEF IdTypes, IdOps
<1>4. IdLock
  BY <1>2, IdAssumption DEF IdLock, Putting, Copying
<1>5. Reachable /\ Unstored /\ FreshEntries
  BY <1>1, IdAssumption DEF Reachable, Unstored, FreshEntries, Whole
<1>6. PutProgress /\ CopyProgress /\ InfoIsLatest
  BY <1>2 DEF PutProgress, CopyProgress, InfoIsLatest, Putting, Copying
<1> QED
  BY <1>3, <1>4, <1>5, <1>6 DEF IdInv

\* Steps of readers leave the table and what was stored as they are.
LEMMA TableUntouched ==
  ASSUME IdInv, UNCHANGED <<table, stored>>
  PROVE  /\ Reachable' /\ Unstored'
         /\ \A s \in Positions : Whole(s)' = Whole(s)
         /\ \A id \in Ids, n \in Positions : EndsAt(id, n)' = EndsAt(id, n)
<1>1. \A id \in Ids, n \in Positions : EndsAt(id, n)' = EndsAt(id, n)
  BY DEF EndsAt, IdProbe
<1>2. Reachable'
  <2>1. Reachable
    BY DEF IdInv
  <2> QED
    BY <1>1, <2>1 DEF Reachable, IdProbe
<1>3. Unstored'
  BY DEF IdInv, Unstored
<1>4. \A s \in Positions : Whole(s)' = Whole(s)
  BY DEF Whole
<1> QED
  BY <1>1, <1>2, <1>3, <1>4

\* A step of t that changes only its own operation keeps what others have.
LEMMA OthersKeep ==
  ASSUME IdInv, NEW t \in IdThreads, NEW o \in IdOps, Go(t, o)
  PROVE  /\ op' \in [IdThreads -> IdOps] /\ op'[t] = o
         /\ \A u \in IdThreads : u # t => op'[u] = op[u]
BY DEF IdInv, IdTypes, Go

\* Taking the lock exclusively and choosing the slot keeps the invariant.
LEMMA BeginPutStep ==
  ASSUME IdInv, NEW t \in IdThreads, NEW id \in Ids, NEW text \in Texts, NEW clazz \in MaybeText,
         BeginPut(t, id, text, clazz)
  PROVE  IdInv'
<1>1. PICK n \in Positions :
        /\ EndsAt(id, n)
        /\ writer' = t
        /\ Go(t, [at |-> "name", id |-> id, text |-> text, clazz |-> clazz, slot |-> IdProbe(id, n)])
  BY DEF BeginPut
<1> DEFINE o == [at |-> "name", id |-> id, text |-> text, clazz |-> clazz, slot |-> IdProbe(id, n)]
<1>2. op[t].at = "idle" /\ writer = NoThread /\ holders = {} /\ UNCHANGED <<table, holders, stored>>
  BY DEF BeginPut, CanWrite
<1>3. IdProbe(id, n) \in Positions
  BY ProbeInTable
<1>4. o \in IdOps /\ o.at = "name" /\ o.slot = IdProbe(id, n) /\ o.id = id
  BY <1>3 DEF IdOps, PutOps
<1> HIDE DEF o
<1>5. op' \in [IdThreads -> IdOps] /\ op'[t] = o /\ \A u \in IdThreads : u # t => op'[u] = op[u]
  BY <1>1, <1>4, OthersKeep DEF o
<1>6. IdTypes'
  BY <1>1, <1>2, <1>5 DEF IdInv, IdTypes
<1>7. IdLock'
  BY <1>1, <1>2, <1>4, <1>5, IdAssumption DEF IdInv, IdLock, Putting, Copying
<1>8. /\ Reachable' /\ Unstored'
      /\ \A s \in Positions : Whole(s)' = Whole(s)
      /\ \A i \in Ids, m \in Positions : EndsAt(i, m)' = EndsAt(i, m)
  BY <1>2, TableUntouched
<1>9. \A s \in Positions : Whole(s)
  BY <1>2, IdAssumption DEF IdInv, FreshEntries
<1>10. FreshEntries'
  BY <1>8, <1>9 DEF FreshEntries
<1>11. PutProgress'
  <2>1. \A u \in IdThreads : op'[u].at \in Putting => u = t
    BY <1>1, <1>7 DEF IdLock
  <2>2. EndsAt(id, n)' /\ Whole(IdProbe(id, n))'
    BY <1>1, <1>3, <1>8, <1>9
  <2> QED
    BY <1>4, <1>5, <2>1, <2>2 DEF PutProgress, IdProbe
<1>12. CopyProgress'
  BY <1>2, <1>7 DEF IdLock, CopyProgress
<1>13. InfoIsLatest'
  BY <1>4, <1>5 DEF IdInv, InfoIsLatest
<1> QED
  BY <1>6, <1>7, <1>8, <1>10, <1>11, <1>12, <1>13 DEF IdInv

\* The slot of a put: the end of the search for its id, in use for that id or free.
LEMMA WriterSlot ==
  ASSUME IdInv, NEW t \in IdThreads, op[t].at \in Putting
  PROVE  /\ op[t] \in PutOps /\ op[t].slot \in Positions /\ op[t].id \in Ids
         /\ writer = t /\ holders = {}
         /\ \E n \in Positions : EndsAt(op[t].id, n) /\ IdProbe(op[t].id, n) = op[t].slot
         /\ table[op[t].slot].used => table[op[t].slot].id = op[t].id
         /\ \A s \in Positions : table[s].used /\ table[s].id = op[t].id => s = op[t].slot
<1>1. op[t] \in IdOps
  BY DEF IdInv, IdTypes
<1>2. op[t] \in PutOps
  BY <1>1 DEF IdOps, PutOps, SigOps, ClazzOps, GotOps, Idle, Putting
<1>3. op[t].slot \in Positions /\ op[t].id \in Ids
  BY <1>2 DEF PutOps
<1>4. writer = t /\ holders = {}
  BY IdAssumption DEF IdInv, IdLock
<1>5. PICK n \in Positions : EndsAt(op[t].id, n) /\ IdProbe(op[t].id, n) = op[t].slot
  BY <1>3 DEF IdInv, PutProgress
<1>6. table[op[t].slot].used => table[op[t].slot].id = op[t].id
  BY <1>5 DEF EndsAt
<1>7. ASSUME NEW s \in Positions, table[s].used, table[s].id = op[t].id
      PROVE  s = op[t].slot
  <2>1. PICK m \in Positions : EndsAt(op[t].id, m) /\ IdProbe(op[t].id, m) = s
    BY <1>7 DEF IdInv, Reachable
  <2> QED
    BY <1>3, <1>5, <2>1, EndIsOne
<1> QED
  BY <1>2, <1>3, <1>4, <1>5, <1>6, <1>7

\* While a put fills its slot, searches end where they ended.
LEMMA SearchesKept ==
  ASSUME IdInv, UNCHANGED stored,
         \A s \in Positions : /\ table'[s].used = table[s].used
                              /\ table[s].used => table'[s].id = table[s].id
  PROVE  /\ Reachable' /\ Unstored'
         /\ \A id \in Ids, n \in Positions : EndsAt(id, n) => EndsAt(id, n)'
<1>1. \A id \in Ids, n \in Positions : EndsAt(id, n) => EndsAt(id, n)'
  BY EndsKept DEF IdInv
<1>2. Reachable'
  <2>1. Reachable
    BY DEF IdInv
  <2> SUFFICES ASSUME NEW s \in Positions, table'[s].used
               PROVE  /\ table'[s].id \in Ids
                      /\ \E n \in Positions : EndsAt(table[s].id, n)' /\ IdProbe(table'[s].id, n) = s
    BY DEF Reachable, IdProbe
  <2>2. table[s].used /\ table'[s].id = table[s].id
    OBVIOUS
  <2>3. PICK id \in Ids, n \in Positions : id = table[s].id /\ EndsAt(id, n) /\ IdProbe(id, n) = s
    BY <2>1, <2>2 DEF Reachable
  <2>4. EndsAt(id, n)'
    BY <1>1, <2>3
  <2>5. id = table'[s].id
    BY <2>2, <2>3
  <2>6. EndsAt(table[s].id, n)' <=> EndsAt(id, n)'
    BY <2>5 DEF EndsAt, IdProbe
  <2> QED
    BY <2>3, <2>4, <2>5, <2>6
<1>3. Unstored'
  BY DEF IdInv, Unstored
<1> QED
  BY <1>1, <1>2, <1>3

\* Writing id and name into the slot keeps it: nobody reads meanwhile.
LEMMA PutNameStep ==
  ASSUME IdInv, NEW t \in IdThreads, PutName(t)
  PROVE  IdInv'
<1> DEFINE o == [op[t] EXCEPT !.at = "clazz"]
           p == op[t].slot
           e == [table[p] EXCEPT !.id = op[t].id, !.name = op[t].text]
<1>1. op[t].at = "name" /\ op[t].at \in Putting
  BY DEF PutName, Putting
<1>2. /\ op[t] \in PutOps /\ p \in Positions /\ op[t].id \in Ids
      /\ writer = t /\ holders = {}
      /\ table[p].used => table[p].id = op[t].id
      /\ \A s \in Positions : table[s].used /\ table[s].id = op[t].id => s = p
  BY <1>1, WriterSlot
<1>3. UNCHANGED <<holders, writer, stored>> /\ Go(t, o)
  BY DEF PutName
<1>4. table[p] \in EntryRecs
  BY <1>2 DEF IdInv, IdTypes
<1>5. table' = [table EXCEPT ![p] = e]
  BY <1>2, <1>4 DEF PutName, IdInv, IdTypes, EntryRecs
<1>6. /\ e \in EntryRecs
      /\ e.id = op[t].id /\ e.name = op[t].text /\ e.sig = table[p].sig
      /\ e.clazz = table[p].clazz /\ e.used = table[p].used
  BY <1>2, <1>4 DEF EntryRecs, PutOps, MaybeText
<1>7. /\ o \in IdOps /\ o.at = "clazz" /\ o.slot = p /\ o.id = op[t].id
      /\ o.text = op[t].text /\ o.clazz = op[t].clazz
  BY <1>2 DEF IdOps, PutOps
<1> HIDE DEF o, e
<1>8. /\ op' \in [IdThreads -> IdOps] /\ op'[t] = o
      /\ \A u \in IdThreads : u # t => op'[u] = op[u]
  BY <1>3, <1>7, OthersKeep
<1>9. /\ table' \in [Positions -> EntryRecs] /\ table'[p] = e
      /\ \A s \in Positions : s # p => table'[s] = table[s]
  BY <1>2, <1>5, <1>6 DEF IdInv, IdTypes
<1> HIDE DEF p
<1>10. IdTypes'
  BY <1>3, <1>8, <1>9 DEF IdInv, IdTypes
<1>11. IdLock'
  BY <1>1, <1>3, <1>7, <1>8 DEF IdInv, IdLock, Putting, Copying
<1>12. /\ Reachable' /\ Unstored'
       /\ \A id \in Ids, n \in Positions : EndsAt(id, n) => EndsAt(id, n)'
  BY <1>2, <1>3, <1>6, <1>9, SearchesKept
<1>13. \A s \in Positions : s # p => Whole(s)' = Whole(s)
  BY <1>3, <1>9 DEF Whole
<1>14. FreshEntries'
  <2>1. \A s \in Positions : s # p => Whole(s)
    BY <1>2, <1>3 DEF IdInv, FreshEntries, p
  <2> QED
    BY <1>2, <1>3, <1>7, <1>8, <1>13, <2>1 DEF FreshEntries
<1>15. PutProgress'
  <2>1. \A u \in IdThreads : op'[u].at \in Putting => u = t
    BY <1>2, <1>3, <1>11 DEF IdLock
  <2>2. PICK n \in Positions : EndsAt(op[t].id, n) /\ IdProbe(op[t].id, n) = p
    BY <1>1, WriterSlot DEF p
  <2>3. EndsAt(op[t].id, n) => \E id \in Ids : id = op[t].id /\ EndsAt(id, n)'
    BY <1>2, <1>12
  <2>4. Whole(p)
    BY <1>1, <1>2 DEF IdInv, PutProgress, p
  <2>5. table[p].used => table[p].clazz = stored[op[t].id].clazz
    BY <1>2, <2>4 DEF Whole
  <2> QED
    BY <1>3, <1>6, <1>7, <1>8, <1>9, <2>1, <2>2, <2>3, <2>5 DEF PutProgress, IdProbe
<1>16. CopyProgress'
  BY <1>2, <1>3, <1>11 DEF IdLock, CopyProgress
<1>17. InfoIsLatest'
  BY <1>7, <1>8 DEF IdInv, InfoIsLatest
<1> QED
  BY <1>10, <1>11, <1>12, <1>14, <1>15, <1>16, <1>17 DEF IdInv

\* Writing the class, or keeping the old one, keeps it.
LEMMA PutClazzStep ==
  ASSUME IdInv, NEW t \in IdThreads, PutClazz(t)
  PROVE  IdInv'
<1> DEFINE o == [op[t] EXCEPT !.at = "sig"]
           p == op[t].slot
           c == IF op[t].clazz # NoText THEN op[t].clazz
                ELSE IF table[p].used THEN table[p].clazz ELSE NoText
           e == [table[p] EXCEPT !.clazz = c]
<1>1. op[t].at = "clazz" /\ op[t].at \in Putting /\ op[t].at # "name"
  BY DEF PutClazz, Putting
<1>2. /\ op[t] \in PutOps /\ p \in Positions /\ op[t].id \in Ids
      /\ writer = t /\ holders = {}
      /\ table[p].used => table[p].id = op[t].id
      /\ \A s \in Positions : table[s].used /\ table[s].id = op[t].id => s = p
  BY <1>1, WriterSlot
<1>3. UNCHANGED <<holders, writer, stored>> /\ Go(t, o)
  BY DEF PutClazz
<1>4. table[p] \in EntryRecs
  BY <1>2 DEF IdInv, IdTypes
<1>5. table' = [table EXCEPT ![p] = e]
  BY <1>2, <1>4 DEF PutClazz, IdInv, IdTypes, EntryRecs
<1>6. /\ e \in EntryRecs
      /\ e.id = table[p].id /\ e.name = table[p].name /\ e.sig = table[p].sig
      /\ e.clazz = c /\ e.used = table[p].used
  BY <1>2, <1>4 DEF EntryRecs, PutOps, MaybeText
<1>7. /\ o \in IdOps /\ o.at = "sig" /\ o.slot = p /\ o.id = op[t].id
      /\ o.text = op[t].text /\ o.clazz = op[t].clazz
  BY <1>2 DEF IdOps, PutOps
<1>8. c = IF op[t].clazz = NoText THEN stored[op[t].id].clazz ELSE op[t].clazz
  <2>1. CASE op[t].clazz # NoText
    BY <2>1
  <2>2. CASE op[t].clazz = NoText /\ table[p].used
    <3>1. table[p].clazz = stored[op[t].id].clazz
      BY <1>1, <1>2, <2>2 DEF IdInv, PutProgress
    <3> QED
      BY <2>2, <3>1
  <2>3. CASE op[t].clazz = NoText /\ ~table[p].used
    <3>1. stored[op[t].id] = Nothing
      BY <1>2, <2>3 DEF IdInv, Unstored
    <3> QED
      BY <2>3, <3>1 DEF Nothing
  <2> QED
    BY <2>1, <2>2, <2>3
<1> HIDE DEF o, e, c
<1>9. /\ op' \in [IdThreads -> IdOps] /\ op'[t] = o
      /\ \A u \in IdThreads : u # t => op'[u] = op[u]
  BY <1>3, <1>7, OthersKeep
<1>10. /\ table' \in [Positions -> EntryRecs] /\ table'[p] = e
       /\ \A s \in Positions : s # p => table'[s] = table[s]
  BY <1>2, <1>5, <1>6 DEF IdInv, IdTypes
<1> HIDE DEF p
<1>11. IdTypes'
  BY <1>3, <1>9, <1>10 DEF IdInv, IdTypes
<1>12. IdLock'
  BY <1>1, <1>3, <1>7, <1>9 DEF IdInv, IdLock, Putting, Copying
<1>13. /\ Reachable' /\ Unstored'
       /\ \A id \in Ids, n \in Positions : EndsAt(id, n) => EndsAt(id, n)'
  BY <1>2, <1>3, <1>6, <1>10, SearchesKept
<1>14. FreshEntries'
  <2>1. \A s \in Positions : s # p => Whole(s)
    BY <1>2, <1>3 DEF IdInv, FreshEntries, p
  <2>2. \A s \in Positions : s # p => Whole(s)' = Whole(s)
    BY <1>3, <1>10 DEF Whole
  <2> QED
    BY <1>2, <1>3, <1>7, <1>9, <2>1, <2>2 DEF FreshEntries
<1>15. PutProgress'
  <2>1. \A u \in IdThreads : op'[u].at \in Putting => u = t
    BY <1>2, <1>3, <1>12 DEF IdLock
  <2>2. PICK n \in Positions : EndsAt(op[t].id, n) /\ IdProbe(op[t].id, n) = p
    BY <1>1, WriterSlot DEF p
  <2>3. EndsAt(op[t].id, n) => \E id \in Ids : id = op[t].id /\ EndsAt(id, n)'
    BY <1>2, <1>13
  <2>4. table[p].id = op[t].id /\ table[p].name = op[t].text
    BY <1>1, <1>2 DEF IdInv, PutProgress, p
  <2> QED
    BY <1>3, <1>6, <1>7, <1>8, <1>9, <1>10, <2>1, <2>2, <2>3, <2>4 DEF PutProgress, IdProbe
<1>16. CopyProgress'
  BY <1>2, <1>3, <1>12 DEF IdLock, CopyProgress
<1>17. InfoIsLatest'
  BY <1>7, <1>9 DEF IdInv, InfoIsLatest
<1> QED
  BY <1>11, <1>12, <1>13, <1>14, <1>15, <1>16, <1>17 DEF IdInv

\* Writing the signature and setting `used` makes the entry whole again, and the lock
\* free.
LEMMA PutSigStep ==
  ASSUME IdInv, NEW t \in IdThreads, PutSig(t)
  PROVE  IdInv'
<1>0. op[t].at = "sig" /\ op[t].at \in Putting /\ op[t].at # "name"
  BY DEF PutSig, Putting
<1>1. PICK i \in Ids : i = op[t].id
  BY <1>0, WriterSlot
<1> DEFINE p == op[t].slot
           e == [table[p] EXCEPT !.sig = op[t].text, !.used = TRUE]
           w == [name |-> op[t].text, sig |-> op[t].text,
                 clazz |-> IF op[t].clazz = NoText THEN stored[i].clazz ELSE op[t].clazz]
<1>2. /\ op[t] \in PutOps /\ p \in Positions /\ i \in Ids
      /\ writer = t /\ holders = {}
      /\ table[p].used => table[p].id = i
      /\ \A s \in Positions : table[s].used /\ table[s].id = i => s = p
  BY <1>0, <1>1, WriterSlot
<1>3. PICK n \in Positions : EndsAt(i, n) /\ IdProbe(i, n) = p
  BY <1>0, <1>1, WriterSlot
<1>4. UNCHANGED holders /\ writer' = NoThread /\ Go(t, Idle)
  BY DEF PutSig
<1>5. table[p] \in EntryRecs /\ stored[i] \in Info
  BY <1>1, <1>2 DEF IdInv, IdTypes
<1>6. table' = [table EXCEPT ![p] = e]
  BY <1>1, <1>2, <1>5 DEF PutSig, IdInv, IdTypes, EntryRecs
<1>7. stored' = [stored EXCEPT ![i] = w]
  BY <1>1, <1>2, <1>5 DEF PutSig, IdInv, IdTypes
<1>8. /\ table[p].id = i /\ table[p].name = op[t].text
      /\ table[p].clazz = IF op[t].clazz = NoText THEN stored[i].clazz ELSE op[t].clazz
  BY <1>0, <1>1, <1>2 DEF IdInv, PutProgress
<1>9. /\ e \in EntryRecs
      /\ e.id = i /\ e.used
      /\ [name |-> e.name, sig |-> e.sig, clazz |-> e.clazz] = w
  <2>1. e \in EntryRecs
    BY <1>2, <1>5 DEF EntryRecs, PutOps, MaybeText
  <2>2. e.id = i /\ e.name = op[t].text /\ e.sig = op[t].text /\ e.clazz = table[p].clazz
    BY <1>5, <1>8 DEF EntryRecs
  <2>3. e.used
    BY <1>5 DEF EntryRecs
  <2> QED
    BY <1>8, <2>1, <2>2, <2>3
<1>10. w \in Info
  BY <1>2, <1>5 DEF Info, PutOps, MaybeText
<1>11. Idle \in IdOps /\ Idle.at = "idle"
  BY DEF IdOps, Idle
<1>12. /\ op' \in [IdThreads -> IdOps] /\ op'[t] = Idle
       /\ \A u \in IdThreads : u # t => op'[u] = op[u]
  BY <1>4, <1>11, OthersKeep
<1> HIDE DEF e, w
<1>13. /\ table' \in [Positions -> EntryRecs] /\ table'[p] = e
       /\ \A s \in Positions : s # p => table'[s] = table[s]
  BY <1>2, <1>6, <1>9 DEF IdInv, IdTypes
<1>14. /\ stored' \in [Ids -> Info] /\ stored'[i] = w
       /\ \A id \in Ids : id # i => stored'[id] = stored[id]
  BY <1>2, <1>7, <1>10 DEF IdInv, IdTypes
<1> HIDE DEF p
<1>15. IdTypes'
  BY <1>4, <1>12, <1>13, <1>14 DEF IdInv, IdTypes
<1>16. IdLock'
  BY <1>0, <1>2, <1>4, <1>11, <1>12, IdAssumption DEF IdInv, IdLock, Putting, Copying
\* A search that ended elsewhere does not pass the slot, or passed it in use.
<1>17. ASSUME NEW id \in Ids, NEW m \in Positions, EndsAt(id, m), IdProbe(id, m) # p
       PROVE  EndsAt(id, m)'
  <2>1. \A k \in 0 .. m : k \in Positions /\ IdProbe(id, k) \in Positions
    BY ProbeInTable, IdAssumption DEF Positions
  <2>2. m \in Nat /\ m \in 0 .. m /\ \A k \in 0 .. m - 1 : k \in 0 .. m
    BY IdAssumption DEF Positions
  <2>3. ASSUME NEW k \in 0 .. m - 1
        PROVE  table'[IdProbe(id, k)].used /\ table'[IdProbe(id, k)].id # id
    <3>1. table[IdProbe(id, k)].used /\ table[IdProbe(id, k)].id # id
      BY <1>17 DEF EndsAt
    <3> QED
      BY <1>8, <1>9, <1>13, <2>1, <2>2, <3>1 DEF p
  <2>4. ~table'[IdProbe(id, m)].used \/ table'[IdProbe(id, m)].id = id
    BY <1>13, <1>17, <2>1, <2>2 DEF EndsAt
  <2>5. EndsAt(id, m)' <=>
          /\ ~table'[IdProbe(id, m)].used \/ table'[IdProbe(id, m)].id = id
          /\ \A k \in 0 .. m - 1 : ~(~table'[IdProbe(id, k)].used \/ table'[IdProbe(id, k)].id = id)
    BY DEF EndsAt, IdProbe
  <2> QED
    BY <2>3, <2>4, <2>5
<1>18. EndsAt(i, n)'
  <2>1. \A k \in 0 .. n : k \in Positions /\ IdProbe(i, k) \in Positions
    BY <1>2, ProbeInTable, IdAssumption DEF Positions
  <2>2. n \in Nat /\ n \in 0 .. n /\ \A k \in 0 .. n - 1 : k \in 0 .. n
    BY IdAssumption DEF Positions
  <2>3. \A k \in 0 .. n - 1 : table[IdProbe(i, k)].used /\ table[IdProbe(i, k)].id # i
    BY <1>3 DEF EndsAt
  <2>4. \A k \in 0 .. n - 1 : table'[IdProbe(i, k)] = table[IdProbe(i, k)]
    BY <1>8, <1>13, <2>1, <2>2, <2>3 DEF p
  <2>5. table'[IdProbe(i, n)].id = i
    BY <1>3, <1>9, <1>13
  <2> QED
    BY <2>3, <2>4, <2>5 DEF EndsAt, IdProbe
<1>19. Reachable'
  <2> SUFFICES ASSUME NEW s \in Positions, table'[s].used
               PROVE  \E id \in Ids : /\ table'[s].id = id
                                      /\ \E m \in Positions : EndsAt(id, m)' /\ IdProbe(id, m) = s
    BY DEF Reachable, EndsAt, IdProbe
  <2>1. CASE s = p
    BY <1>2, <1>3, <1>9, <1>13, <1>18, <2>1
  <2>2. CASE s # p
    <3>1. table'[s] = table[s]
      BY <1>13, <2>2
    <3>2. PICK id \in Ids, m \in Positions : table[s].id = id /\ EndsAt(id, m) /\ IdProbe(id, m) = s
      BY <3>1 DEF IdInv, Reachable
    <3> QED
      BY <1>17, <2>2, <3>1, <3>2
  <2> QED
    BY <2>1, <2>2
<1>20. Unstored'
  <2> SUFFICES ASSUME NEW id \in Ids, \A s \in Positions : table'[s].used => table'[s].id # id
               PROVE  stored'[id] = Nothing
    BY DEF Unstored
  <2>1. id # i
    BY <1>2, <1>9, <1>13
  <2>2. \A s \in Positions : table[s].used => table[s].id # id
    BY <1>2, <1>13, <2>1
  <2> QED
    BY <1>14, <2>1, <2>2 DEF IdInv, Unstored
<1>21. FreshEntries'
  <2> SUFFICES ASSUME NEW s \in Positions PROVE Whole(s)'
    BY DEF FreshEntries
  <2>1. CASE s = p
    BY <1>2, <1>9, <1>13, <1>14, <2>1 DEF Whole
  <2>2. CASE s # p
    <3>1. Whole(s)
      BY <1>2, <2>2 DEF IdInv, FreshEntries, p
    <3>2. table[s].used => table[s].id \in Ids /\ table[s].id # i
      BY <1>2, <2>2 DEF IdInv, Reachable
    <3> QED
      BY <1>13, <1>14, <2>2, <3>1, <3>2 DEF Whole
  <2> QED
    BY <2>1, <2>2
<1>22. PutProgress'
  BY <1>4, <1>16, IdAssumption DEF IdLock, PutProgress
<1>23. CopyProgress'
  BY <1>2, <1>4, <1>16 DEF IdLock, CopyProgress
<1>24. InfoIsLatest'
  BY <1>11, <1>12 DEF IdInv, InfoIsLatest
<1> QED
  BY <1>15, <1>16, <1>19, <1>20, <1>21, <1>22, <1>23, <1>24 DEF IdInv

\* A reader copies under the shared lock, so no writer is inside and its entry is whole.
LEMMA ReaderAlone ==
  ASSUME IdInv, NEW t \in IdThreads, op[t].at \in Copying
  PROVE  /\ op[t] \in SigOps \cup ClazzOps
         /\ writer = NoThread /\ t \in holders
         /\ op[t].slot \in Positions /\ op[t].id \in Ids
         /\ Whole(op[t].slot)
<1>1. op[t] \in IdOps
  BY DEF IdInv, IdTypes
<1>2. op[t] \in SigOps \cup ClazzOps
  BY <1>1 DEF IdOps, PutOps, SigOps, ClazzOps, GotOps, Idle, Copying
<1>3. op[t].slot \in Positions /\ op[t].id \in Ids
  BY <1>2 DEF SigOps, ClazzOps
<1>4. writer = NoThread /\ t \in holders
  BY DEF IdInv, IdLock
<1> QED
  BY <1>2, <1>3, <1>4, IdAssumption DEF IdInv, FreshEntries

\* Steps of readers, each given by the operation t is in afterwards.
LEMMA ReaderStep ==
  ASSUME IdInv, NEW t \in IdThreads, NEW o \in IdOps, Go(t, o),
         UNCHANGED <<table, writer, stored>>,
         op[t].at \notin Putting, o.at \notin Putting,
         holders' \in SUBSET IdThreads,
         \A u \in IdThreads : u # t => (u \in holders' <=> u \in holders),
         t \in holders' <=> o.at \in Copying,
         writer # NoThread => holders' = {},
         o.at \in Copying => /\ table[o.slot].used /\ table[o.slot].id = o.id
                             /\ o.name = stored[o.id].name
                             /\ o.at = "copy_clazz" => o.sig = stored[o.id].sig,
         o.at = "got" => o.info = o.latest
  PROVE  IdInv'
<1>1. /\ op' \in [IdThreads -> IdOps] /\ op'[t] = o
      /\ \A u \in IdThreads : u # t => op'[u] = op[u]
  BY OthersKeep
<1>2. IdTypes'
  BY <1>1 DEF IdInv, IdTypes
<1>3. IdLock'
  BY <1>1 DEF IdInv, IdLock
<1>4. /\ Reachable' /\ Unstored'
      /\ \A s \in Positions : Whole(s)' = Whole(s)
      /\ \A id \in Ids, n \in Positions : EndsAt(id, n)' = EndsAt(id, n)
  BY TableUntouched
<1>5. FreshEntries'
  <2> SUFFICES ASSUME NEW s \in Positions, writer \in IdThreads => op'[writer].slot # s
               PROVE  Whole(s)
    BY <1>4 DEF FreshEntries
  <2>1. writer # t
    BY IdAssumption DEF IdInv, IdLock
  <2>2. writer \in IdThreads => op[writer].slot # s
    BY <1>1, <2>1
  <2> QED
    BY <2>2 DEF IdInv, FreshEntries
<1>6. PutProgress'
  <2> SUFFICES ASSUME NEW u \in IdThreads, NEW id \in Ids, NEW s \in Positions,
                      op'[u].at \in Putting /\ op'[u].id = id /\ op'[u].slot = s
               PROVE  /\ \E n \in Positions : EndsAt(id, n) /\ IdProbe(id, n) = s
                      /\ op'[u].at = "name" => Whole(s)
                      /\ op'[u].at # "name" => table[s].id = id /\ table[s].name = op'[u].text
                      /\ op'[u].at = "clazz" /\ table[s].used => table[s].clazz = stored[id].clazz
                      /\ op'[u].at = "sig" => table[s].clazz = IF op'[u].clazz = NoText THEN stored[id].clazz
                                                               ELSE op'[u].clazz
    BY <1>4 DEF PutProgress, IdProbe
  <2>1. op'[u] = op[u]
    BY <1>1
  <2> QED
    BY <2>1 DEF IdInv, PutProgress
<1>7. CopyProgress'
  <2>1. \A u \in IdThreads : u # t => op'[u] = op[u]
    BY <1>1
  <2> QED
    BY <1>1, <2>1 DEF IdInv, CopyProgress
<1>8. InfoIsLatest'
  BY <1>1 DEF IdInv, InfoIsLatest
<1> QED
  BY <1>2, <1>3, <1>4, <1>5, <1>6, <1>7, <1>8 DEF IdInv

\* Finding the entry and copying the name keeps the invariant.
LEMMA BeginGetStep ==
  ASSUME IdInv, NEW t \in IdThreads, NEW id \in Ids, BeginGet(t, id)
  PROVE  IdInv'
<1>1. PICK n \in Positions :
        /\ Found(id, n)
        /\ Go(t, [at |-> "copy_sig", id |-> id, slot |-> IdProbe(id, n), name |-> table[IdProbe(id, n)].name])
  BY DEF BeginGet
<1> DEFINE p == IdProbe(id, n)
           o == [at |-> "copy_sig", id |-> id, slot |-> p, name |-> table[p].name]
<1>2. /\ op[t].at = "idle" /\ writer = NoThread /\ holders' = holders \cup {t}
      /\ UNCHANGED <<table, writer, stored>>
  BY DEF BeginGet, CanRead
<1>3. p \in Positions
  BY ProbeInTable
<1>4. table[p].used /\ table[p].id = id /\ table[p] \in EntryRecs
  BY <1>1, <1>3 DEF Found, EndsAt, IdInv, IdTypes
<1>5. Whole(p)
  BY <1>2, <1>3, IdAssumption DEF IdInv, FreshEntries
<1>6. table[p].name = stored[id].name
  BY <1>4, <1>5 DEF Whole
<1>7. o \in IdOps /\ o.at = "copy_sig" /\ o.slot = p /\ o.id = id /\ o.name = table[p].name
  BY <1>3, <1>4 DEF IdOps, SigOps, EntryRecs
<1>8. Go(t, o)
  BY <1>1
<1> HIDE DEF o, p
<1>9. holders' \in SUBSET IdThreads
  BY <1>2 DEF IdInv, IdTypes
<1> QED
  BY <1>2, <1>4, <1>6, <1>7, <1>8, <1>9, ReaderStep DEF Putting, Copying

\* Copying the signature keeps it.
LEMMA CopySigStep ==
  ASSUME IdInv, NEW t \in IdThreads, CopySig(t)
  PROVE  IdInv'
<1> DEFINE p == op[t].slot
           o == [at |-> "copy_clazz", id |-> op[t].id, slot |-> p, name |-> op[t].name, sig |-> table[p].sig]
<1>1. op[t].at = "copy_sig" /\ UNCHANGED <<table, holders, writer, stored>> /\ Go(t, o)
  BY DEF CopySig
<1>2. /\ op[t] \in SigOps /\ writer = NoThread /\ t \in holders
      /\ p \in Positions /\ op[t].id \in Ids /\ Whole(p)
  <2>1. op[t].at \in Copying
    BY <1>1 DEF Copying
  <2> QED
    BY <1>1, <2>1, ReaderAlone DEF ClazzOps
<1>3. table[p].used /\ table[p].id = op[t].id /\ op[t].name = stored[op[t].id].name
  BY <1>1 DEF IdInv, CopyProgress, Copying
<1>4. table[p].sig = stored[op[t].id].sig
  BY <1>2, <1>3 DEF Whole
<1>5. table[p] \in EntryRecs
  BY <1>2 DEF IdInv, IdTypes
<1>6. /\ o \in IdOps /\ o.at = "copy_clazz" /\ o.slot = p /\ o.id = op[t].id
      /\ o.name = op[t].name /\ o.sig = table[p].sig
  BY <1>2, <1>5 DEF IdOps, SigOps, ClazzOps, EntryRecs
<1> HIDE DEF o, p
<1>7. holders' \in SUBSET IdThreads
  BY <1>1 DEF IdInv, IdTypes
<1> QED
  BY <1>1, <1>2, <1>3, <1>4, <1>6, <1>7, ReaderStep DEF Putting, Copying

\* Copying the class and releasing the lock keeps it, and the copy is what was stored.
LEMMA CopyClazzStep ==
  ASSUME IdInv, NEW t \in IdThreads, CopyClazz(t)
  PROVE  IdInv'
<1> DEFINE p == op[t].slot
           i == [name |-> op[t].name, sig |-> op[t].sig, clazz |-> table[p].clazz]
           o == [at |-> "got", id |-> op[t].id, info |-> i, latest |-> stored[op[t].id]]
<1>1. /\ op[t].at = "copy_clazz" /\ holders' = holders \ {t}
      /\ UNCHANGED <<table, writer, stored>> /\ Go(t, o)
  BY DEF CopyClazz
<1>2. /\ op[t] \in ClazzOps /\ writer = NoThread /\ t \in holders
      /\ p \in Positions /\ op[t].id \in Ids /\ Whole(p)
  <2>1. op[t].at \in Copying
    BY <1>1 DEF Copying
  <2> QED
    BY <1>1, <2>1, ReaderAlone DEF SigOps
<1>3. /\ table[p].used /\ table[p].id = op[t].id
      /\ op[t].name = stored[op[t].id].name /\ op[t].sig = stored[op[t].id].sig
  BY <1>1 DEF IdInv, CopyProgress, Copying
<1>4. [name |-> table[p].name, sig |-> table[p].sig, clazz |-> table[p].clazz] = stored[op[t].id]
  BY <1>2, <1>3 DEF Whole
<1>5. i = stored[op[t].id]
  BY <1>3, <1>4
<1>6. stored[op[t].id] \in Info
  BY <1>2 DEF IdInv, IdTypes
<1>7. o \in IdOps /\ o.at = "got" /\ o.info = o.latest
  BY <1>2, <1>5, <1>6 DEF IdOps, GotOps
<1> HIDE DEF o, p
<1>8. holders' \in SUBSET IdThreads
  BY <1>1 DEF IdInv, IdTypes
<1> QED
  BY <1>1, <1>2, <1>7, <1>8, ReaderStep DEF Putting, Copying

\* A search that finds no entry is right: nothing was ever stored under the id.
LEMMA GetMissStep ==
  ASSUME IdInv, NEW t \in IdThreads, NEW id \in Ids, GetMiss(t, id)
  PROVE  IdInv'
<1> DEFINE o == [at |-> "got", id |-> id, info |-> Nothing, latest |-> stored[id]]
<1>1. /\ op[t].at = "idle" /\ \A n \in Positions : ~Found(id, n)
      /\ Go(t, o) /\ UNCHANGED <<table, holders, writer, stored>>
  BY DEF GetMiss
<1>2. ASSUME NEW s \in Positions, table[s].used, table[s].id = id
      PROVE  FALSE
  <2>1. PICK n \in Positions : EndsAt(id, n) /\ IdProbe(id, n) = s
    BY <1>2 DEF IdInv, Reachable
  <2> QED
    BY <1>1, <1>2, <2>1 DEF Found
<1>3. stored[id] = Nothing
  BY <1>2 DEF IdInv, Unstored
<1>4. stored[id] \in Info
  BY DEF IdInv, IdTypes
<1>5. o \in IdOps /\ o.at = "got" /\ o.info = o.latest
  BY <1>3, <1>4 DEF IdOps, GotOps
<1> HIDE DEF o
<1>6. holders' \in SUBSET IdThreads /\ (writer # NoThread => holders' = {})
  BY <1>1 DEF IdInv, IdTypes, IdLock
<1>7. t \notin holders
  BY <1>1 DEF IdInv, IdLock, Copying
<1> QED
  BY <1>1, <1>5, <1>6, <1>7, ReaderStep DEF Putting, Copying

\* A hook that is done with its copy disturbs nothing.
LEMMA UseStep ==
  ASSUME IdInv, NEW t \in IdThreads, Use(t)
  PROVE  IdInv'
<1>1. op[t].at = "got" /\ Go(t, Idle) /\ UNCHANGED <<table, holders, writer, stored>>
  BY DEF Use
<1>2. Idle \in IdOps /\ Idle.at = "idle"
  BY DEF IdOps, Idle
<1>3. holders' \in SUBSET IdThreads /\ (writer # NoThread => holders' = {})
  BY <1>1 DEF IdInv, IdTypes, IdLock
<1>4. t \notin holders
  BY <1>1 DEF IdInv, IdLock, Copying
<1> QED
  BY <1>1, <1>2, <1>3, <1>4, ReaderStep DEF Putting, Copying

\* Steps of others keep it.
LEMMA IdStuttering ==
  ASSUME IdInv, UNCHANGED idVars
  PROVE  IdInv'
<1> USE DEF idVars
<1>1. /\ Reachable' /\ Unstored'
      /\ \A s \in Positions : Whole(s)' = Whole(s)
      /\ \A id \in Ids, n \in Positions : EndsAt(id, n)' = EndsAt(id, n)
  BY TableUntouched
<1>2. IdTypes' /\ IdLock'
  BY DEF IdInv, IdTypes, IdLock
<1>3. FreshEntries'
  BY <1>1 DEF IdInv, FreshEntries
<1>4. PutProgress'
  BY <1>1 DEF IdInv, PutProgress, IdProbe
<1>5. CopyProgress' /\ InfoIsLatest'
  BY DEF IdInv, CopyProgress, InfoIsLatest
<1> QED
  BY <1>1, <1>2, <1>3, <1>4, <1>5 DEF IdInv

\* The id cache keeps its invariant for any table size and any hash: the lock and the
\* threads in it agree, probing reaches every used entry, and whoever is inside the lock
\* sees or has written a prefix of what was stored (cache_method_signature,
\* lookup_method_info).
THEOREM IdInvariant == IdSpec => []IdInv
<1>1. IdInit => IdInv
  BY IdInitial
<1>2. IdInv /\ [IdNext]_idVars => IdInv'
  <2> SUFFICES ASSUME IdInv, [IdNext]_idVars PROVE IdInv'
    OBVIOUS
  <2>1. ASSUME NEW t \in IdThreads, NEW id \in Ids, NEW text \in Texts,
               NEW clazz \in Texts \cup {NoText}, BeginPut(t, id, text, clazz)
        PROVE  IdInv'
    BY <2>1, BeginPutStep DEF MaybeText
  <2>2. ASSUME NEW t \in IdThreads, NEW id \in Ids, PutFull(t, id)
        PROVE  IdInv'
    BY <2>2, IdStuttering DEF PutFull
  <2>3. ASSUME NEW t \in IdThreads, NEW id \in Ids, BeginGet(t, id)
        PROVE  IdInv'
    BY <2>3, BeginGetStep
  <2>4. ASSUME NEW t \in IdThreads, NEW id \in Ids, GetMiss(t, id)
        PROVE  IdInv'
    BY <2>4, GetMissStep
  <2>5. ASSUME NEW t \in IdThreads, PutName(t) \/ PutClazz(t) \/ PutSig(t)
        PROVE  IdInv'
    BY <2>5, PutNameStep, PutClazzStep, PutSigStep
  <2>6. ASSUME NEW t \in IdThreads, CopySig(t) \/ CopyClazz(t) \/ Use(t)
        PROVE  IdInv'
    BY <2>6, CopySigStep, CopyClazzStep, UseStep
  <2>7. CASE UNCHANGED idVars
    BY <2>7, IdStuttering
  <2> QED
    BY <2>1, <2>2, <2>3, <2>4, <2>5, <2>6, <2>7 DEF IdNext
<1> QED
  BY <1>1, <1>2, PTL DEF IdSpec

\* A hook prints a member under the name, signature and class last stored for its id, as
\* one whole, whatever other threads store meanwhile.
THEOREM CopiesAreWhole == IdSpec => []InfoIsLatest
<1>1. IdInv => InfoIsLatest
  BY DEF IdInv
<1> QED
  BY <1>1, IdInvariant, PTL
-----------------------------------------------------------------------------
(* The range set.                                                          *)

Pairs == Int \X Int
Holds(r, a) == a >= r[1] /\ a < r[2]
Held(rs, a) == \E i \in DOMAIN rs : Holds(rs[i], a)

\* What range_add does to a table that has room: it loses no address, gains only those of
\* the segment, and either holds all of them or is full.
LEMMA AddRangeResult ==
  ASSUME NEW rs \in Seq(Pairs), NEW s \in Pairs, Len(rs) <= MaxRanges
  PROVE  /\ AddRange(rs, s) \in Seq(Pairs)
         /\ Len(AddRange(rs, s)) >= Len(rs) /\ Len(AddRange(rs, s)) <= MaxRanges
         /\ \A a \in Int : Held(rs, a) => Held(AddRange(rs, s), a)
         /\ \/ \A a \in Int : Holds(s, a) => Held(AddRange(rs, s), a)
            \/ Len(AddRange(rs, s)) = MaxRanges
         /\ \A a \in Int : Held(AddRange(rs, s), a) => Holds(s, a) \/ Held(rs, a)
<1> DEFINE Near == {i \in DOMAIN rs : s[2] >= rs[i][1] /\ s[1] <= rs[i][2]}
           i == Min(Near)
           u == <<Smaller(s[1], rs[i][1]), Larger(s[2], rs[i][2])>>
<1> USE RangeAssumption
<1>0. /\ DOMAIN rs = 1 .. Len(rs) /\ Len(rs) \in Nat
      /\ \A k \in DOMAIN rs : rs[k] \in Pairs /\ rs[k][1] \in Int /\ rs[k][2] \in Int
      /\ s[1] \in Int /\ s[2] \in Int
  BY DEF Pairs
<1>1. CASE Near # {}
  <2>1. Near \in SUBSET Nat
    BY <1>0
  <2>2. i \in Near
    <3>1. \E x \in Near : \A y \in Near : x <= y
      BY <1>1, <2>1, LeastExists
    <3> QED
      BY <3>1, Zenon DEF Min
  <2> HIDE DEF i
  <2>3. i \in DOMAIN rs /\ s[2] >= rs[i][1] /\ s[1] <= rs[i][2]
    BY <2>2
  <2>4. AddRange(rs, s) = [rs EXCEPT ![i] = u]
    BY <1>1 DEF AddRange, i
  <2>5. u \in Pairs /\ u[1] = Smaller(s[1], rs[i][1]) /\ u[2] = Larger(s[2], rs[i][2])
    BY <1>0, <2>3 DEF Smaller, Larger, Pairs
  <2>6. u[1] <= s[1] /\ u[1] <= rs[i][1] /\ s[2] <= u[2] /\ rs[i][2] <= u[2]
    BY <1>0, <2>3, <2>5 DEF Smaller, Larger
  <2>7. \A a \in Int : Holds(u, a) => Holds(s, a) \/ Holds(rs[i], a)
    BY <1>0, <2>3, <2>5 DEF Smaller, Larger, Holds
  <2>8. \A a \in Int : Holds(s, a) \/ Holds(rs[i], a) => Holds(u, a)
    BY <1>0, <2>3, <2>5, <2>6 DEF Holds, Pairs
  <2> HIDE DEF u
  <2> DEFINE new == [rs EXCEPT ![i] = u]
  <2>9. /\ new \in Seq(Pairs) /\ Len(new) = Len(rs) /\ DOMAIN new = DOMAIN rs
        /\ new[i] = u /\ \A k \in DOMAIN rs : k # i => new[k] = rs[k]
    BY <1>0, <2>3, <2>5
  <2> HIDE DEF new
  <2>10. \A a \in Int : Held(rs, a) => Held(new, a)
    BY <2>8, <2>9 DEF Held
  <2>11. \A a \in Int : Holds(s, a) => Held(new, a)
    BY <2>3, <2>8, <2>9 DEF Held
  <2>12. \A a \in Int : Held(new, a) => Holds(s, a) \/ Held(rs, a)
    BY <2>3, <2>7, <2>9 DEF Held
  <2>13. AddRange(rs, s) = new
    BY <2>4 DEF new
  <2>14. Len(new) >= Len(rs) /\ Len(new) <= MaxRanges
    BY <1>0, <2>9
  <2> QED
    BY <2>9, <2>10, <2>11, <2>12, <2>13, <2>14, Zenon
<1>2. CASE Near = {} /\ Len(rs) < MaxRanges
  <2> DEFINE new == Append(rs, s)
  <2>1. AddRange(rs, s) = new
    BY <1>2 DEF AddRange
  <2>2. /\ new \in Seq(Pairs) /\ Len(new) = Len(rs) + 1 /\ DOMAIN new = 1 .. Len(rs) + 1
        /\ new[Len(rs) + 1] = s /\ \A k \in DOMAIN rs : new[k] = rs[k]
    BY <1>0
  <2> HIDE DEF new
  <2>3. Len(rs) + 1 \in DOMAIN new /\ \A k \in DOMAIN rs : k \in DOMAIN new
    BY <1>0, <2>2
  <2>4. \A k \in DOMAIN new : k = Len(rs) + 1 \/ k \in DOMAIN rs
    BY <1>0, <2>2
  <2>5. \A a \in Int : Held(rs, a) => Held(new, a)
    BY <2>2, <2>3 DEF Held
  <2>6. \A a \in Int : Holds(s, a) => Held(new, a)
    BY <2>2, <2>3 DEF Held
  <2>7. \A a \in Int : Held(new, a) => Holds(s, a) \/ Held(rs, a)
    BY <2>2, <2>4 DEF Held
  <2> QED
    <3>1. Len(new) >= Len(rs) /\ Len(new) <= MaxRanges
      BY <1>0, <1>2, <2>2
    <3> QED
      BY <2>1, <2>2, <2>5, <2>6, <2>7, <3>1, Zenon
<1>3. CASE Near = {} /\ ~(Len(rs) < MaxRanges)
  <2>1. AddRange(rs, s) = rs
    BY <1>3 DEF AddRange
  <2> HIDE DEF Near
  <2>3. PICK n \in Nat, m \in Nat : n = Len(rs) /\ m = MaxRanges /\ n <= m /\ ~(n < m)
    BY <1>0, <1>3
  <2>4. n >= n /\ n = m
    BY <2>3
  <2>2. Len(rs) >= Len(rs) /\ Len(rs) = MaxRanges
    BY <2>3, <2>4
  <2> QED
    BY <2>1, <2>2, Zenon
<1> QED
  BY <1>1, <1>2, <1>3

PlaceNames == {"idle", "name", "reset", "seed", "clear", "forget", "refresh", "snapshot",
               "scan", "maps", "mark", "protected"}
NameSet == {NoPackage} \cup (UNION {PathNames[lib] : lib \in Libs})
                       \cup {ProcessNames[p] : p \in DOMAIN ProcessNames}
WorkRecs == [name : NameSet, todo : SUBSET Libs, seen : SUBSET Libs]

RangeTypes ==
  /\ loaded \in SUBSET Libs
  /\ ranges \in Seq(Pairs) /\ Len(ranges) <= MaxRanges
  /\ package \in NameSet /\ cmdline \in NameSet
  /\ pid \in Nat \ {0} /\ pid \in DOMAIN ProcessNames
  /\ at \in [Loaders -> PlaceNames]
  /\ work \in [Loaders -> WorkRecs]

Covered(lib) == \A a \in Int : Holds(Segment[lib], a) => Held(ranges, a)
Retained(lib) == Covered(lib) \/ Len(ranges) = MaxRanges
Owned(a) == \E lib \in Libs : Holds(Segment[lib], a) /\ PathNames[lib] \cap taken # {}

\* Nothing clears the table of the first process.
NeverCleared == pid = 1 =>
  seedPid \in {0, 1} /\ \A t \in Loaders : at[t] \notin {"clear", "forget"}

\* Names in force were taken.
NamesTaken == pid = 1 =>
  /\ package \in taken \cup {NoPackage}
  /\ \A t \in Loaders : at[t] \in {"scan", "maps"} => work[t].name \in taken \cup {NoPackage}

RangesOwned == pid = 1 => \A a \in Int : Held(ranges, a) => Owned(a)

\* What a seed has visited so far is in the table.
Visited == pid = 1 => \A t \in Loaders : \A lib \in work[t].seen :
  lib # Payload /\ work[t].name \in PathNames[lib] =>
    /\ at[t] \in {"scan", "maps"} => lib \in work[t].todo \/ Retained(lib)
    /\ at[t] = "mark" => Retained(lib)

DueKept == pid = 1 => \A d \in due : d[1] \in Libs /\ d[1] # Payload /\ Retained(d[1])

RangeInv == RangeTypes /\ NeverCleared /\ NamesTaken /\ RangesOwned /\ Visited /\ DueKept
-----------------------------------------------------------------------------
\* Names of packages and of processes are names.
LEMMA NamesTyped ==
  /\ NoPackage \in NameSet
  /\ \A lib \in Libs : \A n \in PathNames[lib] : n \in NameSet
  /\ \A p \in DOMAIN ProcessNames : ProcessNames[p] \in NameSet
BY Zenon DEF NameSet

\* The addresses of a library are those its segment holds.
LEMMA AddressesAreHeld ==
  ASSUME NEW lib \in Libs
  PROVE  \A a : a \in Addresses(lib) <=> a \in Int /\ Holds(Segment[lib], a)
<1>1. Segment[lib][1] \in Int /\ Segment[lib][2] \in Int
  BY RangeAssumption
<1> QED
  BY <1>1 DEF Addresses, Holds

\* Segments are disjoint: an address lies in one library.
LEMMA OneLibrary ==
  ASSUME NEW l \in Libs, NEW m \in Libs, NEW a \in Int, Holds(Segment[l], a), Holds(Segment[m], a)
  PROVE  l = m
<1>1. \A k \in Libs : Segment[k][1] \in Int /\ Segment[k][2] \in Int
  BY RangeAssumption
<1> QED
  BY <1>1, RangeAssumption DEF Holds

\* The table only grows.
LEMMA KeptStays ==
  ASSUME RangeTypes, ranges' = ranges \/ \E s \in Pairs : ranges' = AddRange(ranges, s)
  PROVE  /\ ranges' \in Seq(Pairs) /\ Len(ranges') <= MaxRanges
         /\ \A lib \in Libs : Retained(lib) => Retained(lib)'
<1>1. ranges \in Seq(Pairs) /\ Len(ranges) <= MaxRanges /\ Len(ranges) \in Nat /\ MaxRanges \in Nat
  BY RangeAssumption DEF RangeTypes
<1>2. CASE ranges' = ranges
  BY <1>1, <1>2 DEF Retained, Covered, Held
<1>3. CASE \E s \in Pairs : ranges' = AddRange(ranges, s)
  <2>1. PICK s \in Pairs : ranges' = AddRange(ranges, s)
    BY <1>3
  <2>2. /\ ranges' \in Seq(Pairs)
        /\ Len(ranges') >= Len(ranges) /\ Len(ranges') <= MaxRanges
        /\ \A a \in Int : Held(ranges, a) => Held(ranges', a)
    BY <1>1, <2>1, AddRangeResult, Zenon
  <2>3. Len(ranges') \in Nat
    BY <2>2
  <2>4. Len(ranges) = MaxRanges => Len(ranges') = MaxRanges
    BY <1>1, <2>2, <2>3
  <2> QED
    BY <2>2, <2>4 DEF Retained, Covered
<1> QED
  BY <1>2, <1>3

\* A step of t that leaves the table and what is owed alone, and after which t is
\* neither in a walk nor past it unless it was there already.
LEMMA QuietStep ==
  ASSUME RangeInv, NEW t \in Loaders, NEW l \in PlaceNames \ {"clear", "forget", "scan", "maps", "mark"},
         Jump(t, l), UNCHANGED <<ranges, pid, due>>,
         loaded' \in SUBSET Libs, cmdline' \in NameSet, package' \in NameSet,
         pid = 1 => package' \in taken' \cup {NoPackage} /\ taken \subseteq taken' /\ seedPid' \in {0, 1},
         work' \in [Loaders -> WorkRecs], \A u \in Loaders : u # t => work'[u] = work[u]
  PROVE  RangeInv'
<1>1. /\ at' \in [Loaders -> PlaceNames] /\ at'[t] = l
      /\ \A u \in Loaders : u # t => at'[u] = at[u]
  BY DEF RangeInv, RangeTypes, Jump
<1>2. RangeTypes'
  BY <1>1 DEF RangeInv, RangeTypes
<1>3. NeverCleared'
  BY <1>1 DEF RangeInv, NeverCleared
<1>4. NamesTaken'
  BY <1>1 DEF RangeInv, NamesTaken
<1>5. RangesOwned'
  BY DEF RangeInv, RangesOwned, Held, Owned
<1>6. \A lib \in Libs : Retained(lib)' = Retained(lib)
  BY DEF Retained, Covered, Held
<1>7. Visited'
  BY <1>1, <1>2, <1>6 DEF RangeInv, RangeTypes, Visited, WorkRecs
<1>8. DueKept'
  BY <1>6 DEF RangeInv, DueKept
<1> QED
  BY <1>2, <1>3, <1>4, <1>5, <1>7, <1>8 DEF RangeInv

\* The local variables of a thread are typed.
LEMMA WorkTyped ==
  ASSUME RangeTypes, NEW t \in Loaders
  PROVE  /\ work[t] \in WorkRecs
         /\ work[t].name \in NameSet /\ work[t].todo \in SUBSET Libs /\ work[t].seen \in SUBSET Libs
         /\ NoWork \in WorkRecs
<1>1. work[t] \in WorkRecs
  BY DEF RangeTypes
<1>2. NoWork \in WorkRecs
  BY NamesTyped DEF NoWork, WorkRecs
<1> QED
  BY <1>1, <1>2 DEF WorkRecs

\* The name a refresh yields is a name.
LEMMA RefreshedTyped ==
  ASSUME RangeTypes, NamesTaken
  PROVE  Refreshed \in NameSet
BY NamesTyped, RangeAssumption DEF RangeTypes, Refreshed

\* dlopen of one more library keeps the invariant.
LEMMA LoadStep ==
  ASSUME RangeInv, NEW t \in Loaders, NEW lib \in Libs, Load(t, lib)
  PROVE  RangeInv'
<1>1. /\ loaded' \in SUBSET Libs
      /\ UNCHANGED <<ranges, package, seedPid, pid, cmdline, due, taken>>
  BY DEF Load, RangeInv, RangeTypes
<1>2. package' \in NameSet /\ cmdline' \in NameSet /\ work \in [Loaders -> WorkRecs]
  BY <1>1 DEF RangeInv, RangeTypes
<1>3. pid = 1 => package' \in taken' \cup {NoPackage} /\ taken \subseteq taken' /\ seedPid' \in {0, 1}
  BY <1>1 DEF RangeInv, NamesTaken, NeverCleared
<1>4. CASE Jump(t, "reset") /\ UNCHANGED work
  BY <1>1, <1>2, <1>3, <1>4, QuietStep DEF PlaceNames
<1>5. CASE Jump(t, "name") /\ \E n \in PathNames[lib] : work' = [work EXCEPT ![t].name = n]
  <2>1. PICK n \in PathNames[lib] : work' = [work EXCEPT ![t].name = n]
    BY <1>5
  <2>2. n \in NameSet
    BY NamesTyped
  <2>3. work' \in [Loaders -> WorkRecs] /\ \A u \in Loaders : u # t => work'[u] = work[u]
    BY <1>2, <2>1, <2>2 DEF WorkRecs
  <2> QED
    BY <1>1, <1>2, <1>3, <1>5, <2>3, QuietStep DEF PlaceNames
<1> QED
  BY <1>4, <1>5 DEF Load

\* Steps of t that only jump, or set the package name to n.
LEMMA NamingStep ==
  ASSUME RangeInv, NEW t \in Loaders, NEW l \in PlaceNames \ {"clear", "forget", "scan", "maps", "mark"},
         Jump(t, l), UNCHANGED <<loaded, cmdline, pid, ranges, due>>,
         work' = work \/ \E todo \in SUBSET Libs : work' = [work EXCEPT ![t].todo = todo],
         \/ UNCHANGED <<package, taken>>
         \/ \E n \in NameSet : Name(n),
         pid = 1 => seedPid' \in {0, 1}
  PROVE  RangeInv'
<1>1. loaded' \in SUBSET Libs /\ cmdline' \in NameSet /\ work \in [Loaders -> WorkRecs]
  BY DEF RangeInv, RangeTypes
<1>2. package' \in NameSet /\ (pid = 1 => package' \in taken' \cup {NoPackage} /\ taken \subseteq taken')
  BY DEF RangeInv, RangeTypes, NamesTaken, Name
<1>3. work' \in [Loaders -> WorkRecs] /\ \A u \in Loaders : u # t => work'[u] = work[u]
  <2>1. CASE work' = work
    BY <1>1, <2>1
  <2>2. CASE \E todo \in SUBSET Libs : work' = [work EXCEPT ![t].todo = todo]
    BY <1>1, <2>2 DEF WorkRecs
  <2> QED
    BY <2>1, <2>2
<1> QED
  BY <1>1, <1>2, <1>3, QuietStep

\* In a forked child the invariant claims types only.
LEMMA ForkedStep ==
  ASSUME RangeTypes', pid' # 1
  PROVE  RangeInv'
BY DEF RangeInv, NeverCleared, NamesTaken, RangesOwned, Visited, DueKept

\* Steps that set or refresh the name, or enter a seed or an mprotect hook, keep it.
LEMMA NamingSteps ==
  ASSUME RangeInv, NEW t \in Loaders,
         \/ SetPackageName(t) \/ ResetAttempted(t) \/ BridgeInit(t) \/ HookSeeds(t)
         \/ RefreshName(t) \/ \E lib \in Libs : Mprotect(t, lib)
  PROVE  RangeInv'
<1>1. Refreshed \in NameSet /\ work[t].name \in NameSet /\ cmdline \in NameSet
  BY RefreshedTyped, WorkTyped DEF RangeInv, RangeTypes
<1>2. pid = 1 => seedPid \in {0, 1}
  BY DEF RangeInv, NeverCleared
<1>3. CASE SetPackageName(t)
  BY <1>1, <1>2, <1>3, NamingStep DEF SetPackageName, processVars, PlaceNames
<1>4. CASE ResetAttempted(t)
  BY <1>2, <1>4, NamingStep DEF ResetAttempted, processVars, PlaceNames
<1>5. CASE BridgeInit(t)
  <2>1. UNCHANGED <<loaded, pid, cmdline, ranges, seedPid, work, due>>
    BY <1>5 DEF BridgeInit
  <2>2. CASE cmdline = NoPackage
    <3>1. UNCHANGED <<package, taken, at>> /\ at[t] = "idle"
      BY <1>5, <2>2 DEF BridgeInit
    <3>2. Jump(t, "idle")
      BY <3>1 DEF Jump, RangeInv, RangeTypes
    <3> QED
      BY <1>2, <2>1, <3>1, <3>2, NamingStep DEF PlaceNames
  <2>3. CASE cmdline # NoPackage
    <3>1. Name(cmdline) /\ Jump(t, "seed")
      BY <1>5, <2>3 DEF BridgeInit
    <3> QED
      BY <1>1, <1>2, <2>1, <3>1, NamingStep DEF PlaceNames
  <2> QED
    BY <2>2, <2>3
<1>6. CASE HookSeeds(t)
  BY <1>2, <1>6, NamingStep DEF HookSeeds, processVars, PlaceNames
<1>7. CASE RefreshName(t)
  BY <1>1, <1>2, <1>7, NamingStep DEF RefreshName, processVars, PlaceNames
<1>8. CASE \E lib \in Libs : Mprotect(t, lib)
  BY <1>1, <1>2, <1>8, NamingStep DEF Mprotect, processVars, PlaceNames
<1> QED
  BY <1>3, <1>4, <1>5, <1>6, <1>7, <1>8

\* The checks of the process id keep it: they clear nothing in the first process.
LEMMA ClearingSteps ==
  ASSUME RangeInv, NEW t \in Loaders, CheckPid(t) \/ ClearRanges(t) \/ ForgetPackage(t)
  PROVE  RangeInv'
<1> USE DEF processVars
<1>1. CASE CheckPid(t) /\ seedPid \in {0, pid}
  BY <1>1, NamingStep DEF CheckPid, PlaceNames
<1>2. CASE CheckPid(t) /\ seedPid \notin {0, pid}
  <2>1. pid' # 1
    BY <1>2 DEF CheckPid, RangeInv, NeverCleared
  <2>2. RangeTypes'
    BY <1>2 DEF CheckPid, Jump, PlaceNames, RangeInv, RangeTypes
  <2> QED
    BY <2>1, <2>2, ForkedStep
<1>3. CASE ClearRanges(t)
  <2>1. pid' # 1
    BY <1>3 DEF ClearRanges, RangeInv, NeverCleared
  <2>2. ranges' \in Seq(Pairs) /\ Len(ranges') <= MaxRanges
    BY <1>3, RangeAssumption DEF ClearRanges
  <2>3. at' \in [Loaders -> PlaceNames]
    BY <1>3 DEF ClearRanges, Jump, PlaceNames, RangeInv, RangeTypes
  <2>4. RangeTypes'
    BY <1>3, <2>2, <2>3 DEF ClearRanges, RangeInv, RangeTypes
  <2> QED
    BY <2>1, <2>4, ForkedStep
<1>4. CASE ForgetPackage(t)
  <2>1. pid' # 1
    BY <1>4 DEF ForgetPackage, RangeInv, NeverCleared
  <2>2. RangeTypes'
    BY <1>4, NamesTyped DEF ForgetPackage, Name, Jump, PlaceNames, RangeInv, RangeTypes
  <2> QED
    BY <2>1, <2>2, ForkedStep
<1> QED
  BY <1>1, <1>2, <1>3, <1>4

\* A fork keeps it.
LEMMA ForkStep ==
  ASSUME RangeInv, NEW t \in Loaders, Fork(t)
  PROVE  RangeInv'
<1>1. pid' # 1 /\ pid' \in Nat \ {0} /\ pid' \in DOMAIN ProcessNames
  BY DEF Fork, RangeInv, RangeTypes
<1>2. RangeTypes'
  BY <1>1, NamesTyped, WorkTyped DEF Fork, PlaceNames, RangeInv, RangeTypes
<1> QED
  BY <1>1, <1>2, ForkedStep

\* The process getting its name, or the payload hiding itself, keeps it.
LEMMA ProcessSteps ==
  ASSUME RangeInv, Specialize \/ Hide
  PROVE  RangeInv'
<1>1. UNCHANGED <<loaded, ranges, package, seedPid, pid, at, work, due, taken>>
  BY DEF Specialize, Hide
<1>2. RangeTypes'
  BY <1>1, NamesTyped DEF Specialize, Hide, RangeInv, RangeTypes
<1>3. \A lib \in Libs : Retained(lib)' = Retained(lib)
  BY <1>1 DEF Retained, Covered, Held
<1>4. NeverCleared' /\ NamesTaken'
  BY <1>1 DEF RangeInv, NeverCleared, NamesTaken
<1>5. RangesOwned'
  BY <1>1 DEF RangeInv, RangesOwned, Held, Owned
<1>6. Visited' /\ DueKept'
  BY <1>1, <1>2, <1>3 DEF RangeInv, RangeTypes, Visited, DueKept, WorkRecs
<1> QED
  BY <1>2, <1>4, <1>5, <1>6 DEF RangeInv

\* A step of t in a walk: what it says of its own walk, of the table and of what
\* is owed is enough.
LEMMA WalkStep ==
  ASSUME RangeInv, NEW t \in Loaders, NEW l \in {"scan", "maps", "mark", "idle"}, NEW w \in WorkRecs,
         Jump(t, l), work' = [work EXCEPT ![t] = w],
         UNCHANGED <<processVars, package, seedPid, taken>>,
         ranges' = ranges \/ \E s \in Pairs : ranges' = AddRange(ranges, s),
         pid = 1 => /\ l \in {"scan", "maps"} => w.name \in taken \cup {NoPackage}
                    /\ \A a \in Int : Held(ranges', a) => Owned(a)
                    /\ \A lib \in w.seen : lib # Payload /\ w.name \in PathNames[lib] =>
                         /\ l \in {"scan", "maps"} => lib \in w.todo \/ Retained(lib)'
                         /\ l = "mark" => Retained(lib)'
                    /\ \A d \in due' : d \in due \/ (d[1] \in Libs /\ d[1] # Payload /\ Retained(d[1]))
  PROVE  RangeInv'
<1> USE DEF processVars
<1>1. /\ at' \in [Loaders -> PlaceNames] /\ at'[t] = l
      /\ \A u \in Loaders : u # t => at'[u] = at[u]
  BY DEF RangeInv, RangeTypes, Jump, PlaceNames
<1>2. /\ work' \in [Loaders -> WorkRecs] /\ work'[t] = w
      /\ \A u \in Loaders : u # t => work'[u] = work[u]
  BY DEF RangeInv, RangeTypes
<1>3. /\ ranges' \in Seq(Pairs) /\ Len(ranges') <= MaxRanges
      /\ \A lib \in Libs : Retained(lib) => Retained(lib)'
  BY KeptStays DEF RangeInv
<1>4. RangeTypes'
  BY <1>1, <1>2, <1>3 DEF RangeInv, RangeTypes
<1>5. NeverCleared'
  BY <1>1 DEF RangeInv, NeverCleared
<1>6. NamesTaken'
  BY <1>1, <1>2 DEF RangeInv, NamesTaken
<1>7. RangesOwned'
  BY DEF RangeInv, RangesOwned, Owned
<1>8. Visited'
  <2> SUFFICES ASSUME pid = 1, NEW u \in Loaders, NEW lib \in work'[u].seen,
                      lib # Payload, work'[u].name \in PathNames[lib]
               PROVE  /\ at'[u] \in {"scan", "maps"} => lib \in work'[u].todo \/ Retained(lib)'
                      /\ at'[u] = "mark" => Retained(lib)'
    BY DEF Visited
  <2>1. CASE u = t
    BY <1>1, <1>2, <2>1
  <2>2. CASE u # t
    <3>1. work'[u] = work[u] /\ at'[u] = at[u] /\ lib \in Libs
      BY <1>1, <1>2, <2>2, WorkTyped DEF RangeInv
    <3> QED
      BY <1>3, <3>1 DEF RangeInv, Visited
  <2> QED
    BY <2>1, <2>2
<1>9. DueKept'
  <2> SUFFICES ASSUME pid = 1, NEW d \in due'
               PROVE  \E lib \in Libs : lib = d[1] /\ lib # Payload /\ Retained(lib)'
    BY DEF DueKept, Retained, Covered, Held
  <2>1. d[1] \in Libs /\ d[1] # Payload /\ Retained(d[1])
    BY DEF RangeInv, DueKept
  <2> QED
    BY <1>3, <2>1
<1> QED
  BY <1>4, <1>5, <1>6, <1>7, <1>8, <1>9 DEF RangeInv

\* Adding the region of a library that the package has: the table stays owned.
LEMMA AddOwned ==
  ASSUME RangeInv, NEW lib \in Libs, pid = 1 => PathNames[lib] \cap taken # {},
         ranges' = AddRange(ranges, Segment[lib])
  PROVE  /\ Segment[lib] \in Pairs
         /\ pid = 1 => \A a \in Int : Held(ranges', a) => Owned(a)
         /\ Retained(lib)'
<1>1. Segment[lib] \in Pairs
  BY RangeAssumption DEF Pairs
<1>2. /\ \/ \A a \in Int : Holds(Segment[lib], a) => Held(ranges', a)
         \/ Len(ranges') = MaxRanges
      /\ \A a \in Int : Held(ranges', a) => Holds(Segment[lib], a) \/ Held(ranges, a)
  BY <1>1, AddRangeResult DEF RangeInv, RangeTypes
<1>3. Retained(lib)'
  BY <1>2 DEF Retained, Covered
<1>4. pid = 1 => \A a \in Int : Held(ranges', a) => Owned(a)
  BY <1>2 DEF RangeInv, RangesOwned, Owned
<1> QED
  BY <1>1, <1>3, <1>4

\* Copying the name for a seed keeps it.
LEMMA SnapshotStep ==
  ASSUME RangeInv, NEW t \in Loaders, Snapshot(t)
  PROVE  RangeInv'
<1> DEFINE w == [name |-> package, todo |-> IF package = NoPackage THEN {} ELSE loaded \cap Listed,
                 seen |-> loaded \cap Listed]
<1>1. /\ Jump(t, "scan") /\ work' = [work EXCEPT ![t] = w]
      /\ UNCHANGED <<processVars, package, seedPid, taken, ranges, due>>
  BY DEF Snapshot
<1>2. w \in WorkRecs
  BY DEF RangeInv, RangeTypes, WorkRecs
<1>3. pid = 1 => /\ w.name \in taken \cup {NoPackage}
                 /\ \A a \in Int : Held(ranges', a) => Owned(a)
  BY <1>1 DEF RangeInv, NamesTaken, RangesOwned
<1>4. \A lib \in w.seen : w.name \in PathNames[lib] => lib \in w.todo
  BY RangeAssumption DEF RangeInv, RangeTypes
<1> HIDE DEF w
<1> QED
  BY <1>1, <1>2, <1>3, <1>4, WalkStep

\* One library of the loader's list or of the maps file keeps it: what is added is wanted.
LEMMA VisitStep ==
  ASSUME RangeInv, NEW t \in Loaders, NEW lib \in Libs, Visit(t, lib)
  PROVE  RangeInv'
<1> DEFINE w == [work[t] EXCEPT !.todo = @ \ {lib}]
<1>1. /\ at[t] \in {"scan", "maps"} /\ UNCHANGED <<processVars, package, seedPid, taken, at, due>>
      /\ ranges' = IF Wanted(t, lib) THEN AddRange(ranges, Segment[lib]) ELSE ranges
  BY DEF Visit
<1>2. work[t] \in WorkRecs
  BY WorkTyped DEF RangeInv
<1>3. work' = [work EXCEPT ![t] = w]
  BY <1>2 DEF Visit, RangeInv, RangeTypes, WorkRecs
<1>4. w \in WorkRecs /\ w.name = work[t].name /\ w.seen = work[t].seen /\ w.todo = work[t].todo \ {lib}
  BY <1>2 DEF WorkRecs
<1>5. Jump(t, at[t])
  BY <1>1 DEF Jump, RangeInv, RangeTypes
<1> HIDE DEF w
<1>6. pid = 1 => work[t].name \in taken \cup {NoPackage}
  BY <1>1 DEF RangeInv, NamesTaken
<1>7. Wanted(t, lib) /\ pid = 1 => PathNames[lib] \cap taken # {}
  BY <1>6, RangeAssumption DEF Wanted
<1>8. /\ ranges' = ranges \/ \E s \in Pairs : ranges' = AddRange(ranges, s)
      /\ pid = 1 => \A a \in Int : Held(ranges', a) => Owned(a)
      /\ Wanted(t, lib) => Retained(lib)'
  <2>1. CASE Wanted(t, lib)
    BY <1>1, <1>7, <2>1, AddOwned
  <2>2. CASE ~Wanted(t, lib)
    BY <1>1, <2>2 DEF RangeInv, RangesOwned
  <2> QED
    BY <2>1, <2>2
<1>9. \A other \in Libs : Retained(other) => Retained(other)'
  BY <1>8, KeptStays DEF RangeInv
<1>10. ASSUME pid = 1, NEW other \in w.seen, other # Payload, w.name \in PathNames[other]
       PROVE  other \in w.todo \/ Retained(other)'
  <2>1. other \in work[t].todo \/ Retained(other)
    BY <1>1, <1>4, <1>10 DEF RangeInv, Visited
  <2>2. other \in Libs
    BY <1>4, <1>10 DEF WorkRecs
  <2>3. CASE other = lib
    BY <1>4, <1>8, <1>10, <2>3 DEF Wanted
  <2>4. CASE other # lib
    BY <1>4, <1>9, <2>1, <2>2, <2>4
  <2> QED
    BY <2>3, <2>4
<1> QED
  BY <1>1, <1>3, <1>4, <1>5, <1>6, <1>8, <1>10, WalkStep

\* Going on to the maps file keeps it.
LEMMA FallbackStep ==
  ASSUME RangeInv, NEW t \in Loaders, Fallback(t)
  PROVE  RangeInv'
<1>1. /\ at[t] = "scan" /\ work[t].todo = {}
      /\ UNCHANGED <<processVars, ranges, package, seedPid, due, taken>>
  BY DEF Fallback
<1>2. work[t] \in WorkRecs /\ work \in [Loaders -> WorkRecs]
  BY DEF RangeInv, RangeTypes
<1>3. pid = 1 => \A a \in Int : Held(ranges', a) => Owned(a)
  BY <1>1 DEF RangeInv, RangesOwned
<1>4. \A lib \in Libs : Retained(lib)' = Retained(lib)
  BY <1>1 DEF Retained, Covered, Held
<1>5. CASE ranges # <<>>
  <2>1. Jump(t, "mark") /\ work' = [work EXCEPT ![t] = work[t]]
    BY <1>2, <1>5 DEF Fallback
  <2>2. pid = 1 => \A lib \in work[t].seen :
          lib # Payload /\ work[t].name \in PathNames[lib] => lib \in Libs /\ Retained(lib)
    BY <1>1, <1>2 DEF RangeInv, Visited, WorkRecs
  <2> QED
    BY <1>1, <1>2, <1>3, <1>4, <2>1, <2>2, WalkStep
<1>6. CASE ranges = <<>>
  <2> DEFINE w == [name |-> package, todo |-> IF package = NoPackage THEN {} ELSE loaded, seen |-> loaded]
  <2>1. Jump(t, "maps") /\ work' = [work EXCEPT ![t] = w]
    BY <1>2, <1>6 DEF Fallback, WorkRecs
  <2>2. w \in WorkRecs
    BY DEF RangeInv, RangeTypes, WorkRecs
  <2>3. pid = 1 => w.name \in taken \cup {NoPackage}
    BY <1>1 DEF RangeInv, NamesTaken
  <2>4. \A lib \in w.seen : w.name \in PathNames[lib] => lib \in w.todo
    BY RangeAssumption DEF RangeInv, RangeTypes
  <2> HIDE DEF w
  <2> QED
    BY <1>1, <1>3, <2>1, <2>2, <2>3, <2>4, WalkStep
<1> QED
  BY <1>5, <1>6

\* The end of the maps file keeps it.
LEMMA EndMapsStep ==
  ASSUME RangeInv, NEW t \in Loaders, EndMaps(t)
  PROVE  RangeInv'
<1>1. /\ at[t] = "maps" /\ work[t].todo = {} /\ Jump(t, "mark")
      /\ UNCHANGED <<processVars, ranges, package, seedPid, work, due, taken>>
  BY DEF EndMaps
<1>2. work[t] \in WorkRecs /\ work \in [Loaders -> WorkRecs]
  BY DEF RangeInv, RangeTypes
<1>3. pid = 1 => \A a \in Int : Held(ranges', a) => Owned(a)
  BY <1>1 DEF RangeInv, RangesOwned
<1>4. \A lib \in Libs : Retained(lib)' = Retained(lib)
  BY <1>1 DEF Retained, Covered, Held
<1>5. pid = 1 => \A lib \in work[t].seen :
        lib # Payload /\ work[t].name \in PathNames[lib] => lib \in Libs /\ Retained(lib)
  BY <1>1, <1>2 DEF RangeInv, Visited, WorkRecs
<1>6. work' = [work EXCEPT ![t] = work[t]]
  BY <1>1, <1>2
<1> QED
  BY <1>1, <1>2, <1>3, <1>4, <1>5, <1>6, WalkStep

\* Marking the seed as attempted keeps it: what was visited is in the table.
LEMMA MarkStep ==
  ASSUME RangeInv, NEW t \in Loaders, MarkAttempted(t)
  PROVE  RangeInv'
<1>1. /\ at[t] = "mark" /\ work' = [work EXCEPT ![t] = NoWork] /\ Jump(t, "idle")
      /\ UNCHANGED <<processVars, ranges, package, seedPid, taken>>
  BY DEF MarkAttempted
<1>2. work[t] \in WorkRecs /\ NoWork \in WorkRecs
  BY WorkTyped DEF RangeInv
<1>3. pid = 1 => \A a \in Int : Held(ranges', a) => Owned(a)
  BY <1>1 DEF RangeInv, RangesOwned
<1>4. ASSUME pid = 1, NEW d \in due'
      PROVE  d \in due \/ (d[1] \in Libs /\ d[1] # Payload /\ Retained(d[1]))
  <2>1. due' = due \cup {<<lib, work[t].name>> : lib \in {l \in work[t].seen : Wanted(t, l)}}
    BY <1>4 DEF MarkAttempted
  <2>2. CASE \E lib \in work[t].seen : Wanted(t, lib) /\ d = <<lib, work[t].name>>
    <3>1. PICK lib \in work[t].seen : Wanted(t, lib) /\ d = <<lib, work[t].name>>
      BY <2>2
    <3>2. Retained(lib) /\ lib \in Libs /\ lib # Payload
      BY <1>1, <1>2, <1>4, <3>1 DEF RangeInv, Visited, Wanted, WorkRecs
    <3> QED
      BY <3>1, <3>2
  <2> QED
    BY <1>4, <2>1, <2>2
<1>5. \A lib \in NoWork.seen : FALSE
  BY DEF NoWork
<1> QED
  BY <1>1, <1>2, <1>3, <1>4, <1>5, WalkStep

\* The range an mprotect hook adds is of a wanted library.
LEMMA ProtectedStep ==
  ASSUME RangeInv, NEW t \in Loaders, AddProtected(t)
  PROVE  RangeInv'
<1>1. /\ work' = [work EXCEPT ![t] = NoWork] /\ Jump(t, "idle")
      /\ UNCHANGED <<processVars, package, seedPid, due, taken>>
  BY DEF AddProtected
<1>2. work[t] \in WorkRecs /\ NoWork \in WorkRecs
  BY WorkTyped DEF RangeInv
<1>3. PICK lib \in work[t].todo :
        ranges' = IF package \in PathNames[lib] /\ (lib # Payload \/ visible)
                  THEN AddRange(ranges, Segment[lib]) ELSE ranges
  BY DEF AddProtected
<1>4. lib \in Libs
  BY <1>2 DEF WorkRecs
<1>5. /\ ranges' = ranges \/ \E s \in Pairs : ranges' = AddRange(ranges, s)
      /\ pid = 1 => \A a \in Int : Held(ranges', a) => Owned(a)
  <2>1. CASE package \in PathNames[lib] /\ (lib # Payload \/ visible)
    <3>1. pid = 1 => PathNames[lib] \cap taken # {}
      BY <1>4, <2>1, RangeAssumption DEF RangeInv, NamesTaken
    <3> QED
      BY <1>3, <1>4, <2>1, <3>1, AddOwned
  <2>2. CASE ~(package \in PathNames[lib] /\ (lib # Payload \/ visible))
    BY <1>3, <2>2 DEF RangeInv, RangesOwned
  <2> QED
    BY <2>1, <2>2
<1>6. \A l \in NoWork.seen : FALSE
  BY DEF NoWork
<1> QED
  BY <1>1, <1>2, <1>5, <1>6, WalkStep

\* An empty table and a process without a name satisfy the invariant.
LEMMA RangeInitial == RangeInit => RangeInv
<1> SUFFICES ASSUME RangeInit PROVE RangeInv
  OBVIOUS
<1> USE DEF RangeInit
<1>1. RangeTypes
  <2>1. NoWork \in WorkRecs
    BY NamesTyped DEF NoWork, WorkRecs
  <2>2. ranges \in Seq(Pairs) /\ Len(ranges) <= MaxRanges
    BY RangeAssumption
  <2>3. cmdline \in NameSet /\ package \in NameSet
    BY NamesTyped, RangeAssumption
  <2> QED
    BY <2>1, <2>2, <2>3, RangeAssumption DEF RangeTypes, PlaceNames
<1>2. NeverCleared /\ NamesTaken
  BY DEF NeverCleared, NamesTaken
<1>3. RangesOwned
  BY DEF RangesOwned, Held
<1>4. Visited /\ DueKept
  BY DEF Visited, DueKept, NoWork
<1> QED
  BY <1>1, <1>2, <1>3, <1>4 DEF RangeInv

\* The range set keeps its invariant for any libraries, any threads and any table size: in
\* the process that was seeded nothing clears the table, every address in it is of a
\* library of a name that was in force, and what a seed has visited stays in it
\* (range_add, seed_ranges).
THEOREM RangeInvariant == RangeSpec => []RangeInv
<1>1. RangeInit => RangeInv
  BY RangeInitial
<1>2. RangeInv /\ [RangeNext]_rangeVars => RangeInv'
  <2> SUFFICES ASSUME RangeInv, [RangeNext]_rangeVars PROVE RangeInv'
    OBVIOUS
  <2>1. ASSUME NEW t \in Loaders, NEW lib \in Libs, Load(t, lib) \/ Visit(t, lib)
        PROVE  RangeInv'
    BY <2>1, LoadStep, VisitStep
  <2>2. ASSUME NEW t \in Loaders,
               \/ SetPackageName(t) \/ ResetAttempted(t) \/ BridgeInit(t) \/ HookSeeds(t)
               \/ RefreshName(t) \/ \E lib \in Libs : Mprotect(t, lib)
        PROVE  RangeInv'
    BY <2>2, NamingSteps
  <2>3. ASSUME NEW t \in Loaders, CheckPid(t) \/ ClearRanges(t) \/ ForgetPackage(t)
        PROVE  RangeInv'
    BY <2>3, ClearingSteps
  <2>4. ASSUME NEW t \in Loaders, Snapshot(t) \/ Fallback(t) \/ EndMaps(t) \/ MarkAttempted(t)
        PROVE  RangeInv'
    BY <2>4, SnapshotStep, FallbackStep, EndMapsStep, MarkStep
  <2>5. ASSUME NEW t \in Loaders, AddProtected(t) \/ Fork(t)
        PROVE  RangeInv'
    BY <2>5, ProtectedStep, ForkStep
  <2>6. CASE Specialize \/ Hide
    BY <2>6, ProcessSteps
  <2>7. CASE UNCHANGED rangeVars
    <3> USE <2>7 DEF rangeVars
    <3>1. \A lib \in Libs : Retained(lib)' = Retained(lib)
      BY DEF Retained, Covered, Held
    <3>2. RangeTypes' /\ NeverCleared' /\ NamesTaken'
      BY DEF RangeInv, RangeTypes, NeverCleared, NamesTaken
    <3>3. RangesOwned'
      BY DEF RangeInv, RangesOwned, Held, Owned
    <3>4. Visited' /\ DueKept'
      BY <3>1, WorkTyped DEF RangeInv, Visited, DueKept
    <3> QED
      BY <3>2, <3>3, <3>4 DEF RangeInv
  <2> QED
    BY <2>1, <2>2, <2>3, <2>4, <2>5, <2>6, <2>7 DEF RangeNext
<1> QED
  BY <1>1, <1>2, PTL DEF RangeSpec

\* Calls are logged only from libraries of a package whose name was in force.
THEOREM OwnLibrariesOnly == RangeSpec => []OnlyPackageLogged
<1>1. RangeInv => OnlyPackageLogged
  <2> SUFFICES ASSUME RangeInv, pid = 1, NEW lib \in Libs, NEW a \in Addresses(lib), ShouldLog(a)
               PROVE  PathNames[lib] \cap taken # {}
    BY DEF OnlyPackageLogged
  <2>1. a \in Int /\ Holds(Segment[lib], a)
    BY AddressesAreHeld
  <2>2. Held(ranges, a)
    BY DEF ShouldLog, InRanges, Held, Holds
  <2>3. PICK l \in Libs : Holds(Segment[l], a) /\ PathNames[l] \cap taken # {}
    BY <2>1, <2>2 DEF RangeInv, RangesOwned, Owned
  <2>4. l = lib
    BY <2>1, <2>3, OneLibrary
  <2> QED
    BY <2>3, <2>4
<1> QED
  BY <1>1, RangeInvariant, PTL

\* A library that was loaded when its package was seeded is logged, whatever other threads
\* seed, add or refresh, unless the table was full.
THEOREM SeededStaysLogged == RangeSpec => []LoadedIsLogged
<1>1. RangeInv => LoadedIsLogged
  <2> SUFFICES ASSUME RangeInv, pid = 1, NEW lib \in Libs, <<lib, package>> \in due, Len(ranges) # MaxRanges,
                      NEW a \in Addresses(lib)
               PROVE  ShouldLog(a)
    BY DEF LoadedIsLogged
  <2>1. a \in Int /\ Holds(Segment[lib], a)
    BY AddressesAreHeld
  <2>2. lib # Payload /\ Retained(lib)
    BY DEF RangeInv, DueKept
  <2>3. Held(ranges, a)
    BY <2>1, <2>2 DEF Retained, Covered
  <2>4. InRanges(a)
    BY <2>3 DEF InRanges, Held, Holds
  <2>5. ~IsSelf(a)
    <3>1. IsSelf(a) => Holds(Segment[Payload], a)
      BY DEF IsSelf, Holds
    <3> QED
      BY <2>1, <2>2, <3>1, OneLibrary, RangeAssumption
  <2> QED
    BY <2>4, <2>5 DEF ShouldLog
<1> QED
  BY <1>1, RangeInvariant, PTL
-----------------------------------------------------------------------------
(* The allocator.                                                          *)

Addr == 1 .. LastAddress
FillOps == [at : {"fill"}, block : Addr, usable : Nat, mlen : Nat, asked : Nat, old : Addr \cup {Null}]
FreeOps == [at : {"free"}, block : Addr]
AllocOps == {Ready} \cup FillOps \cup FreeOps

AllocTypes ==
  /\ mapped \in SUBSET Addr
  /\ header \in [Addr -> [usable : Nat, mlen : Nat]]
  /\ freeList \in [Classes -> Addr \cup {Null}]
  /\ bump \in Nat /\ end \in Nat
  /\ step \in [Users -> AllocOps]
  /\ held \in SUBSET (Addr \X Nat)

\* The ghosts: own is the block an address belongs to, 0 for none, -1 for the
\* arena's rest; kind and who say in whose hands a block is.
ArenaOwn == -1
Kinds == {"none", "held", "fill", "old", "free", "list"}

OwnTypes(own, kind) ==
  /\ own \in [Addr -> Int] /\ kind \in [Addr -> Kinds]
  /\ \A a \in Addr : own[a] # 0 => a \in mapped

Block(own, b, u) == \A a \in Span(b, u + 1) : a \in Addr /\ own[a] = b
Extent(u, m) == (m = 0 /\ u \in Classes) \/ m = u + 1
Written(own, b) == Extent(header[b].usable, header[b].mlen) /\ Block(own, b, header[b].usable)

HeldOk(own, kind, who, h) ==
  /\ kind[h[1]] = "held" /\ who[h[1]] = h[2]
  /\ h[2] <= header[h[1]].usable /\ Written(own, h[1])

FillOk(own, kind, who, t, s) ==
  /\ kind[s.block] = "fill" /\ who[s.block] = t
  /\ s.asked <= s.usable /\ Extent(s.usable, s.mlen) /\ Block(own, s.block, s.usable)
  /\ s.old # Null => kind[s.old] = "old" /\ who[s.old] = t /\ Written(own, s.old)

FreeOk(own, kind, who, t, s) ==
  kind[s.block] = "free" /\ who[s.block] = t /\ Written(own, s.block)

HeldBlocks(own, kind, who) == \A h \in held : HeldOk(own, kind, who, h)
FilledBlocks(own, kind, who) == \A t \in Users : \A s :
  s = step[t] /\ s.at = "fill" => FillOk(own, kind, who, t, s)
FreedBlocks(own, kind, who) == \A t \in Users : \A s :
  s = step[t] /\ s.at = "free" => FreeOk(own, kind, who, t, s)

InList(kind, who, c, b) == b \in Addr /\ kind[b] = "list" /\ who[b] = c

ListBlocks(own, kind, who) == \A c \in Classes :
  /\ freeList[c] # Null => InList(kind, who, c, freeList[c])
  /\ \A b \in Addr : InList(kind, who, c, b) =>
       /\ header[b].usable = c /\ Block(own, b, c)
       /\ header[b].mlen # 0 =>
            /\ InList(kind, who, c, header[b].mlen)
            /\ header[b].mlen # freeList[c]
            /\ \A x \in Addr : InList(kind, who, c, x) /\ header[x].mlen = header[b].mlen => x = b

ArenaRest(own) ==
  /\ bump = Null => end = 0
  /\ \A a \in Span(bump, end - bump) : a \in Addr /\ own[a] = ArenaOwn

Owners(own, kind, who) ==
  /\ OwnTypes(own, kind)
  /\ HeldBlocks(own, kind, who) /\ FilledBlocks(own, kind, who) /\ FreedBlocks(own, kind, who)
  /\ ListBlocks(own, kind, who) /\ ArenaRest(own)

AllocInv == AllocTypes /\ \E own, kind, who : Owners(own, kind, who)
-----------------------------------------------------------------------------
\* Membership in a span of memory.
LEMMA InSpan ==
  ASSUME NEW b \in Int, NEW len \in Int
  PROVE  /\ \A a : a \in Span(b, len) <=> a \in Int /\ b <= a /\ a < b + len
         /\ len > 0 => b \in Span(b, len)
BY DEF Span

\* A block cut from the front of the arena's rest leaves the rest without it.
LEMMA SpanSplit ==
  ASSUME NEW b \in Nat, NEW c \in Nat, NEW e \in Nat, b + c + 1 <= e
  PROVE  /\ b \in Span(b, e - b)
         /\ \A a \in Span(b + c + 1, e - (b + c + 1)) : a \in Span(b, e - b) /\ a \notin Span(b, c + 1)
BY DEF Span

\* The lowest of some addresses or sizes is one of them.
LEMMA LowestIsIn ==
  ASSUME NEW S \in SUBSET Nat, S # {}
  PROVE  Lowest(S) \in S
<1>1. \E x \in S : \A y \in S : x <= y
  BY LeastExists
<1> QED
  BY <1>1, Zenon DEF Lowest

\* The class of a size holds it, and fits an arena with its header.
LEMMA ClassFits ==
  ASSUME NEW n \in Nat, ~IsLarge(n)
  PROVE  ClassOf(n) \in Classes /\ ClassOf(n) \in Nat /\ n <= ClassOf(n) /\ ClassOf(n) + 1 <= Arena
<1> DEFINE S == {c \in Classes : c >= n}
<1>1. S # {}
  BY AllocAssumption DEF IsLarge
<1>2. S \in SUBSET Nat
  BY AllocAssumption
<1>3. ClassOf(n) \in S
  BY <1>1, <1>2, LowestIsIn DEF ClassOf
<1> QED
  BY <1>3, AllocAssumption

\* A mapping the kernel chooses lies in unmapped addresses.
LEMMA PlaceForMapping ==
  ASSUME AllocTypes, NEW len \in Nat, Bases(len) # {}
  PROVE  /\ Lowest(Bases(len)) \in Nat \ {0}
         /\ \A a \in Span(Lowest(Bases(len)), len) : a \in Addr /\ a \notin mapped
<1>1. Bases(len) \in SUBSET Nat
  BY AllocAssumption DEF Bases
<1>2. Lowest(Bases(len)) \in Bases(len)
  BY <1>1, LowestIsIn
<1> DEFINE b == Lowest(Bases(len))
<1> HIDE DEF b
<1>3. b \in 1 .. LastAddress + 1 - len /\ Span(b, len) \cap mapped = {}
  BY <1>2 DEF Bases, b
<1>4. b \in Nat \ {0} /\ \A a \in Span(b, len) : a \in Addr
  BY <1>3, AllocAssumption DEF Span, Addr
<1> QED
  BY <1>3, <1>4 DEF b

\* What a thread that fills or frees a block carries.
LEMMA StepTyped ==
  ASSUME AllocTypes, NEW t \in Users
  PROVE  /\ step[t].at = "fill" => step[t] \in FillOps
         /\ step[t].at = "free" => step[t] \in FreeOps
<1>1. step[t] \in AllocOps
  BY DEF AllocTypes
<1> QED
  BY <1>1 DEF AllocOps, FillOps, FreeOps, Ready

\* A block in anyone's hands owns its own first address.
LEMMA BaseOwned ==
  ASSUME NEW own, NEW b \in Addr, NEW u \in Nat, Block(own, b, u)
  PROVE  own[b] = b /\ b > 0
<1>1. b \in Span(b, u + 1) /\ b > 0
  BY DEF Span, Addr
<1> QED
  BY <1>1 DEF Block

\* What the program holds: a base once, with its header written and large enough.
LEMMA HeldTyped ==
  ASSUME AllocTypes, NEW own, NEW kind, NEW who, Owners(own, kind, who), NEW h \in held
  PROVE  /\ h[1] \in Addr /\ h[2] \in Nat /\ h = <<h[1], h[2]>>
         /\ header[h[1]].usable \in Nat /\ header[h[1]].mlen \in Nat
         /\ kind[h[1]] = "held" /\ who[h[1]] = h[2] /\ h[2] <= header[h[1]].usable
         /\ Written(own, h[1]) /\ own[h[1]] = h[1] /\ h[1] > 0
         /\ \A g \in held : g[1] = h[1] => g = h
<1>1. \A g \in held : g[1] \in Addr /\ g[2] \in Nat /\ g = <<g[1], g[2]>>
  BY DEF AllocTypes
<1>2. \A g \in held : kind[g[1]] = "held" /\ who[g[1]] = g[2]
  BY DEF Owners, HeldBlocks, HeldOk
<1>3. h[2] <= header[h[1]].usable /\ Written(own, h[1])
  BY DEF Owners, HeldBlocks, HeldOk
<1>4. header[h[1]].usable \in Nat /\ header[h[1]].mlen \in Nat
  BY <1>1 DEF AllocTypes
<1>5. own[h[1]] = h[1] /\ h[1] > 0
  BY <1>1, <1>3, <1>4, BaseOwned DEF Written
<1> QED
  BY <1>1, <1>2, <1>3, <1>4, <1>5

\* Nobody but a list may have b.
Unused(b) ==
  /\ \A h \in held : h[1] # b
  /\ \A v \in Users : /\ step[v].at = "fill" => step[v].block # b /\ (step[v].old # Null => step[v].old # b)
                      /\ step[v].at = "free" => step[v].block # b

GivenKind(kind, b, old) ==
  [a \in Addr |-> IF a = b THEN "fill" ELSE IF a = old THEN "old" ELSE kind[a]]
GivenWho(who, b, old, t) == [a \in Addr |-> IF a = b \/ a = old THEN t ELSE who[a]]

\* Who has what after a block is handed out.
LEMMA GivenAway ==
  ASSUME NEW own, NEW kind, NEW who, OwnTypes(own, kind), NEW b \in Addr, NEW old \in Addr \cup {Null}, NEW t
  PROVE  /\ GivenKind(kind, b, old) \in [Addr -> Kinds]
         /\ GivenKind(kind, b, old)[b] = "fill" /\ GivenWho(who, b, old, t)[b] = t
         /\ \A a \in Addr : a # b /\ a # old => /\ GivenKind(kind, b, old)[a] = kind[a]
                                                /\ GivenWho(who, b, old, t)[a] = who[a]
         /\ old # Null /\ old # b => /\ GivenKind(kind, b, old)[old] = "old"
                                     /\ GivenWho(who, b, old, t)[old] = t
         /\ \A a \in Addr : GivenKind(kind, b, old)[a] \notin {"fill", "old"} => a # b /\ a # old
<1> DEFINE kind2 == GivenKind(kind, b, old)
           who2 == GivenWho(who, b, old, t)
<1>1. kind \in [Addr -> Kinds]
  BY DEF OwnTypes
<1>2. kind2 \in [Addr -> Kinds]
  BY <1>1 DEF Kinds, GivenKind
<1>3. \A a \in Addr : kind2[a] = IF a = b THEN "fill" ELSE IF a = old THEN "old" ELSE kind[a]
  BY DEF GivenKind
<1>4. \A a \in Addr : who2[a] = IF a = b \/ a = old THEN t ELSE who[a]
  BY DEF GivenWho
<1> HIDE DEF kind2, who2
<1>5. /\ kind2 \in [Addr -> Kinds]
      /\ kind2[b] = "fill" /\ who2[b] = t
      /\ \A a \in Addr : a # b /\ a # old => kind2[a] = kind[a] /\ who2[a] = who[a]
      /\ old # Null /\ old # b => kind2[old] = "old" /\ who2[old] = t
      /\ \A a \in Addr : kind2[a] \notin {"fill", "old"} => a # b /\ a # old
  BY <1>2, <1>3, <1>4
<1> QED
  BY <1>5 DEF kind2, who2

\* A block b of u units is handed to t to fill, and own2 gives it b.
LEMMA GiveBlock ==
  ASSUME AllocTypes, AllocTypes', NEW own, NEW kind, NEW who, Owners(own, kind, who),
         NEW t \in Users, step[t].at = "ready",
         NEW b \in Addr, NEW u \in Nat, NEW m \in Nat, NEW n \in Nat, NEW old \in Addr \cup {Null},
         n <= u, Extent(u, m), Unused(b),
         Takes(t, [at |-> "fill", block |-> b, usable |-> u, mlen |-> m, asked |-> n, old |-> old]),
         NEW own2 \in [Addr -> Int], Block(own2, b, u),
         \A a \in Addr : own2[a] # 0 => a \in mapped',
         \A x \in Addr, v \in Nat : x # b /\ Block(own, x, v) => Block(own2, x, v) /\ header'[x] = header[x],
         ArenaRest(own2)',
         \/ old = Null /\ UNCHANGED held
         \/ \E h \in held : old = h[1] /\ held' = held \ {h},
         ListBlocks(own2, GivenKind(kind, b, old), GivenWho(who, b, old, t))'
  PROVE  AllocInv'
<1> DEFINE kind2 == GivenKind(kind, b, old)
           who2 == GivenWho(who, b, old, t)
           s == [at |-> "fill", block |-> b, usable |-> u, mlen |-> m, asked |-> n, old |-> old]
<1>1. /\ kind2 \in [Addr -> Kinds] /\ kind2[b] = "fill" /\ who2[b] = t
      /\ \A a \in Addr : a # b /\ a # old => kind2[a] = kind[a] /\ who2[a] = who[a]
      /\ old # Null /\ old # b => kind2[old] = "old" /\ who2[old] = t
  <2>1. OwnTypes(own, kind)
    BY DEF Owners
  <2>2. kind2 \in [Addr -> Kinds]
    BY <2>1, GivenAway
  <2>3. kind2[b] = "fill" /\ who2[b] = t
    BY DEF GivenKind, GivenWho
  <2>4. \A a \in Addr : a # b /\ a # old => kind2[a] = kind[a] /\ who2[a] = who[a]
    BY <2>1, GivenAway
  <2>5. old # Null /\ old # b => kind2[old] = "old" /\ who2[old] = t
    BY DEF GivenKind, GivenWho
  <2> QED
    BY <2>2, <2>3, <2>4, <2>5
<1>2. /\ step'[t] = s /\ \A v \in Users : v # t => step'[v] = step[v]
      /\ s.at = "fill" /\ s.block = b /\ s.usable = u /\ s.mlen = m /\ s.asked = n /\ s.old = old
  BY DEF Takes, AllocTypes
<1>3. ListBlocks(own2, kind2, who2)'
  OBVIOUS
<1> HIDE DEF kind2, who2, s
<1>4. \A x \in Addr : x # b /\ Written(own, x) => Written(own2, x)' /\ header'[x] = header[x]
  <2> SUFFICES ASSUME NEW x \in Addr, x # b, Written(own, x)
               PROVE  Written(own2, x)' /\ header'[x] = header[x]
    OBVIOUS
  <2>1. header[x].usable \in Nat
    BY DEF AllocTypes
  <2>2. Block(own2, x, header[x].usable) /\ header'[x] = header[x]
    BY <2>1 DEF Written
  <2> QED
    BY <2>2 DEF Written, Extent, Block
<1>5. \A h \in held' : h \in held /\ h[1] # old
  <2>1. \A h \in held : h[1] \in Addr /\ \A g \in held : g[1] = h[1] => g = h
    BY HeldTyped
  <2> QED
    BY <2>1 DEF Addr, Null
<1>6. old # Null => old \in Addr /\ old # b /\ kind[old] = "held" /\ Written(own, old)
  BY HeldTyped DEF Unused
<1>7. OwnTypes(own2, kind2)'
  BY <1>1 DEF OwnTypes
<1>8. HeldBlocks(own2, kind2, who2)'
  <2> SUFFICES ASSUME NEW h \in held'
               PROVE  /\ kind2[h[1]] = "held" /\ who2[h[1]] = h[2]
                      /\ h[2] <= header'[h[1]].usable /\ Written(own2, h[1])'
    BY DEF HeldBlocks, HeldOk
  <2>1. /\ h \in held /\ h[1] # old /\ h[1] \in Addr /\ kind[h[1]] = "held" /\ who[h[1]] = h[2]
        /\ h[2] <= header[h[1]].usable /\ Written(own, h[1])
    BY <1>5, HeldTyped
  <2>2. h[1] # b /\ Written(own2, h[1])' /\ header'[h[1]] = header[h[1]]
    BY <1>4, <2>1 DEF Unused
  <2> QED
    BY <1>1, <2>1, <2>2
<1>9. FilledBlocks(own2, kind2, who2)'
  <2> SUFFICES ASSUME NEW v \in Users, NEW w, w = step'[v], w.at = "fill"
               PROVE  /\ kind2[w.block] = "fill" /\ who2[w.block] = v
                      /\ w.asked <= w.usable
                      /\ Extent(w.usable, w.mlen) /\ Block(own2, w.block, w.usable)
                      /\ w.old # Null =>
                           kind2[w.old] = "old" /\ who2[w.old] = v /\ Written(own2, w.old)'
    BY DEF FilledBlocks, FillOk, Written, Block, Extent
  <2>1. CASE v = t
    BY <1>1, <1>2, <1>4, <1>6, <2>1
  <2>2. CASE v # t
    <3>1. w = step[v] /\ step[v].at = "fill" /\ step[v] \in FillOps
      BY <1>2, <2>2, StepTyped
    <3>2. w.block \in Addr /\ w.usable \in Nat /\ w.old \in Addr \cup {Null}
      BY <3>1 DEF FillOps
    <3>3. /\ kind[w.block] = "fill" /\ who[w.block] = v
          /\ w.asked <= w.usable
          /\ Extent(w.usable, w.mlen) /\ Block(own, w.block, w.usable)
          /\ w.old # Null => kind[w.old] = "old" /\ who[w.old] = v /\ Written(own, w.old)
      BY <3>1 DEF Owners, FilledBlocks, FillOk
    <3>4. w.block # b /\ Block(own2, w.block, w.usable) /\ w.block # old
      BY <1>6, <3>1, <3>2, <3>3 DEF Addr, Null, Unused
    <3>5. w.old # Null => w.old # b /\ w.old # old /\ Written(own2, w.old)'
      BY <1>4, <1>6, <3>1, <3>2, <3>3 DEF Unused
    <3> QED
      BY <1>1, <3>2, <3>3, <3>4, <3>5
  <2> QED
    BY <2>1, <2>2
<1>10. FreedBlocks(own2, kind2, who2)'
  <2> SUFFICES ASSUME NEW v \in Users, NEW w, w = step'[v], w.at = "free"
               PROVE  kind2[w.block] = "free" /\ who2[w.block] = v /\ Written(own2, w.block)'
    BY DEF FreedBlocks, FreeOk, Written, Block, Extent
  <2>1. w = step[v] /\ step[v].at = "free" /\ step[v] \in FreeOps
    BY <1>2, StepTyped
  <2>2. w.block \in Addr /\ kind[w.block] = "free" /\ who[w.block] = v /\ Written(own, w.block)
    BY <2>1 DEF Owners, FreedBlocks, FreeOk, FreeOps
  <2>3. w.block # b /\ Written(own2, w.block)' /\ w.block # old
    BY <1>4, <1>6, <2>1, <2>2 DEF Addr, Null, Unused
  <2> QED
    BY <1>1, <2>2, <2>3
<1>11. Owners(own2, kind2, who2)'
  BY <1>3, <1>7, <1>8, <1>9, <1>10 DEF Owners
<1> QED
  BY <1>11 DEF AllocInv

\* The same for a block where nothing was: lists do not notice.
LEMMA FreshBlock ==
  ASSUME AllocTypes, AllocTypes', NEW own, NEW kind, NEW who, Owners(own, kind, who),
         NEW t \in Users, step[t].at = "ready",
         NEW b \in Addr, NEW u \in Nat, NEW m \in Nat, NEW n \in Nat, NEW old \in Addr \cup {Null},
         n <= u, Extent(u, m),
         Takes(t, [at |-> "fill", block |-> b, usable |-> u, mlen |-> m, asked |-> n, old |-> old]),
         NEW own2 \in [Addr -> Int], Block(own2, b, u), own[b] <= 0,
         \A a \in Addr : own2[a] # 0 => a \in mapped',
         \A a \in Addr : own[a] > 0 => own2[a] = own[a] /\ header'[a] = header[a],
         ArenaRest(own2)', UNCHANGED freeList,
         \/ old = Null /\ UNCHANGED held
         \/ \E h \in held : old = h[1] /\ held' = held \ {h}
  PROVE  AllocInv'
<1> DEFINE kind2 == GivenKind(kind, b, old)
           who2 == GivenWho(who, b, old, t)
<1>1. /\ \A a \in Addr : a # b /\ a # old => kind2[a] = kind[a] /\ who2[a] = who[a]
      /\ \A a \in Addr : kind2[a] \notin {"fill", "old"} => a # b /\ a # old
  <2>1. OwnTypes(own, kind)
    BY DEF Owners
  <2>2. GivenWho(who, b, old, t) = who2 /\ GivenKind(kind, b, old) = kind2
    OBVIOUS
  <2> HIDE DEF kind2, who2
  <2> QED
    BY <2>1, <2>2, GivenAway
<1> HIDE DEF kind2, who2
<1>2. \A x \in Addr, v \in Nat : Block(own, x, v) =>
        x # b /\ Block(own2, x, v) /\ header'[x] = header[x]
  BY BaseOwned DEF Block
<1>3. \A x \in Addr, v \in Nat : x # b /\ Block(own, x, v) => Block(own2, x, v) /\ header'[x] = header[x]
  BY <1>2
<1>4. \A x \in Addr : Written(own, x) => x # b
  BY <1>2 DEF Written, AllocTypes
<1>5. Unused(b)
  <2>1. \A h \in held : h[1] # b
    BY <1>4, HeldTyped
  <2>2. ASSUME NEW v \in Users, step[v].at = "fill"
        PROVE  step[v].block # b /\ (step[v].old # Null => step[v].old # b)
    <3>1. step[v] \in FillOps
      BY <2>2, StepTyped
    <3> QED
      BY <1>2, <1>4, <2>2, <3>1 DEF Owners, FilledBlocks, FillOk, FillOps
  <2>3. ASSUME NEW v \in Users, step[v].at = "free"
        PROVE  step[v].block # b
    <3>1. step[v] \in FreeOps
      BY <2>3, StepTyped
    <3> QED
      BY <1>4, <2>3, <3>1 DEF Owners, FreedBlocks, FreeOk, FreeOps
  <2> QED
    BY <2>1, <2>2, <2>3 DEF Unused
<1>6. old # Null => old \in Addr /\ kind[old] = "held"
  BY HeldTyped
<1>7. ListBlocks(own2, kind2, who2)'
  <2>1. \A c \in Classes : c \in Nat
    BY AllocAssumption
  <2>2. \A c \in Classes, x \in Addr : InList(kind, who, c, x) =>
          /\ header[x].usable = c /\ Block(own, x, c)
          /\ header[x].mlen # 0 =>
               /\ InList(kind, who, c, header[x].mlen)
               /\ header[x].mlen # freeList[c]
               /\ \A y \in Addr : InList(kind, who, c, y) /\ header[y].mlen = header[x].mlen => y = x
    BY DEF Owners, ListBlocks
  <2>3. \A c \in Classes, x \in Addr : InList(kind2, who2, c, x) <=> InList(kind, who, c, x)
    <3>1. \A c \in Classes, x \in Addr : InList(kind, who, c, x) => x # b /\ x # old
      BY <1>2, <1>6, <2>1, <2>2 DEF InList, Addr, Null
    <3>2. \A c \in Classes, x \in Addr : InList(kind2, who2, c, x) => x # b /\ x # old
      BY <1>1 DEF InList
    <3> QED
      BY <1>1, <3>1, <3>2 DEF InList
  <2>4. \A c \in Classes, x \in Addr : InList(kind, who, c, x) => header'[x] = header[x] /\ Block(own2, x, c)
    BY <1>2, <2>1, <2>2
  <2>5. \A c \in Classes : freeList[c] # Null => InList(kind2, who2, c, freeList[c])
    BY <2>3 DEF Owners, ListBlocks, InList
  <2>6. ASSUME NEW c \in Classes, NEW x \in Addr, InList(kind2, who2, c, x)
        PROVE  /\ header'[x].usable = c /\ Block(own2, x, c)
               /\ header'[x].mlen # 0 =>
                    /\ InList(kind2, who2, c, header'[x].mlen)
                    /\ header'[x].mlen # freeList[c]
                    /\ \A y \in Addr : InList(kind2, who2, c, y) /\ header'[y].mlen = header'[x].mlen => y = x
    <3>1. InList(kind, who, c, x) /\ header'[x] = header[x] /\ Block(own2, x, c)
      BY <2>3, <2>4, <2>6
    <3>2. header[x].mlen # 0 => header[x].mlen \in Addr /\ InList(kind2, who2, c, header[x].mlen)
      BY <2>2, <2>3, <3>1 DEF InList
    <3>3. \A y \in Addr : InList(kind2, who2, c, y) => InList(kind, who, c, y) /\ header'[y] = header[y]
      BY <2>3, <2>4
    <3> QED
      BY <2>2, <3>1, <3>2, <3>3
  <2> QED
    BY <2>5, <2>6 DEF ListBlocks, InList, Block
<1>8. ListBlocks(own2, GivenKind(kind, b, old), GivenWho(who, b, old, t))'
  BY <1>7 DEF kind2, who2
<1> QED
  BY <1>3, <1>5, <1>8, GiveBlock

\* The caller of an allocation: a malloc, or a realloc that gives up its block.
Gives(old) ==
  \/ old = Null /\ UNCHANGED held
  \/ \E h \in held : old = h[1] /\ held' = held \ {h}

\* The types after an allocation.
LEMMA TypesAfterAlloc ==
  ASSUME AllocTypes, NEW t \in Users, NEW old \in Addr \cup {Null}, Gives(old),
         NEW b \in Addr, NEW u \in Nat, NEW m \in Nat, NEW n \in Nat,
         Takes(t, [at |-> "fill", block |-> b, usable |-> u, mlen |-> m, asked |-> n, old |-> old])
  PROVE  step' \in [Users -> AllocOps] /\ held' \in SUBSET (Addr \X Nat)
<1>1. [at |-> "fill", block |-> b, usable |-> u, mlen |-> m, asked |-> n, old |-> old] \in AllocOps
  BY DEF AllocOps, FillOps
<1>2. step' \in [Users -> AllocOps]
  BY <1>1 DEF Takes, AllocTypes
<1>3. held' \in SUBSET (Addr \X Nat)
  BY DEF Gives, AllocTypes
<1> QED
  BY <1>2, <1>3

\* A fresh mapping is nobody's, and wipes only headers there.
LEMMA MappedFresh ==
  ASSUME AllocTypes, NEW own, NEW kind, NEW who, Owners(own, kind, who),
         NEW len \in Nat, len > 0, Bases(len) # {}, MapAt(Lowest(Bases(len)), len)
  PROVE  \E b \in Addr :
           /\ b = Lowest(Bases(len))
           /\ \A a \in Span(b, len) : a \in Addr /\ own[a] = 0
           /\ mapped' = mapped \cup Span(b, len) /\ mapped' \in SUBSET Addr
           /\ header' \in [Addr -> [usable : Nat, mlen : Nat]]
           /\ \A a \in Addr : own[a] # 0 => header'[a] = header[a]
<1> DEFINE b == Lowest(Bases(len))
<1>1. b \in Nat \ {0} /\ \A a \in Span(b, len) : a \in Addr /\ a \notin mapped
  BY PlaceForMapping
<1>2. mapped' = mapped \cup Span(b, len)
      /\ header' = [a \in DOMAIN header |-> IF a \in Span(b, len) THEN Blank ELSE header[a]]
  BY DEF MapAt
<1> HIDE DEF b
<1>3. \A a \in Span(b, len) : own[a] = 0
  BY <1>1 DEF Owners, OwnTypes
<1>4. b \in Span(b, len)
  BY <1>1 DEF Span
<1>5. Blank \in [usable : Nat, mlen : Nat]
  BY DEF Blank
<1>6. header' \in [Addr -> [usable : Nat, mlen : Nat]]
  BY <1>2, <1>5 DEF AllocTypes
<1>7. \A a \in Addr : own[a] # 0 => header'[a] = header[a]
  BY <1>2, <1>3 DEF AllocTypes
<1>8. mapped' \in SUBSET Addr
  BY <1>1, <1>2 DEF AllocTypes
<1> QED
  BY <1>1, <1>2, <1>3, <1>4, <1>6, <1>7, <1>8 DEF b

\* A large block gets a mapping of its own, which was nobody's.
LEMMA AllocLargeStep ==
  ASSUME AllocInv, NEW t \in Users, step[t].at = "ready", NEW n \in Nat,
         NEW old \in Addr \cup {Null}, Gives(old), AllocLarge(t, n, old)
  PROVE  AllocInv'
<1>1. AllocTypes
  BY DEF AllocInv
<1>2. PICK own, kind, who : Owners(own, kind, who)
  BY DEF AllocInv
<1>3. /\ Bases(n + 1) # {} /\ MapAt(Lowest(Bases(n + 1)), n + 1)
      /\ UNCHANGED <<freeList, bump, end>>
      /\ Takes(t, [at |-> "fill", block |-> Lowest(Bases(n + 1)), usable |-> n, mlen |-> n + 1,
                   asked |-> n, old |-> old])
  BY DEF AllocLarge
<1>4. PICK b \in Addr :
        /\ b = Lowest(Bases(n + 1))
        /\ \A a \in Span(b, n + 1) : a \in Addr /\ own[a] = 0
        /\ mapped' = mapped \cup Span(b, n + 1) /\ mapped' \in SUBSET Addr
        /\ header' \in [Addr -> [usable : Nat, mlen : Nat]]
        /\ \A a \in Addr : own[a] # 0 => header'[a] = header[a]
  BY <1>1, <1>2, <1>3, MappedFresh
<1> DEFINE own2 == [a \in Addr |-> IF a \in Span(b, n + 1) THEN b ELSE own[a]]
<1>5. own \in [Addr -> Int] /\ b \in Int
  BY <1>2 DEF Owners, OwnTypes, Addr
<1>6. own2 \in [Addr -> Int] /\ \A a \in Addr : own2[a] = IF a \in Span(b, n + 1) THEN b ELSE own[a]
  BY <1>5
<1> HIDE DEF own2
<1>7. Takes(t, [at |-> "fill", block |-> b, usable |-> n, mlen |-> n + 1, asked |-> n, old |-> old])
  BY <1>3, <1>4
<1>8. AllocTypes'
  <2>1. step' \in [Users -> AllocOps] /\ held' \in SUBSET (Addr \X Nat)
    <3>1. n + 1 \in Nat
      OBVIOUS
    <3> QED
      BY <1>1, <1>7, <3>1, TypesAfterAlloc
  <2> QED
    BY <1>1, <1>3, <1>4, <2>1 DEF AllocTypes
<1>9. Block(own2, b, n)
  BY <1>4, <1>6 DEF Block
<1>10. own[b] <= 0
  BY <1>4 DEF Span, Addr
<1>11. \A a \in Addr : own2[a] # 0 => a \in mapped'
  BY <1>2, <1>4, <1>6 DEF Owners, OwnTypes
<1>12. \A a \in Addr : own[a] > 0 => own2[a] = own[a] /\ header'[a] = header[a]
  BY <1>4, <1>5, <1>6
<1>13. ArenaRest(own2)'
  BY <1>2, <1>3, <1>4, <1>6 DEF Owners, ArenaRest, ArenaOwn
<1>14. Extent(n, n + 1)
  BY DEF Extent
<1> QED
  BY <1>1, <1>2, <1>3, <1>6, <1>7, <1>8, <1>9, <1>10, <1>11, <1>12, <1>13, <1>14, FreshBlock
     DEF Gives

\* A block is cut from the arena's rest, or from a new arena.
LEMMA AllocBumpStep ==
  ASSUME AllocInv, NEW t \in Users, step[t].at = "ready", NEW n \in Nat,
         NEW old \in Addr \cup {Null}, Gives(old), AllocBump(t, n, old)
  PROVE  AllocInv'
<1>1. AllocTypes
  BY DEF AllocInv
<1>2. PICK own, kind, who : Owners(own, kind, who)
  BY DEF AllocInv
<1> DEFINE c == ClassOf(n)
           fits == bump # Null /\ bump + c + 1 <= end
           b == IF fits THEN bump ELSE Lowest(Bases(Arena))
<1>3. c \in Classes /\ c \in Nat /\ n <= c /\ c + 1 <= Arena /\ Arena \in Nat
  BY ClassFits, AllocAssumption DEF AllocBump
<1>4. /\ fits \/ Bases(Arena) # {}
      /\ fits => UNCHANGED <<mapped, header, end>>
      /\ ~fits => MapAt(b, Arena) /\ end' = b + Arena
      /\ bump' = b + c + 1 /\ UNCHANGED freeList
      /\ Takes(t, [at |-> "fill", block |-> b, usable |-> c, mlen |-> 0, asked |-> n, old |-> old])
  BY DEF AllocBump
<1>5. own \in [Addr -> Int]
  BY <1>2 DEF Owners, OwnTypes
\* Where the block is cut from: nobody's memory, of which the rest is the arena's.
<1>6. /\ b \in Addr /\ mapped' \in SUBSET Addr /\ mapped \subseteq mapped'
      /\ header' \in [Addr -> [usable : Nat, mlen : Nat]]
      /\ \A a \in Addr : own[a] # 0 /\ own[a] # ArenaOwn => header'[a] = header[a]
      /\ end' \in Nat /\ b + c + 1 <= end'
      /\ \A a \in Span(b, end' - b) : a \in Addr /\ a \in mapped' /\ own[a] \in {0, ArenaOwn}
  <2>1. CASE fits
    <3>1. b = bump /\ UNCHANGED <<mapped, header, end>>
      BY <1>4, <2>1
    <3>2. bump \in Nat /\ end \in Nat /\ bump + c + 1 <= end
      BY <1>1, <2>1 DEF AllocTypes
    <3> HIDE DEF b, c
    <3>3. \A a \in Span(bump, end - bump) : a \in Addr /\ own[a] = ArenaOwn
      BY <1>2 DEF Owners, ArenaRest
    <3>4. \A a \in Span(bump, end - bump) : a \in mapped
      BY <1>2, <3>3 DEF Owners, OwnTypes, ArenaOwn
    <3>5. bump \in Span(bump, end - bump)
      BY <1>3, <3>2 DEF Span
    <3> QED
      BY <1>1, <3>1, <3>2, <3>3, <3>4, <3>5 DEF AllocTypes
  <2>2. CASE ~fits
    <3>1. b = Lowest(Bases(Arena)) /\ MapAt(b, Arena) /\ end' = b + Arena /\ Bases(Arena) # {}
      BY <1>4, <2>2
    <3> HIDE DEF b, c
    <3>2. MapAt(Lowest(Bases(Arena)), Arena) /\ Arena > 0
      BY <1>3, <3>1
    <3>3. PICK x \in Addr :
            /\ x = Lowest(Bases(Arena))
            /\ \A a \in Span(x, Arena) : a \in Addr /\ own[a] = 0
            /\ mapped' = mapped \cup Span(x, Arena) /\ mapped' \in SUBSET Addr
            /\ header' \in [Addr -> [usable : Nat, mlen : Nat]]
            /\ \A a \in Addr : own[a] # 0 => header'[a] = header[a]
      BY <1>1, <1>2, <1>3, <3>1, <3>2, MappedFresh
    <3>4. x \in Nat /\ b = x /\ end' = x + Arena /\ end' \in Nat /\ end' - b = Arena /\ b + c + 1 <= end'
      BY <1>3, <3>1, <3>3 DEF Addr
    <3> QED
      BY <3>3, <3>4
  <2> QED
    BY <2>1, <2>2
<1> HIDE DEF b, c, fits
<1>7. b \in Nat /\ \A a : a \in Span(b, c + 1) => a \in Span(b, end' - b)
  BY <1>3, <1>6 DEF Span, Addr
<1>8. PICK own2 \in [Addr -> Int] :
        \A a \in Addr : own2[a] = IF a \in Span(b, c + 1) THEN b
                                  ELSE IF a \in Span(b, end' - b) THEN ArenaOwn
                                  ELSE IF own[a] = ArenaOwn THEN 0 ELSE own[a]
  <2> DEFINE f == [a \in Addr |-> IF a \in Span(b, c + 1) THEN b
                                  ELSE IF a \in Span(b, end' - b) THEN ArenaOwn
                                  ELSE IF own[a] = ArenaOwn THEN 0 ELSE own[a]]
  <2>1. f \in [Addr -> Int]
    BY <1>5, <1>7 DEF ArenaOwn
  <2> QED
    BY <2>1
<1>9. AllocTypes'
  <2>1. bump' \in Nat
    BY <1>3, <1>4, <1>7
  <2>2. step' \in [Users -> AllocOps] /\ held' \in SUBSET (Addr \X Nat)
    BY <1>1, <1>3, <1>4, <1>6, TypesAfterAlloc
  <2> QED
    BY <1>1, <1>4, <1>6, <2>1, <2>2 DEF AllocTypes
<1>10. Block(own2, b, c)
  BY <1>6, <1>7, <1>8 DEF Block
<1>11. own[b] <= 0
  <2>1. PICK e \in Nat : e = end' /\ b + c + 1 <= e
    BY <1>6
  <2>2. b \in Span(b, e - b)
    BY <1>3, <1>7, <2>1, SpanSplit
  <2>3. own[b] \in {0, ArenaOwn}
    BY <1>6, <2>1, <2>2
  <2> QED
    BY <2>3 DEF ArenaOwn
<1>12. \A a \in Addr : own2[a] # 0 => a \in mapped'
  BY <1>2, <1>6, <1>7, <1>8 DEF Owners, OwnTypes
<1>13. \A a \in Addr : own[a] > 0 => own2[a] = own[a] /\ header'[a] = header[a]
  <2> SUFFICES ASSUME NEW a \in Addr, own[a] > 0
               PROVE  own2[a] = own[a] /\ header'[a] = header[a]
    OBVIOUS
  <2>1. own[a] # 0 /\ own[a] # ArenaOwn
    BY <1>5 DEF ArenaOwn
  <2>2. a \notin Span(b, end' - b) /\ a \notin Span(b, c + 1)
    BY <1>6, <1>7, <2>1
  <2> QED
    BY <1>6, <1>8, <2>1, <2>2
<1>14. ArenaRest(own2)'
  <2>1. bump' # Null
    BY <1>3, <1>4, <1>7 DEF Null
  <2>2. PICK e \in Nat : e = end' /\ b + c + 1 <= e
    BY <1>6
  <2>3. bump' = b + c + 1 /\ bump' \in Nat
    BY <1>3, <1>4, <1>7
  <2>4. \A a \in Span(b + c + 1, e - (b + c + 1)) : a \in Span(b, e - b) /\ a \notin Span(b, c + 1)
    BY <1>3, <1>7, <2>2, SpanSplit
  <2>5. \A a \in Span(bump', end' - bump') : a \in Addr /\ own2[a] = ArenaOwn
    BY <1>6, <1>8, <2>2, <2>3, <2>4
  <2> QED
    BY <2>1, <2>5 DEF ArenaRest, Span
<1>15. Extent(c, 0)
  BY <1>3 DEF Extent
<1>16. /\ UNCHANGED freeList
       /\ Takes(t, [at |-> "fill", block |-> b, usable |-> c, mlen |-> 0, asked |-> n, old |-> old])
  BY <1>4
<1>17. b \in Addr /\ c \in Nat /\ n <= c /\ 0 \in Nat /\ own2 \in [Addr -> Int]
  BY <1>3, <1>6, <1>8
<1> QED
  BY <1>1, <1>2, <1>9, <1>10, <1>11, <1>12, <1>13, <1>14, <1>15, <1>16, <1>17, FreshBlock
     DEF Gives

\* A block popped from the free list was nobody's, and the next one becomes the head.
LEMMA AllocPopStep ==
  ASSUME AllocInv, NEW t \in Users, step[t].at = "ready", NEW n \in Nat,
         NEW old \in Addr \cup {Null}, Gives(old), AllocPop(t, n, old)
  PROVE  AllocInv'
<1>1. AllocTypes
  BY DEF AllocInv
<1>2. PICK own, kind, who : Owners(own, kind, who)
  BY DEF AllocInv
<1>3. PICK c \in Classes : c = ClassOf(n) /\ c \in Nat /\ n <= c
  BY ClassFits DEF AllocPop
<1>4. PICK b \in Addr : b = freeList[c]
  BY <1>1, <1>3 DEF AllocPop, AllocTypes
<1>5. /\ freeList' = [freeList EXCEPT ![c] = header[b].mlen]
      /\ Takes(t, [at |-> "fill", block |-> b, usable |-> c, mlen |-> 0, asked |-> n, old |-> old])
      /\ UNCHANGED <<mapped, header, bump, end>>
  BY <1>3, <1>4 DEF AllocPop
<1>6. \A d \in Classes, x \in Addr : InList(kind, who, d, x) =>
        /\ header[x].usable = d /\ Block(own, x, d)
        /\ header[x].mlen # 0 =>
             /\ InList(kind, who, d, header[x].mlen)
             /\ header[x].mlen # freeList[d]
             /\ \A y \in Addr : InList(kind, who, d, y) /\ header[y].mlen = header[x].mlen => y = x
  BY <1>2 DEF Owners, ListBlocks
<1>7. \A d \in Classes : freeList[d] # Null => InList(kind, who, d, freeList[d])
  BY <1>2 DEF Owners, ListBlocks
<1>8. InList(kind, who, c, b) /\ Block(own, b, c) /\ kind[b] = "list"
  BY <1>4, <1>6, <1>7 DEF InList, Addr, Null
<1>9. old # Null => old \in Addr /\ kind[old] = "held" /\ old # b
  BY <1>1, <1>2, <1>8, HeldTyped DEF Gives
<1>10. header[b].mlen \in Addr \cup {Null}
  BY <1>6, <1>8 DEF InList, Null
<1>11. AllocTypes'
  <2>1. 0 \in Nat /\ c \in Nat
    BY <1>3
  <2>2. step' \in [Users -> AllocOps] /\ held' \in SUBSET (Addr \X Nat)
    BY <1>1, <1>5, <2>1, TypesAfterAlloc
  <2> QED
    BY <1>1, <1>5, <1>10, <2>2 DEF AllocTypes
<1>12. Unused(b)
  <2>1. \A h \in held : h[1] # b
    BY <1>1, <1>2, <1>8, HeldTyped
  <2>2. \A v \in Users : step[v].at = "fill" => step[v].block # b /\ (step[v].old # Null => step[v].old # b)
    BY <1>2, <1>8 DEF Owners, FilledBlocks, FillOk
  <2>3. \A v \in Users : step[v].at = "free" => step[v].block # b
    BY <1>2, <1>8 DEF Owners, FreedBlocks, FreeOk
  <2> QED
    BY <2>1, <2>2, <2>3 DEF Unused
<1> DEFINE kind2 == GivenKind(kind, b, old)
           who2 == GivenWho(who, b, old, t)
<1>13. /\ \A a \in Addr : a # b /\ a # old => kind2[a] = kind[a] /\ who2[a] = who[a]
       /\ \A a \in Addr : kind2[a] \notin {"fill", "old"} => a # b /\ a # old
  <2>1. OwnTypes(own, kind)
    BY <1>2 DEF Owners
  <2>2. \A a \in Addr : a # b /\ a # old => kind2[a] = kind[a] /\ who2[a] = who[a]
    BY <2>1, GivenAway
  <2>3. \A a \in Addr : kind2[a] \notin {"fill", "old"} => a # b /\ a # old
    BY <2>1, GivenAway
  <2> QED
    BY <2>2, <2>3
<1> HIDE DEF kind2, who2
<1>14. \A d \in Classes, x \in Addr : InList(kind2, who2, d, x) <=> InList(kind, who, d, x) /\ x # b
  <2>1. \A d \in Classes, x \in Addr : InList(kind2, who2, d, x) => x # b /\ x # old
    BY <1>13 DEF InList
  <2>2. \A d \in Classes, x \in Addr : InList(kind, who, d, x) => x # old
    BY <1>9 DEF InList, Addr, Null
  <2> QED
    BY <1>13, <2>1, <2>2 DEF InList
<1>15. ListBlocks(own, kind2, who2)'
  <2>1. ASSUME NEW d \in Classes, freeList'[d] # Null
        PROVE  freeList'[d] \in Addr /\ InList(kind2, who2, d, freeList'[d])
    <3>1. CASE d = c
      <4>1. freeList'[d] = header[b].mlen
        BY <1>1, <1>5, <3>1 DEF AllocTypes
      <4>2. header[b].mlen \in Addr /\ InList(kind, who, c, header[b].mlen) /\ header[b].mlen # b
        BY <1>4, <1>6, <1>8, <1>10, <2>1, <4>1 DEF Null
      <4> QED
        BY <1>14, <3>1, <4>1, <4>2
    <3>2. CASE d # c
      <4>1. freeList'[d] = freeList[d]
        BY <1>1, <1>5, <3>2 DEF AllocTypes
      <4>2. InList(kind, who, d, freeList[d]) /\ freeList[d] # b /\ freeList[d] \in Addr
        BY <1>7, <1>8, <2>1, <3>2, <4>1 DEF InList
      <4> QED
        BY <1>14, <4>1, <4>2
    <3> QED
      BY <3>1, <3>2
  <2>2. ASSUME NEW d \in Classes, NEW x \in Addr, InList(kind2, who2, d, x)
        PROVE  /\ header[x].usable = d /\ Block(own, x, d)
               /\ header[x].mlen # 0 =>
                    /\ InList(kind2, who2, d, header[x].mlen)
                    /\ header[x].mlen # freeList'[d]
                    /\ \A y \in Addr : InList(kind2, who2, d, y) /\ header[y].mlen = header[x].mlen => y = x
    <3>1. InList(kind, who, d, x) /\ x # b
      BY <1>14, <2>2
    <3>2. header[x].usable = d /\ Block(own, x, d)
      BY <1>6, <3>1
    <3>3. ASSUME header[x].mlen # 0
          PROVE  /\ InList(kind2, who2, d, header[x].mlen)
                 /\ header[x].mlen # freeList'[d]
                 /\ \A y \in Addr : InList(kind2, who2, d, y) /\ header[y].mlen = header[x].mlen => y = x
      <4>1. /\ InList(kind, who, d, header[x].mlen) /\ header[x].mlen \in Addr
            /\ header[x].mlen # freeList[d]
            /\ \A y \in Addr : InList(kind, who, d, y) /\ header[y].mlen = header[x].mlen => y = x
        BY <1>6, <3>1, <3>3 DEF InList
      <4>2. header[x].mlen # b
        BY <1>4, <1>8, <4>1 DEF InList
      <4>3. header[x].mlen # freeList'[d]
        <5>1. CASE d = c
          BY <1>1, <1>5, <1>8, <3>1, <4>1, <5>1 DEF AllocTypes
        <5>2. CASE d # c
          BY <1>1, <1>5, <4>1, <5>2 DEF AllocTypes
        <5> QED
          BY <5>1, <5>2
      <4> QED
        BY <1>14, <4>1, <4>2, <4>3
    <3> QED
      BY <3>2, <3>3
  <2> QED
    BY <1>5, <2>1, <2>2 DEF ListBlocks, InList
<1>16. ListBlocks(own, GivenKind(kind, b, old), GivenWho(who, b, old, t))'
  BY <1>15 DEF kind2, who2
<1>17. /\ own \in [Addr -> Int]
       /\ \A a \in Addr : own[a] # 0 => a \in mapped'
       /\ \A x \in Addr, v \in Nat : x # b /\ Block(own, x, v) => Block(own, x, v) /\ header'[x] = header[x]
  BY <1>2, <1>5 DEF Owners, OwnTypes
<1>18. ArenaRest(own)'
  BY <1>2, <1>5 DEF Owners, ArenaRest
<1>19. Extent(c, 0) /\ c \in Nat /\ 0 \in Nat
  BY <1>3 DEF Extent
<1> QED
  BY <1>1, <1>2, <1>3, <1>5, <1>8, <1>11, <1>12, <1>16, <1>17, <1>18, <1>19, GiveBlock
     DEF Gives

\* An allocation, whichever way, keeps the invariant.
LEMMA AllocStep ==
  ASSUME AllocInv, NEW t \in Users, step[t].at = "ready", NEW n \in Nat,
         NEW old \in Addr \cup {Null}, Gives(old), Alloc(t, n, old)
  PROVE  AllocInv'
BY AllocLargeStep, AllocPopStep, AllocBumpStep DEF Alloc

\* Whoever has no block among C keeps it: the rest of an ownership that changes.
LEMMA WrittenStays ==
  ASSUME AllocTypes, NEW own, NEW kind, NEW who, Owners(own, kind, who),
         NEW own2, NEW kind2, NEW who2, NEW C,
         \A x \in Addr : x \notin C => kind2[x] = kind[x] /\ who2[x] = who[x],
         \A x \in Addr, v \in Nat : x \notin C /\ Block(own, x, v) => Block(own2, x, v) /\ header'[x] = header[x]
  PROVE  \A x \in Addr : x \notin C /\ Written(own, x) => Written(own2, x)' /\ header'[x] = header[x]
<1> SUFFICES ASSUME NEW x \in Addr, x \notin C, Written(own, x)
             PROVE  Written(own2, x)' /\ header'[x] = header[x]
  OBVIOUS
<1>1. header[x].usable \in Nat
  BY DEF AllocTypes
<1>2. Block(own2, x, header[x].usable) /\ header'[x] = header[x]
  BY <1>1 DEF Written
<1> QED
  BY <1>2 DEF Written, Extent, Block

\* Lists whose blocks nobody touched.
LEMMA ListsUntouched ==
  ASSUME AllocTypes, NEW own, NEW kind, NEW who, Owners(own, kind, who),
         NEW own2, NEW kind2, NEW who2, UNCHANGED freeList,
         \A c \in Classes, x \in Addr : InList(kind2, who2, c, x) <=> InList(kind, who, c, x),
         \A x \in Addr, v \in Nat : kind[x] = "list" /\ Block(own, x, v) =>
           Block(own2, x, v) /\ header'[x] = header[x]
  PROVE  ListBlocks(own2, kind2, who2)'
<1>1. \A c \in Classes : c \in Nat
  BY AllocAssumption
<1>2. \A c \in Classes, x \in Addr : InList(kind, who, c, x) =>
        /\ header[x].usable = c /\ Block(own, x, c)
        /\ header[x].mlen # 0 =>
             /\ InList(kind, who, c, header[x].mlen)
             /\ header[x].mlen # freeList[c]
             /\ \A y \in Addr : InList(kind, who, c, y) /\ header[y].mlen = header[x].mlen => y = x
  BY DEF Owners, ListBlocks
<1>3. \A c \in Classes, x \in Addr : InList(kind, who, c, x) => header'[x] = header[x] /\ Block(own2, x, c)
  BY <1>1, <1>2 DEF InList
<1>4. \A c \in Classes : freeList[c] # Null => InList(kind2, who2, c, freeList[c])
  BY DEF Owners, ListBlocks, InList
<1>5. ASSUME NEW c \in Classes, NEW x \in Addr, InList(kind2, who2, c, x)
      PROVE  /\ header'[x].usable = c /\ Block(own2, x, c)
             /\ header'[x].mlen # 0 =>
                  /\ InList(kind2, who2, c, header'[x].mlen)
                  /\ header'[x].mlen # freeList[c]
                  /\ \A y \in Addr : InList(kind2, who2, c, y) /\ header'[y].mlen = header'[x].mlen => y = x
  <2>1. InList(kind, who, c, x) /\ header'[x] = header[x] /\ Block(own2, x, c)
    BY <1>3, <1>5
  <2>2. header[x].mlen # 0 => header[x].mlen \in Addr /\ InList(kind2, who2, c, header[x].mlen)
    BY <1>2, <2>1 DEF InList
  <2>3. \A y \in Addr : InList(kind2, who2, c, y) => InList(kind, who, c, y) /\ header'[y] = header[y]
    BY <1>3
  <2> QED
    BY <1>2, <2>1, <2>2, <2>3
<1> QED
  BY <1>4, <1>5 DEF ListBlocks, InList, Block

\* Writing the header outside the lock keeps it: the block is the thread's own.
LEMMA WriteHeaderStep ==
  ASSUME AllocInv, NEW t \in Users, WriteHeader(t)
  PROVE  AllocInv'
<1>1. AllocTypes
  BY DEF AllocInv
<1>2. PICK own, kind, who : Owners(own, kind, who)
  BY DEF AllocInv
<1>3. PICK w \in FillOps : w = step[t] /\ w.at = "fill"
  BY <1>1, StepTyped DEF WriteHeader
<1>4. PICK b \in Addr, old \in Addr \cup {Null} : b = w.block /\ old = w.old
  BY <1>3 DEF FillOps
<1>5. w.usable \in Nat /\ w.mlen \in Nat /\ w.asked \in Nat
  BY <1>3 DEF FillOps
<1>6. /\ header' = [header EXCEPT ![b] = [usable |-> w.usable, mlen |-> w.mlen]]
      /\ held' = held \cup {<<b, w.asked>>}
      /\ Takes(t, IF old = Null THEN Ready ELSE [at |-> "free", block |-> old])
      /\ UNCHANGED <<mapped, freeList, bump, end>>
  BY <1>3, <1>4 DEF WriteHeader
<1>7. /\ kind[b] = "fill" /\ who[b] = t /\ w.asked <= w.usable
      /\ Extent(w.usable, w.mlen) /\ Block(own, b, w.usable)
      /\ old # Null => kind[old] = "old" /\ who[old] = t /\ Written(own, old)
  BY <1>2, <1>3, <1>4 DEF Owners, FilledBlocks, FillOk
<1>8. /\ header' \in [Addr -> [usable : Nat, mlen : Nat]]
      /\ header'[b].usable = w.usable /\ header'[b].mlen = w.mlen
      /\ \A x \in Addr : x # b => header'[x] = header[x]
  BY <1>1, <1>5, <1>6 DEF AllocTypes
<1> DEFINE r == IF old = Null THEN Ready ELSE [at |-> "free", block |-> old]
<1>9. r \in AllocOps /\ r.at # "fill" /\ (r.at = "free" => old # Null /\ r.block = old)
  BY <1>4 DEF AllocOps, FreeOps, Ready
<1>10. step' \in [Users -> AllocOps] /\ step'[t] = r /\ \A v \in Users : v # t => step'[v] = step[v]
  BY <1>1, <1>6, <1>9 DEF Takes, AllocTypes
<1> HIDE DEF r
<1>11. held' \in SUBSET (Addr \X Nat)
  BY <1>1, <1>5, <1>6 DEF AllocTypes
<1>12. AllocTypes'
  BY <1>1, <1>6, <1>8, <1>10, <1>11 DEF AllocTypes
<1>13. kind \in [Addr -> Kinds]
  BY <1>2 DEF Owners, OwnTypes
<1>14. PICK kind2 \in [Addr -> Kinds] :
         \A x \in Addr : kind2[x] = IF x = b THEN "held" ELSE IF x = old THEN "free" ELSE kind[x]
  <2>1. [x \in Addr |-> IF x = b THEN "held" ELSE IF x = old THEN "free" ELSE kind[x]] \in [Addr -> Kinds]
    BY <1>13 DEF Kinds
  <2> QED
    BY <2>1
<1>15. PICK who2 : \A x \in Addr : who2[x] = IF x = b THEN w.asked ELSE who[x]
  <2> DEFINE f == [x \in Addr |-> IF x = b THEN w.asked ELSE who[x]]
  <2>1. \A x \in Addr : f[x] = IF x = b THEN w.asked ELSE who[x]
    OBVIOUS
  <2> QED
    BY <2>1, Zenon
<1>16. \A x \in Addr : x \notin {b, old} => kind2[x] = kind[x] /\ who2[x] = who[x] /\ header'[x] = header[x]
  BY <1>8, <1>14, <1>15
<1>17. old # Null => old # b /\ kind2[old] = "free" /\ who2[old] = t /\ Written(own, old)'
  BY <1>4, <1>7, <1>8, <1>14, <1>15 DEF Written, Extent, Block
<1> DEFINE C == {b, old}
<1>25. \A x \in Addr : x \notin C => kind2[x] = kind[x] /\ who2[x] = who[x]
  BY <1>16
<1>26. \A x \in Addr, v \in Nat : x \notin C /\ Block(own, x, v) => Block(own, x, v) /\ header'[x] = header[x]
  BY <1>16
<1> HIDE DEF C
<1>27. \A x \in Addr : x \notin C /\ Written(own, x) => Written(own, x)' /\ header'[x] = header[x]
  BY <1>1, <1>2, <1>25, <1>26, WrittenStays
<1>18. \A x \in Addr : x # b /\ x # old =>
         /\ kind2[x] = kind[x] /\ who2[x] = who[x]
         /\ Written(own, x) => (Written(own, x)' /\ header'[x] = header[x])
  BY <1>25, <1>27 DEF C
<1>19. HeldBlocks(own, kind2, who2)'
  <2> SUFFICES ASSUME NEW h \in held'
               PROVE  /\ kind2[h[1]] = "held" /\ who2[h[1]] = h[2]
                      /\ h[2] <= header'[h[1]].usable /\ Written(own, h[1])'
    BY DEF HeldBlocks, HeldOk
  <2>1. CASE h = <<b, w.asked>>
    <3>1. Written(own, b)'
      BY <1>7, <1>8 DEF Written, Extent, Block
    <3> QED
      BY <1>7, <1>8, <1>14, <1>15, <2>1, <3>1
  <2>2. CASE h \in held
    <3>1. /\ h[1] \in Addr /\ kind[h[1]] = "held" /\ who[h[1]] = h[2]
          /\ h[2] <= header[h[1]].usable /\ Written(own, h[1])
      BY <1>1, <1>2, <2>2, HeldTyped
    <3>2. h[1] # b /\ h[1] # old
      BY <1>7, <3>1 DEF Addr, Null
    <3> QED
      BY <1>18, <3>1, <3>2
  <2> QED
    BY <1>6, <2>1, <2>2
<1>20. FilledBlocks(own, kind2, who2)'
  <2> SUFFICES ASSUME NEW v \in Users, NEW z, z = step'[v], z.at = "fill"
               PROVE  /\ kind2[z.block] = "fill" /\ who2[z.block] = v /\ z.asked <= z.usable
                      /\ Extent(z.usable, z.mlen) /\ Block(own, z.block, z.usable)
                      /\ z.old # Null => kind2[z.old] = "old" /\ who2[z.old] = v /\ Written(own, z.old)'
    BY DEF FilledBlocks, FillOk, Written, Block, Extent
  <2>1. v # t /\ z = step[v]
    BY <1>9, <1>10
  <2>2. z \in FillOps
    BY <1>1, <2>1, StepTyped
  <2>3. /\ kind[z.block] = "fill" /\ who[z.block] = v /\ z.block \in Addr /\ z.old \in Addr \cup {Null}
        /\ z.asked <= z.usable /\ Extent(z.usable, z.mlen) /\ Block(own, z.block, z.usable)
        /\ z.old # Null => kind[z.old] = "old" /\ who[z.old] = v /\ Written(own, z.old)
    BY <1>2, <2>1, <2>2 DEF Owners, FilledBlocks, FillOk, FillOps
  <2>4. z.block # b /\ z.block # old /\ (z.old # Null => z.old # b /\ z.old # old)
    BY <1>7, <2>1, <2>3 DEF Addr, Null
  <2> QED
    BY <1>18, <2>3, <2>4
<1>21. FreedBlocks(own, kind2, who2)'
  <2> SUFFICES ASSUME NEW v \in Users, NEW z, z = step'[v], z.at = "free"
               PROVE  kind2[z.block] = "free" /\ who2[z.block] = v /\ Written(own, z.block)'
    BY DEF FreedBlocks, FreeOk, Written, Block, Extent
  <2>1. CASE v = t
    BY <1>9, <1>10, <1>17, <2>1
  <2>2. CASE v # t
    <3>1. z = step[v] /\ z \in FreeOps
      BY <1>1, <1>10, <2>2, StepTyped
    <3>2. kind[z.block] = "free" /\ who[z.block] = v /\ z.block \in Addr /\ Written(own, z.block)
      BY <1>2, <3>1 DEF Owners, FreedBlocks, FreeOk, FreeOps
    <3>3. z.block # b /\ z.block # old
      BY <1>7, <3>2 DEF Addr, Null
    <3> QED
      BY <1>18, <3>2, <3>3
  <2> QED
    BY <2>1, <2>2
<1>22. ListBlocks(own, kind2, who2)'
  <2>1. \A x \in Addr : kind[x] = "list" => x \notin {b, old}
    BY <1>7 DEF Addr, Null
  <2>2. \A x \in Addr : kind2[x] = "list" => x \notin {b, old}
    BY <1>14, <1>17 DEF Addr, Null
  <2>3. \A c \in Classes, x \in Addr : InList(kind2, who2, c, x) <=> InList(kind, who, c, x)
    BY <1>16, <2>1, <2>2 DEF InList
  <2>4. \A x \in Addr, v \in Nat : kind[x] = "list" /\ Block(own, x, v) =>
          Block(own, x, v) /\ header'[x] = header[x]
    BY <1>16, <2>1
  <2> QED
    BY <1>1, <1>2, <1>6, <2>3, <2>4, ListsUntouched
<1>23. OwnTypes(own, kind2)' /\ ArenaRest(own)'
  BY <1>2, <1>6, <1>14 DEF Owners, OwnTypes, ArenaRest
<1>24. Owners(own, kind2, who2)'
  BY <1>19, <1>20, <1>21, <1>22, <1>23 DEF Owners
<1> QED
  BY <1>12, <1>24 DEF AllocInv

\* The program giving a block back keeps it.
LEMMA FreeStep ==
  ASSUME AllocInv, NEW t \in Users, NEW g \in held, Free(t, g)
  PROVE  AllocInv'
<1>1. AllocTypes
  BY DEF AllocInv
<1>2. PICK own, kind, who : Owners(own, kind, who)
  BY DEF AllocInv
<1>3. PICK b \in Addr : b = g[1]
  BY <1>1, <1>2, HeldTyped
<1>4. /\ kind[b] = "held" /\ Written(own, b)
      /\ \A h \in held : h[1] = b => h = g
  BY <1>1, <1>2, <1>3, HeldTyped
<1>5. /\ step[t].at = "ready" /\ held' = held \ {g}
      /\ Takes(t, [at |-> "free", block |-> b])
      /\ UNCHANGED <<mapped, header, freeList, bump, end>>
  BY <1>3 DEF Free
<1>6. [at |-> "free", block |-> b] \in AllocOps
  BY DEF AllocOps, FreeOps
<1>7. /\ step' \in [Users -> AllocOps] /\ step'[t] = [at |-> "free", block |-> b]
      /\ \A v \in Users : v # t => step'[v] = step[v]
  BY <1>1, <1>5, <1>6 DEF Takes, AllocTypes
<1>8. AllocTypes'
  BY <1>1, <1>5, <1>7 DEF AllocTypes
<1>9. kind \in [Addr -> Kinds]
  BY <1>2 DEF Owners, OwnTypes
<1>10. PICK kind2 \in [Addr -> Kinds] : \A x \in Addr : kind2[x] = IF x = b THEN "free" ELSE kind[x]
  <2>1. [x \in Addr |-> IF x = b THEN "free" ELSE kind[x]] \in [Addr -> Kinds]
    BY <1>9 DEF Kinds
  <2> QED
    BY <2>1
<1>11. PICK who2 : \A x \in Addr : who2[x] = IF x = b THEN t ELSE who[x]
  <2> DEFINE f == [x \in Addr |-> IF x = b THEN t ELSE who[x]]
  <2>1. \A x \in Addr : f[x] = IF x = b THEN t ELSE who[x]
    OBVIOUS
  <2> QED
    BY <2>1, Zenon
<1>12. \A x \in Addr : x # b => kind2[x] = kind[x] /\ who2[x] = who[x]
  BY <1>10, <1>11
<1>13. kind2[b] = "free" /\ who2[b] = t
  BY <1>10, <1>11
<1>14. \A x \in Addr : Written(own, x) => Written(own, x)'
  BY <1>5 DEF Written, Extent, Block
<1>15. HeldBlocks(own, kind2, who2)'
  <2> SUFFICES ASSUME NEW h \in held'
               PROVE  /\ kind2[h[1]] = "held" /\ who2[h[1]] = h[2]
                      /\ h[2] <= header'[h[1]].usable /\ Written(own, h[1])'
    BY DEF HeldBlocks, HeldOk
  <2>1. h \in held /\ h[1] # b
    BY <1>3, <1>4, <1>5
  <2>2. /\ h[1] \in Addr /\ kind[h[1]] = "held" /\ who[h[1]] = h[2]
        /\ h[2] <= header[h[1]].usable /\ Written(own, h[1])
    BY <1>1, <1>2, <2>1, HeldTyped
  <2> QED
    BY <1>5, <1>12, <1>14, <2>1, <2>2
<1>16. FilledBlocks(own, kind2, who2)'
  <2> SUFFICES ASSUME NEW v \in Users, NEW z, z = step'[v], z.at = "fill"
               PROVE  /\ kind2[z.block] = "fill" /\ who2[z.block] = v /\ z.asked <= z.usable
                      /\ Extent(z.usable, z.mlen) /\ Block(own, z.block, z.usable)
                      /\ z.old # Null => kind2[z.old] = "old" /\ who2[z.old] = v /\ Written(own, z.old)'
    BY DEF FilledBlocks, FillOk, Written, Block, Extent
  <2>1. v # t /\ z = step[v]
    BY <1>7
  <2>2. z \in FillOps
    BY <1>1, <2>1, StepTyped
  <2>3. /\ kind[z.block] = "fill" /\ who[z.block] = v /\ z.block \in Addr /\ z.old \in Addr \cup {Null}
        /\ z.asked <= z.usable /\ Extent(z.usable, z.mlen) /\ Block(own, z.block, z.usable)
        /\ z.old # Null => kind[z.old] = "old" /\ who[z.old] = v /\ Written(own, z.old)
    BY <1>2, <2>1, <2>2 DEF Owners, FilledBlocks, FillOk, FillOps
  <2>4. z.block # b /\ (z.old # Null => z.old # b)
    BY <1>4, <2>3
  <2> QED
    BY <1>12, <1>14, <2>3, <2>4
<1>17. FreedBlocks(own, kind2, who2)'
  <2> SUFFICES ASSUME NEW v \in Users, NEW z, z = step'[v], z.at = "free"
               PROVE  kind2[z.block] = "free" /\ who2[z.block] = v /\ Written(own, z.block)'
    BY DEF FreedBlocks, FreeOk, Written, Block, Extent
  <2>1. CASE v = t
    BY <1>4, <1>7, <1>13, <1>14, <2>1
  <2>2. CASE v # t
    <3>1. z = step[v] /\ z \in FreeOps
      BY <1>1, <1>7, <2>2, StepTyped
    <3>2. kind[z.block] = "free" /\ who[z.block] = v /\ z.block \in Addr /\ Written(own, z.block)
      BY <1>2, <3>1 DEF Owners, FreedBlocks, FreeOk, FreeOps
    <3>3. z.block # b
      BY <1>4, <3>2
    <3> QED
      BY <1>12, <1>14, <3>2, <3>3
  <2> QED
    BY <2>1, <2>2
<1>18. ListBlocks(own, kind2, who2)'
  <2>1. \A c \in Classes, x \in Addr : InList(kind2, who2, c, x) <=> InList(kind, who, c, x)
    BY <1>4, <1>12, <1>13 DEF InList
  <2>2. \A x \in Addr, v \in Nat : kind[x] = "list" /\ Block(own, x, v) =>
          Block(own, x, v) /\ header'[x] = header[x]
    BY <1>5
  <2> QED
    BY <1>1, <1>2, <1>5, <2>1, <2>2, ListsUntouched
<1>19. OwnTypes(own, kind2)' /\ ArenaRest(own)'
  BY <1>2, <1>5, <1>10 DEF Owners, OwnTypes, ArenaRest
<1>20. Owners(own, kind2, who2)'
  BY <1>15, <1>16, <1>17, <1>18, <1>19 DEF Owners
<1> QED
  BY <1>8, <1>20 DEF AllocInv

\* Unmapping a large block keeps it: nothing else was there.
LEMMA UnmapStep ==
  ASSUME AllocInv, NEW t \in Users, Unmap(t)
  PROVE  AllocInv'
<1>1. AllocTypes
  BY DEF AllocInv
<1>2. PICK own, kind, who : Owners(own, kind, who)
  BY DEF AllocInv
<1>3. PICK w \in FreeOps : w = step[t] /\ w.at = "free"
  BY <1>1, StepTyped DEF Unmap
<1>4. PICK b \in Addr, u \in Nat : b = w.block /\ u = header[b].usable
  <2>1. w.block \in Addr
    BY <1>3 DEF FreeOps
  <2>2. header[w.block].usable \in Nat
    BY <1>1, <2>1 DEF AllocTypes
  <2> QED
    BY <2>1, <2>2
<1>5. kind[b] = "free" /\ who[b] = t /\ Written(own, b)
  BY <1>2, <1>3, <1>4 DEF Owners, FreedBlocks, FreeOk
<1>6. header[b].mlen = u + 1
  BY <1>3, <1>4, <1>5 DEF Written, Extent, Unmap
<1>7. /\ mapped' = mapped \ Span(b, u + 1)
      /\ Takes(t, Ready)
      /\ UNCHANGED <<header, freeList, bump, end, held>>
  BY <1>3, <1>4, <1>6 DEF Unmap
<1>8. Block(own, b, u)
  BY <1>4, <1>5 DEF Written
<1>9. Ready \in AllocOps /\ Ready.at # "fill" /\ Ready.at # "free"
  BY DEF AllocOps, Ready
<1>10. step' \in [Users -> AllocOps] /\ step'[t] = Ready /\ \A v \in Users : v # t => step'[v] = step[v]
  BY <1>1, <1>7, <1>9 DEF Takes, AllocTypes
<1>11. AllocTypes'
  BY <1>1, <1>7, <1>10 DEF AllocTypes
<1>12. kind \in [Addr -> Kinds] /\ own \in [Addr -> Int] /\ b > 0
  BY <1>2 DEF Owners, OwnTypes, Addr
<1>13. PICK kind2 \in [Addr -> Kinds] : \A x \in Addr : kind2[x] = IF x = b THEN "none" ELSE kind[x]
  <2>1. [x \in Addr |-> IF x = b THEN "none" ELSE kind[x]] \in [Addr -> Kinds]
    BY <1>12 DEF Kinds
  <2> QED
    BY <2>1
<1>14. PICK own2 \in [Addr -> Int] : \A x \in Addr : own2[x] = IF x \in Span(b, u + 1) THEN 0 ELSE own[x]
  <2>1. [x \in Addr |-> IF x \in Span(b, u + 1) THEN 0 ELSE own[x]] \in [Addr -> Int]
    BY <1>12
  <2> QED
    BY <2>1
<1>15. \A x \in Addr, v \in Nat : x # b /\ Block(own, x, v) => Block(own2, x, v)
  BY <1>8, <1>14 DEF Block
<1>16. \A x \in Addr : x # b /\ Written(own, x) => Written(own2, x)'
  <2> SUFFICES ASSUME NEW x \in Addr, x # b, Written(own, x)
               PROVE  Written(own2, x)'
    OBVIOUS
  <2>1. header[x].usable \in Nat
    BY <1>1 DEF AllocTypes
  <2>2. Block(own2, x, header[x].usable)
    BY <1>15, <2>1 DEF Written
  <2> QED
    BY <1>7, <2>2 DEF Written, Extent, Block
<1>17. HeldBlocks(own2, kind2, who)'
  <2> SUFFICES ASSUME NEW h \in held'
               PROVE  /\ kind2[h[1]] = "held" /\ who[h[1]] = h[2]
                      /\ h[2] <= header'[h[1]].usable /\ Written(own2, h[1])'
    BY DEF HeldBlocks, HeldOk
  <2>2. /\ h[1] \in Addr /\ kind[h[1]] = "held" /\ who[h[1]] = h[2]
        /\ h[2] <= header[h[1]].usable /\ Written(own, h[1])
    BY <1>1, <1>2, <1>7, HeldTyped
  <2>3. h[1] # b
    BY <1>5, <2>2
  <2> QED
    BY <1>7, <1>13, <1>16, <2>2, <2>3
<1>18. FilledBlocks(own2, kind2, who)'
  <2> SUFFICES ASSUME NEW v \in Users, NEW z, z = step'[v], z.at = "fill"
               PROVE  /\ kind2[z.block] = "fill" /\ who[z.block] = v /\ z.asked <= z.usable
                      /\ Extent(z.usable, z.mlen) /\ Block(own2, z.block, z.usable)
                      /\ z.old # Null => kind2[z.old] = "old" /\ who[z.old] = v /\ Written(own2, z.old)'
    BY DEF FilledBlocks, FillOk, Written, Block, Extent
  <2>1. v # t /\ z = step[v]
    BY <1>9, <1>10
  <2>2. z \in FillOps
    BY <1>1, <2>1, StepTyped
  <2>3. /\ kind[z.block] = "fill" /\ who[z.block] = v /\ z.block \in Addr /\ z.old \in Addr \cup {Null}
        /\ z.asked <= z.usable /\ Extent(z.usable, z.mlen) /\ Block(own, z.block, z.usable) /\ z.usable \in Nat
        /\ z.old # Null => kind[z.old] = "old" /\ who[z.old] = v /\ Written(own, z.old)
    BY <1>2, <2>1, <2>2 DEF Owners, FilledBlocks, FillOk, FillOps
  <2>4. z.block # b /\ (z.old # Null => z.old # b)
    BY <1>5, <2>3
  <2> QED
    BY <1>13, <1>15, <1>16, <2>3, <2>4
<1>19. FreedBlocks(own2, kind2, who)'
  <2> SUFFICES ASSUME NEW v \in Users, NEW z, z = step'[v], z.at = "free"
               PROVE  kind2[z.block] = "free" /\ who[z.block] = v /\ Written(own2, z.block)'
    BY DEF FreedBlocks, FreeOk, Written, Block, Extent
  <2>1. v # t /\ z = step[v]
    BY <1>9, <1>10
  <2>2. z \in FreeOps
    BY <1>1, <2>1, StepTyped
  <2>3. kind[z.block] = "free" /\ who[z.block] = v /\ z.block \in Addr /\ Written(own, z.block)
    BY <1>2, <2>1, <2>2 DEF Owners, FreedBlocks, FreeOk, FreeOps
  <2>4. z.block # b
    BY <1>5, <2>1, <2>3
  <2> QED
    BY <1>13, <1>16, <2>3, <2>4
<1>20. ListBlocks(own2, kind2, who)'
  <2>1. \A c \in Classes, x \in Addr : InList(kind2, who, c, x) <=> InList(kind, who, c, x)
    BY <1>5, <1>13 DEF InList
  <2>2. \A x \in Addr, v \in Nat : kind[x] = "list" /\ Block(own, x, v) =>
          Block(own2, x, v) /\ header'[x] = header[x]
    BY <1>5, <1>7, <1>15
  <2> QED
    BY <1>1, <1>2, <1>7, <2>1, <2>2, ListsUntouched
<1>21. OwnTypes(own2, kind2)'
  <2>1. \A a \in Addr : own[a] # 0 => a \in mapped
    BY <1>2 DEF Owners, OwnTypes
  <2> QED
    BY <1>7, <1>13, <1>14, <2>1 DEF OwnTypes
<1>22. ArenaRest(own2)'
  <2>1. \A x \in Addr : own[x] = ArenaOwn => own2[x] = ArenaOwn
    BY <1>8, <1>12, <1>14 DEF Block, ArenaOwn
  <2>2. ArenaRest(own)
    BY <1>2 DEF Owners
  <2> QED
    BY <1>7, <2>1, <2>2 DEF ArenaRest
<1>23. Owners(own2, kind2, who)'
  BY <1>17, <1>18, <1>19, <1>20, <1>21, <1>22 DEF Owners
<1> QED
  BY <1>11, <1>23 DEF AllocInv

\* Pushing a block keeps the lists acyclic and apart: it was in none.
LEMMA PushStep ==
  ASSUME AllocInv, NEW t \in Users, Push(t)
  PROVE  AllocInv'
<1>1. AllocTypes
  BY DEF AllocInv
<1>2. PICK own, kind, who : Owners(own, kind, who)
  BY DEF AllocInv
<1>3. PICK w \in FreeOps : w = step[t] /\ w.at = "free"
  BY <1>1, StepTyped DEF Push
<1>4. PICK b \in Addr, c \in Nat : b = w.block /\ c = header[b].usable
  <2>1. w.block \in Addr
    BY <1>3 DEF FreeOps
  <2>2. header[w.block].usable \in Nat
    BY <1>1, <2>1 DEF AllocTypes
  <2> QED
    BY <2>1, <2>2
<1>5. kind[b] = "free" /\ who[b] = t /\ Written(own, b)
  BY <1>2, <1>3, <1>4 DEF Owners, FreedBlocks, FreeOk
<1>6. c \in Classes /\ Block(own, b, c)
  BY <1>3, <1>4, <1>5 DEF Written, Extent, Push
<1>7. PICK f \in Addr \cup {Null} : f = freeList[c]
  BY <1>1, <1>6 DEF AllocTypes
<1>8. /\ header' = [header EXCEPT ![b].mlen = f]
      /\ freeList' = [freeList EXCEPT ![c] = b]
      /\ Takes(t, Ready)
      /\ UNCHANGED <<mapped, bump, end, held>>
  BY <1>3, <1>4, <1>7 DEF Push
<1>9. /\ header' \in [Addr -> [usable : Nat, mlen : Nat]]
      /\ header'[b].usable = c /\ header'[b].mlen = f
      /\ \A x \in Addr : x # b => header'[x] = header[x]
  <2>1. f \in Nat
    BY <1>7 DEF Addr, Null
  <2> QED
    BY <1>1, <1>4, <1>8, <2>1 DEF AllocTypes
<1>10. /\ freeList' \in [Classes -> Addr \cup {Null}]
       /\ freeList'[c] = b /\ \A d \in Classes : d # c => freeList'[d] = freeList[d]
  BY <1>1, <1>6, <1>8 DEF AllocTypes
<1>11. Ready \in AllocOps /\ Ready.at # "fill" /\ Ready.at # "free"
  BY DEF AllocOps, Ready
<1>12. step' \in [Users -> AllocOps] /\ step'[t] = Ready /\ \A v \in Users : v # t => step'[v] = step[v]
  BY <1>1, <1>8, <1>11 DEF Takes, AllocTypes
<1>13. AllocTypes'
  BY <1>1, <1>8, <1>9, <1>10, <1>12 DEF AllocTypes
<1>14. kind \in [Addr -> Kinds]
  BY <1>2 DEF Owners, OwnTypes
<1>15. PICK kind2 \in [Addr -> Kinds] : \A x \in Addr : kind2[x] = IF x = b THEN "list" ELSE kind[x]
  <2>1. [x \in Addr |-> IF x = b THEN "list" ELSE kind[x]] \in [Addr -> Kinds]
    BY <1>14 DEF Kinds
  <2> QED
    BY <2>1
<1>16. PICK who2 : \A x \in Addr : who2[x] = IF x = b THEN c ELSE who[x]
  <2> DEFINE r == [x \in Addr |-> IF x = b THEN c ELSE who[x]]
  <2>1. \A x \in Addr : r[x] = IF x = b THEN c ELSE who[x]
    OBVIOUS
  <2> QED
    BY <2>1, Zenon
<1>17. \A x \in Addr : x # b => kind2[x] = kind[x] /\ who2[x] = who[x]
  BY <1>15, <1>16
<1>18. kind2[b] = "list" /\ who2[b] = c
  BY <1>15, <1>16
<1>19. \A x \in Addr : x # b /\ Written(own, x) => Written(own, x)'
  BY <1>9 DEF Written, Extent, Block
<1>20. HeldBlocks(own, kind2, who2)'
  <2> SUFFICES ASSUME NEW h \in held'
               PROVE  /\ kind2[h[1]] = "held" /\ who2[h[1]] = h[2]
                      /\ h[2] <= header'[h[1]].usable /\ Written(own, h[1])'
    BY DEF HeldBlocks, HeldOk
  <2>1. /\ h[1] \in Addr /\ kind[h[1]] = "held" /\ who[h[1]] = h[2]
        /\ h[2] <= header[h[1]].usable /\ Written(own, h[1])
    BY <1>1, <1>2, <1>8, HeldTyped
  <2>2. h[1] # b
    BY <1>5, <2>1
  <2> QED
    BY <1>9, <1>17, <1>19, <2>1, <2>2
<1>21. FilledBlocks(own, kind2, who2)'
  <2> SUFFICES ASSUME NEW v \in Users, NEW z, z = step'[v], z.at = "fill"
               PROVE  /\ kind2[z.block] = "fill" /\ who2[z.block] = v /\ z.asked <= z.usable
                      /\ Extent(z.usable, z.mlen) /\ Block(own, z.block, z.usable)
                      /\ z.old # Null => kind2[z.old] = "old" /\ who2[z.old] = v /\ Written(own, z.old)'
    BY DEF FilledBlocks, FillOk, Written, Block, Extent
  <2>1. v # t /\ z = step[v]
    BY <1>11, <1>12
  <2>2. z \in FillOps
    BY <1>1, <2>1, StepTyped
  <2>3. /\ kind[z.block] = "fill" /\ who[z.block] = v /\ z.block \in Addr /\ z.old \in Addr \cup {Null}
        /\ z.asked <= z.usable /\ Extent(z.usable, z.mlen) /\ Block(own, z.block, z.usable)
        /\ z.old # Null => kind[z.old] = "old" /\ who[z.old] = v /\ Written(own, z.old)
    BY <1>2, <2>1, <2>2 DEF Owners, FilledBlocks, FillOk, FillOps
  <2>4. z.block # b /\ (z.old # Null => z.old # b)
    BY <1>5, <2>3
  <2> QED
    BY <1>17, <1>19, <2>3, <2>4
<1>22. FreedBlocks(own, kind2, who2)'
  <2> SUFFICES ASSUME NEW v \in Users, NEW z, z = step'[v], z.at = "free"
               PROVE  kind2[z.block] = "free" /\ who2[z.block] = v /\ Written(own, z.block)'
    BY DEF FreedBlocks, FreeOk, Written, Block, Extent
  <2>1. v # t /\ z = step[v]
    BY <1>11, <1>12
  <2>2. z \in FreeOps
    BY <1>1, <2>1, StepTyped
  <2>3. kind[z.block] = "free" /\ who[z.block] = v /\ z.block \in Addr /\ Written(own, z.block)
    BY <1>2, <2>1, <2>2 DEF Owners, FreedBlocks, FreeOk, FreeOps
  <2>4. z.block # b
    BY <1>5, <2>1, <2>3
  <2> QED
    BY <1>17, <1>19, <2>3, <2>4
<1>23. ListBlocks(own, kind2, who2)'
  <2>1. \A d \in Classes, x \in Addr : InList(kind, who, d, x) =>
          /\ header[x].usable = d /\ Block(own, x, d)
          /\ header[x].mlen # 0 =>
               /\ InList(kind, who, d, header[x].mlen)
               /\ header[x].mlen # freeList[d]
               /\ \A y \in Addr : InList(kind, who, d, y) /\ header[y].mlen = header[x].mlen => y = x
    BY <1>2 DEF Owners, ListBlocks
  <2>2. \A d \in Classes : freeList[d] # Null => InList(kind, who, d, freeList[d])
    BY <1>2 DEF Owners, ListBlocks
  <2>3. \A d \in Classes, x \in Addr : InList(kind, who, d, x) => x # b /\ InList(kind2, who2, d, x)
    BY <1>5, <1>17 DEF InList
  <2>4. \A d \in Classes, x \in Addr :
          InList(kind2, who2, d, x) => (x = b /\ d = c) \/ (x # b /\ InList(kind, who, d, x))
    BY <1>17, <1>18 DEF InList
  <2>5. InList(kind2, who2, c, b)
    BY <1>18 DEF InList
  <2>6. f # Null => InList(kind, who, c, f) /\ f \in Addr /\ f # b /\ InList(kind2, who2, c, f)
    BY <1>6, <1>7, <2>2, <2>3 DEF InList
  <2>7. ASSUME NEW d \in Classes, freeList'[d] # Null
        PROVE  InList(kind2, who2, d, freeList'[d])
    <3>1. CASE d = c
      BY <1>10, <2>5, <3>1
    <3>2. CASE d # c
      <4>1. freeList'[d] = freeList[d] /\ InList(kind, who, d, freeList[d])
        BY <1>10, <2>2, <2>7, <3>2
      <4> QED
        BY <2>3, <4>1 DEF InList
    <3> QED
      BY <3>1, <3>2
  <2>8. ASSUME NEW d \in Classes, NEW x \in Addr, InList(kind2, who2, d, x)
        PROVE  /\ header'[x].usable = d /\ Block(own, x, d)
               /\ header'[x].mlen # 0 =>
                    /\ InList(kind2, who2, d, header'[x].mlen)
                    /\ header'[x].mlen # freeList'[d]
                    /\ \A y \in Addr : InList(kind2, who2, d, y) /\ header'[y].mlen = header'[x].mlen => y = x
    <3>1. CASE x = b
      <4>1. d = c /\ header'[x].usable = d /\ Block(own, x, d) /\ header'[x].mlen = f
        BY <1>6, <1>9, <1>18, <2>8, <3>1 DEF InList
      <4>2. ASSUME f # 0
            PROVE  /\ InList(kind2, who2, c, f) /\ f # freeList'[c]
                   /\ \A y \in Addr : InList(kind2, who2, c, y) /\ header'[y].mlen = f => y = b
        <5>1. InList(kind2, who2, c, f) /\ f # freeList'[c]
          BY <1>10, <2>6, <4>2 DEF Null
        <5>2. ASSUME NEW y \in Addr, InList(kind2, who2, c, y), header'[y].mlen = f, y # b
              PROVE  FALSE
          <6>1. InList(kind, who, c, y) /\ header[y].mlen = f
            BY <1>6, <1>9, <2>4, <5>2
          <6> QED
            BY <1>6, <1>7, <2>1, <4>2, <5>2, <6>1
        <5> QED
          BY <5>1, <5>2
      <4> QED
        BY <3>1, <4>1, <4>2
    <3>2. CASE x # b
      <4>1. InList(kind, who, d, x) /\ header'[x] = header[x]
        BY <1>9, <2>4, <2>8, <3>2
      <4>2. header[x].usable = d /\ Block(own, x, d)
        BY <2>1, <4>1
      <4>3. ASSUME header[x].mlen # 0
            PROVE  /\ InList(kind2, who2, d, header[x].mlen)
                   /\ header[x].mlen # freeList'[d]
                   /\ \A y \in Addr : InList(kind2, who2, d, y) /\ header'[y].mlen = header[x].mlen => y = x
        <5>1. PICK m \in Addr : m = header[x].mlen
          BY <2>1, <4>1, <4>3 DEF InList
        <5>2. /\ InList(kind, who, d, m) /\ m # freeList[d]
              /\ \A y \in Addr : InList(kind, who, d, y) /\ header[y].mlen = m => y = x
          BY <2>1, <4>1, <4>3, <5>1
        <5>3. InList(kind2, who2, d, m) /\ m # b
          BY <2>3, <5>2
        <5>4. m # freeList'[d]
          BY <1>10, <5>2, <5>3
        <5>5. ASSUME NEW y \in Addr, InList(kind2, who2, d, y), header'[y].mlen = m
              PROVE  y = x
          <6>1. CASE y = b
            <7>1. d = c /\ m = f
              BY <1>9, <1>18, <5>5, <6>1 DEF InList
            <7> QED
              BY <1>7, <5>2, <7>1
          <6>2. CASE y # b
            BY <1>9, <2>4, <5>2, <5>5, <6>2
          <6> QED
            BY <6>1, <6>2
        <5> QED
          BY <5>1, <5>3, <5>4, <5>5
      <4> QED
        BY <4>1, <4>2, <4>3
    <3> QED
      BY <3>1, <3>2
  <2> QED
    BY <2>7, <2>8 DEF ListBlocks, InList, Block
<1>24. OwnTypes(own, kind2)' /\ ArenaRest(own)'
  BY <1>2, <1>8, <1>15 DEF Owners, OwnTypes, ArenaRest
<1>25. Owners(own, kind2, who2)'
  BY <1>20, <1>21, <1>22, <1>23, <1>24 DEF Owners
<1> QED
  BY <1>13, <1>25 DEF AllocInv

\* A reallocation in place keeps it.
LEMMA ReallocInPlaceStep ==
  ASSUME AllocInv, NEW t \in Users, NEW g \in held, NEW n \in Nat, ReallocInPlace(t, g, n)
  PROVE  AllocInv'
<1>1. AllocTypes
  BY DEF AllocInv
<1>2. PICK own, kind, who : Owners(own, kind, who)
  BY DEF AllocInv
<1>3. PICK b \in Addr : b = g[1]
  BY <1>1, <1>2, HeldTyped
<1>4. /\ kind[b] = "held" /\ Written(own, b)
      /\ \A h \in held : h[1] = b => h = g
  BY <1>1, <1>2, <1>3, HeldTyped
<1>5. /\ n <= header[b].usable /\ held' = (held \ {g}) \cup {<<b, n>>}
      /\ UNCHANGED <<mapped, header, freeList, bump, end, step>>
  BY <1>3 DEF ReallocInPlace
<1>6. AllocTypes'
  BY <1>1, <1>5 DEF AllocTypes
<1>7. PICK who2 : \A x \in Addr : who2[x] = IF x = b THEN n ELSE who[x]
  <2> DEFINE f == [x \in Addr |-> IF x = b THEN n ELSE who[x]]
  <2>1. \A x \in Addr : f[x] = IF x = b THEN n ELSE who[x]
    OBVIOUS
  <2> QED
    BY <2>1, Zenon
<1>8. \A x \in Addr : Written(own, x) => Written(own, x)'
  BY <1>5 DEF Written, Extent, Block
<1>9. HeldBlocks(own, kind, who2)'
  <2> SUFFICES ASSUME NEW h \in held'
               PROVE  /\ kind[h[1]] = "held" /\ who2[h[1]] = h[2]
                      /\ h[2] <= header'[h[1]].usable /\ Written(own, h[1])'
    BY DEF HeldBlocks, HeldOk
  <2>1. CASE h = <<b, n>>
    BY <1>4, <1>5, <1>7, <1>8, <2>1
  <2>2. CASE h \in held /\ h # g
    <3>1. /\ h[1] \in Addr /\ kind[h[1]] = "held" /\ who[h[1]] = h[2]
          /\ h[2] <= header[h[1]].usable /\ Written(own, h[1])
      BY <1>1, <1>2, <2>2, HeldTyped
    <3>2. h[1] # b
      BY <1>4, <2>2
    <3> QED
      BY <1>5, <1>7, <1>8, <3>1, <3>2
  <2> QED
    BY <1>5, <2>1, <2>2
<1>10. FilledBlocks(own, kind, who2)'
  <2> SUFFICES ASSUME NEW v \in Users, NEW z, z = step'[v], z.at = "fill"
               PROVE  /\ kind[z.block] = "fill" /\ who2[z.block] = v /\ z.asked <= z.usable
                      /\ Extent(z.usable, z.mlen) /\ Block(own, z.block, z.usable)
                      /\ z.old # Null => kind[z.old] = "old" /\ who2[z.old] = v /\ Written(own, z.old)'
    BY DEF FilledBlocks, FillOk, Written, Block, Extent
  <2>1. z = step[v] /\ z \in FillOps
    BY <1>1, <1>5, StepTyped
  <2>2. /\ kind[z.block] = "fill" /\ who[z.block] = v /\ z.block \in Addr /\ z.old \in Addr \cup {Null}
        /\ z.asked <= z.usable /\ Extent(z.usable, z.mlen) /\ Block(own, z.block, z.usable)
        /\ z.old # Null => kind[z.old] = "old" /\ who[z.old] = v /\ Written(own, z.old)
    BY <1>2, <2>1 DEF Owners, FilledBlocks, FillOk, FillOps
  <2>3. z.block # b /\ (z.old # Null => z.old # b)
    BY <1>4, <2>2
  <2> QED
    BY <1>7, <1>8, <2>2, <2>3
<1>11. FreedBlocks(own, kind, who2)'
  <2> SUFFICES ASSUME NEW v \in Users, NEW z, z = step'[v], z.at = "free"
               PROVE  kind[z.block] = "free" /\ who2[z.block] = v /\ Written(own, z.block)'
    BY DEF FreedBlocks, FreeOk, Written, Block, Extent
  <2>1. z = step[v] /\ z \in FreeOps
    BY <1>1, <1>5, StepTyped
  <2>2. kind[z.block] = "free" /\ who[z.block] = v /\ z.block \in Addr /\ Written(own, z.block)
    BY <1>2, <2>1 DEF Owners, FreedBlocks, FreeOk, FreeOps
  <2>3. z.block # b
    BY <1>4, <2>2
  <2> QED
    BY <1>7, <1>8, <2>2, <2>3
<1>12. ListBlocks(own, kind, who2)'
  <2>1. \A c \in Classes, x \in Addr : InList(kind, who2, c, x) <=> InList(kind, who, c, x)
    BY <1>4, <1>7 DEF InList
  <2>2. \A x \in Addr, v \in Nat : kind[x] = "list" /\ Block(own, x, v) =>
          Block(own, x, v) /\ header'[x] = header[x]
    BY <1>5
  <2> QED
    BY <1>1, <1>2, <1>5, <2>1, <2>2, ListsUntouched
<1>13. OwnTypes(own, kind)' /\ ArenaRest(own)'
  BY <1>2, <1>5 DEF Owners, OwnTypes, ArenaRest
<1>14. Owners(own, kind, who2)'
  BY <1>9, <1>10, <1>11, <1>12, <1>13 DEF Owners
<1> QED
  BY <1>6, <1>14 DEF AllocInv

\* Nothing mapped and nothing held satisfies the invariant.
LEMMA AllocInitial == AllocInit => AllocInv
<1> SUFFICES ASSUME AllocInit PROVE AllocInv
  OBVIOUS
<1> DEFINE own == [a \in Addr |-> 0]
           kind == [a \in Addr |-> "none"]
<1>1. AllocTypes
  BY AllocAssumption DEF AllocInit, AllocTypes, Addr, Null, Blank, AllocOps, Ready
<1>2. \A v \in Users : step[v] = Ready
  BY DEF AllocInit
<1>3. Ready.at # "fill" /\ Ready.at # "free"
  BY DEF Ready
<1>4. own \in [Addr -> Int] /\ kind \in [Addr -> Kinds] /\ (\A a \in Addr : own[a] = 0 /\ kind[a] = "none")
  BY DEF Kinds
<1> HIDE DEF own, kind
<1>5. OwnTypes(own, kind)
  BY <1>4 DEF OwnTypes
<1>6. HeldBlocks(own, kind, own)
  BY DEF AllocInit, HeldBlocks
<1>7. FilledBlocks(own, kind, own)
  BY <1>2, <1>3 DEF FilledBlocks
<1>8. FreedBlocks(own, kind, own)
  BY <1>2, <1>3 DEF FreedBlocks
<1>9. ListBlocks(own, kind, own)
  BY <1>4 DEF AllocInit, ListBlocks, InList
<1>10. ArenaRest(own)
  BY DEF AllocInit, ArenaRest, Null, Span
<1>11. Owners(own, kind, own)
  BY <1>5, <1>6, <1>7, <1>8, <1>9, <1>10 DEF Owners
<1> QED
  BY <1>1, <1>11 DEF AllocInv

\* Steps that change nothing keep it.
LEMMA AllocStutter ==
  ASSUME AllocInv, UNCHANGED allocVars
  PROVE  AllocInv'
<1>1. AllocTypes'
  BY DEF AllocInv, AllocTypes, allocVars
<1>2. PICK own, kind, who : Owners(own, kind, who)
  BY DEF AllocInv
<1>3. OwnTypes(own, kind)' /\ ArenaRest(own)'
  BY <1>2 DEF Owners, OwnTypes, ArenaRest, allocVars
<1>4. HeldBlocks(own, kind, who)'
  BY <1>2 DEF Owners, HeldBlocks, HeldOk, Written, Extent, Block, allocVars
<1>5. FilledBlocks(own, kind, who)'
  BY <1>2 DEF Owners, FilledBlocks, FillOk, Written, Extent, Block, allocVars
<1>6. FreedBlocks(own, kind, who)'
  BY <1>2 DEF Owners, FreedBlocks, FreeOk, Written, Extent, Block, allocVars
<1>7. ListBlocks(own, kind, who)'
  BY <1>2 DEF Owners, ListBlocks, InList, Block, allocVars
<1>8. Owners(own, kind, who)'
  BY <1>3, <1>4, <1>5, <1>6, <1>7 DEF Owners
<1> QED
  BY <1>1, <1>8 DEF AllocInv

\* The allocator keeps its invariant for any classes, sizes, threads and arena: every
\* mapped address in use has one owner, free lists are chains of distinct blocks of their
\* class, and a thread between the unlock and the header, or the header and the lock, has
\* the block alone.
THEOREM AllocInvariant == AllocSpec => []AllocInv
<1>1. AllocInit => AllocInv
  BY AllocInitial
<1>2. AllocInv /\ [AllocNext]_allocVars => AllocInv'
  <2> SUFFICES ASSUME AllocInv, [AllocNext]_allocVars PROVE AllocInv'
    OBVIOUS
  <2>1. ASSUME NEW t \in Users, NEW n \in Sizes, Malloc(t, n) PROVE AllocInv'
    <3>1. n \in Nat /\ Null \in Addr \cup {Null} /\ step[t].at = "ready" /\ Alloc(t, n, Null) /\ Gives(Null)
      BY <2>1, AllocAssumption DEF Malloc, Gives
    <3> QED
      BY <3>1, AllocStep
  <2>2. ASSUME NEW t \in Users, NEW g \in held, NEW n \in Sizes, ReallocMove(t, g, n) PROVE AllocInv'
    <3>1. n \in Nat /\ step[t].at = "ready" /\ Alloc(t, n, g[1]) /\ Gives(g[1])
      BY <2>2, AllocAssumption DEF ReallocMove, Gives
    <3>2. g[1] \in Addr \cup {Null}
      BY DEF AllocInv, AllocTypes
    <3> QED
      BY <3>1, <3>2, AllocStep
  <2>3. ASSUME NEW t \in Users, NEW g \in held, NEW n \in Sizes, ReallocInPlace(t, g, n) PROVE AllocInv'
    <3>1. n \in Nat
      BY AllocAssumption
    <3> QED
      BY <2>3, <3>1, ReallocInPlaceStep
  <2> QED
    BY <2>1, <2>2, <2>3, FreeStep, WriteHeaderStep, UnmapStep, PushStep, AllocStutter DEF AllocNext
<1> QED
  BY <1>1, <1>2, PTL DEF AllocSpec
-----------------------------------------------------------------------------
NextLink(x) == IF x = Null THEN Null ELSE header[x].mlen

\* Following the links of a free list is well defined.
LEMMA LinksExist ==
  ASSUME NEW c, NEW n \in Nat
  PROVE  \E f : f = [k \in 0 .. n |-> IF k = 0 THEN freeList[c] ELSE NextLink(f[k - 1])]
<1> DEFINE Good(m) == \E f : f = [k \in 0 .. m |-> IF k = 0 THEN freeList[c] ELSE NextLink(f[k - 1])]
           P == {m \in Nat : Good(m)}
<1>1. 0 \in P
  <2> DEFINE f == [k \in 0 .. 0 |-> freeList[c]]
  <2>1. f = [k \in 0 .. 0 |-> IF k = 0 THEN freeList[c] ELSE NextLink(f[k - 1])]
    <3>1. \A k \in 0 .. 0 : k = 0
      OBVIOUS
    <3> QED
      BY <3>1
  <2>2. Good(0)
    BY <2>1
  <2> QED
    BY <2>2
<1>2. ASSUME NEW m \in Nat, m \in P PROVE m + 1 \in P
  <2>1. PICK f : f = [k \in 0 .. m |-> IF k = 0 THEN freeList[c] ELSE NextLink(f[k - 1])]
    BY <1>2
  <2> DEFINE g == [k \in 0 .. m + 1 |-> IF k <= m THEN f[k] ELSE NextLink(f[m])]
             h == [k \in 0 .. m + 1 |-> IF k = 0 THEN freeList[c] ELSE NextLink(g[k - 1])]
  <2>2. ASSUME NEW k \in 0 .. m + 1 PROVE g[k] = h[k]
    <3>1. CASE k = 0
      <4>1. g[0] = f[0]
        OBVIOUS
      <4>2. f[0] = freeList[c]
        BY <2>1
      <4> QED
        BY <3>1, <4>1, <4>2
    <3>2. CASE k > 0 /\ k <= m
      <4>1. k - 1 \in 0 .. m /\ k - 1 \in 0 .. m + 1 /\ k - 1 <= m /\ k \in 0 .. m /\ k # 0
        BY <3>2
      <4>2. g[k] = f[k] /\ g[k - 1] = f[k - 1]
        BY <4>1, <3>2
      <4>3. f[k] = NextLink(f[k - 1])
        BY <2>1, <4>1
      <4>4. h[k] = NextLink(g[k - 1])
        BY <4>1
      <4> QED
        BY <4>2, <4>3, <4>4
    <3>3. CASE k = m + 1
      <4>1. g[k] = NextLink(f[m]) /\ k # 0 /\ k - 1 = m
        BY <3>3
      <4>2. g[m] = f[m]
        OBVIOUS
      <4> QED
        BY <4>1, <4>2
    <3> QED
      BY <3>1, <3>2, <3>3
  <2>3. g = h
    <3>1. g = [k \in 0 .. m + 1 |-> g[k]] /\ h = [k \in 0 .. m + 1 |-> h[k]]
      OBVIOUS
    <3> HIDE DEF g, h
    <3> QED
      BY <2>2, <3>1
  <2>4. Good(m + 1)
    <3>1. g = [k \in 0 .. m + 1 |-> IF k = 0 THEN freeList[c] ELSE NextLink(g[k - 1])]
      BY <2>3
    <3> HIDE DEF g
    <3> QED
      BY <3>1
  <2> QED
    BY <2>4
<1>3. \A m \in Nat : m \in P => m + 1 \in P
  BY <1>2
<1> HIDE DEF P
<1>4. n \in P
  BY <1>1, <1>3, SetInduction
<1> QED
  BY <1>4 DEF P

\* What following the links reaches is in the list's hands.
LEMMA FreeBlocksAreListed ==
  ASSUME AllocTypes, NEW own, NEW kind, NEW who, Owners(own, kind, who),
         NEW c \in Classes, NEW b \in FreeBlocks(c)
  PROVE  InList(kind, who, c, b)
<1>1. PICK Link : /\ Link = [k \in 0 .. LastAddress |-> IF k = 0 THEN freeList[c] ELSE NextLink(Link[k - 1])]
                  /\ FreeBlocks(c) = {Link[k] : k \in 0 .. LastAddress} \ {Null}
  <2> DEFINE L == CHOOSE f : f = [k \in 0 .. LastAddress |-> IF k = 0 THEN freeList[c] ELSE NextLink(f[k - 1])]
  <2>1. LastAddress \in Nat
    BY AllocAssumption
  <2>2. L = [k \in 0 .. LastAddress |-> IF k = 0 THEN freeList[c] ELSE NextLink(L[k - 1])]
    BY <2>1, LinksExist
  <2>3. FreeBlocks(c) = {L[k] : k \in 0 .. LastAddress} \ {Null}
    BY DEF FreeBlocks, NextLink
  <2> HIDE DEF L
  <2> QED
    BY <2>2, <2>3
<1>2. \A x \in Addr : InList(kind, who, c, x) => NextLink(x) = Null \/ InList(kind, who, c, NextLink(x))
  BY DEF Owners, ListBlocks, NextLink, Null
<1>3. freeList[c] = Null \/ InList(kind, who, c, freeList[c])
  BY DEF Owners, ListBlocks
<1> DEFINE P == {k \in Nat : k <= LastAddress => Link[k] = Null \/ InList(kind, who, c, Link[k])}
<1>4. 0 \in P
  BY <1>1, <1>3
<1>5. ASSUME NEW m \in Nat, m \in P PROVE m + 1 \in P
  <2> SUFFICES ASSUME m + 1 <= LastAddress
               PROVE  Link[m + 1] = Null \/ InList(kind, who, c, Link[m + 1])
    OBVIOUS
  <2>1. LastAddress \in Nat
    BY AllocAssumption
  <2>2. Link[m] = Null \/ InList(kind, who, c, Link[m])
    BY <1>5, <2>1
  <2>3. Link[m + 1] = NextLink(Link[m])
    <3>1. m + 1 \in 0 .. LastAddress /\ m + 1 # 0 /\ (m + 1) - 1 = m
      BY <2>1
    <3> QED
      BY <1>1, <3>1
  <2> QED
    BY <1>2, <2>2, <2>3 DEF NextLink, InList
<1>6. \A m \in Nat : m \in P => m + 1 \in P
  BY <1>5
<1> HIDE DEF P
<1>7. \A k \in Nat : k \in P
  BY <1>4, <1>6, SetInduction
<1>8. PICK k \in 0 .. LastAddress : b = Link[k] /\ b # Null
  BY <1>1
<1>9. k \in Nat /\ k <= LastAddress
  BY AllocAssumption
<1> QED
  BY <1>7, <1>8, <1>9 DEF P

\* The piece that the hand of a block makes of it.
PieceOf(k, w, b) ==
  IF k = "held" THEN [of |-> "held", base |-> b, len |-> w + 1]
  ELSE IF k = "list" THEN [of |-> "list", base |-> b, len |-> w + 1]
  ELSE IF k = "fill" THEN [of |-> w, base |-> b, len |-> step[w].asked + 1]
  ELSE [of |-> w, base |-> b, len |-> header[b].usable + 1]

RestPiece == [of |-> "arena", base |-> bump, len |-> end - bump]

\* Every piece but the arena's rest is a block that the ghosts put in the same hand.
LEMMA PieceHasAHand ==
  ASSUME AllocTypes, NEW own, NEW kind, NEW who, Owners(own, kind, who), NEW p \in Pieces, p # RestPiece
  PROVE  \E b \in Addr, u \in Nat : /\ Block(own, b, u) /\ p = PieceOf(kind[b], who[b], b)
                                   /\ p.base = b /\ p.len \in Nat /\ p.len <= u + 1
<1>1. CASE \E h \in held : p = [of |-> "held", base |-> h[1], len |-> h[2] + 1]
  <2>1. PICK h \in held : p = [of |-> "held", base |-> h[1], len |-> h[2] + 1]
    BY <1>1
  <2>2. /\ h[1] \in Addr /\ h[2] \in Nat /\ header[h[1]].usable \in Nat
        /\ kind[h[1]] = "held" /\ who[h[1]] = h[2] /\ h[2] <= header[h[1]].usable /\ Written(own, h[1])
    BY HeldTyped
  <2>3. PICK b \in Addr, n \in Nat, u \in Nat : b = h[1] /\ n = h[2] /\ u = header[b].usable
    BY <2>2
  <2>4. p = [of |-> "held", base |-> b, len |-> n + 1] /\ kind[b] = "held" /\ who[b] = n /\ n <= u /\ Block(own, b, u)
    BY <2>1, <2>2, <2>3 DEF Written
  <2>5. p = PieceOf(kind[b], who[b], b) /\ p.base = b /\ p.len = n + 1
    BY <2>4 DEF PieceOf
  <2> QED
    BY <2>4, <2>5
<1>2. CASE \E c \in Classes : \E b \in FreeBlocks(c) : p = [of |-> "list", base |-> b, len |-> c + 1]
  <2>1. PICK c \in Classes : \E b \in FreeBlocks(c) : p = [of |-> "list", base |-> b, len |-> c + 1]
    BY <1>2
  <2>2. PICK b \in FreeBlocks(c) : p = [of |-> "list", base |-> b, len |-> c + 1]
    BY <2>1
  <2>3. InList(kind, who, c, b)
    BY FreeBlocksAreListed
  <2>4. b \in Addr /\ kind[b] = "list" /\ who[b] = c /\ c \in Nat
    BY <2>3, AllocAssumption DEF InList
  <2>5. Block(own, b, c)
    BY <2>3, <2>4 DEF Owners, ListBlocks
  <2>6. p = PieceOf(kind[b], who[b], b) /\ p.base = b /\ p.len = c + 1
    BY <2>2, <2>4 DEF PieceOf
  <2> QED
    BY <2>4, <2>5, <2>6
<1>3. CASE \E v \in Users : step[v].at = "fill" /\ p = [of |-> v, base |-> step[v].block, len |-> step[v].asked + 1]
  <2>1. PICK v \in Users : step[v].at = "fill" /\ p = [of |-> v, base |-> step[v].block, len |-> step[v].asked + 1]
    BY <1>3
  <2>2. step[v] \in FillOps
    BY <2>1, StepTyped
  <2>3. PICK b \in Addr, u \in Nat, n \in Nat : b = step[v].block /\ u = step[v].usable /\ n = step[v].asked
    BY <2>2 DEF FillOps
  <2>4. kind[b] = "fill" /\ who[b] = v /\ n <= u /\ Block(own, b, u)
    BY <2>1, <2>3 DEF Owners, FilledBlocks, FillOk
  <2>5. p = PieceOf(kind[b], who[b], b) /\ p.base = b /\ p.len = n + 1
    BY <2>1, <2>3, <2>4 DEF PieceOf
  <2> QED
    BY <2>4, <2>5
<1>4. CASE \E v \in Users : step[v].at = "free" /\ p = [of |-> v, base |-> step[v].block, len |-> header[step[v].block].usable + 1]
  <2>1. PICK v \in Users : step[v].at = "free" /\ p = [of |-> v, base |-> step[v].block, len |-> header[step[v].block].usable + 1]
    BY <1>4
  <2>2. step[v] \in FreeOps
    BY <2>1, StepTyped
  <2>3. PICK b \in Addr : b = step[v].block
    BY <2>2 DEF FreeOps
  <2>4. kind[b] = "free" /\ who[b] = v /\ Block(own, b, header[b].usable)
    BY <2>1, <2>3 DEF Owners, FreedBlocks, FreeOk, Written
  <2>5. header[b].usable \in Nat
    BY DEF AllocTypes
  <2>6. p = PieceOf(kind[b], who[b], b) /\ p.base = b /\ p.len = header[b].usable + 1
    BY <2>1, <2>3, <2>4 DEF PieceOf
  <2> QED
    BY <2>4, <2>5, <2>6
<1>5. \/ p \in {[of |-> "held", base |-> b[1], len |-> b[2] + 1] : b \in held}
      \/ p \in UNION {{[of |-> "list", base |-> b, len |-> c + 1] : b \in FreeBlocks(c)} : c \in Classes}
      \/ p \in {[of |-> t, base |-> step[t].block, len |-> step[t].asked + 1] :
                 t \in {u \in Users : step[u].at = "fill"}}
      \/ p \in {[of |-> t, base |-> step[t].block, len |-> header[step[t].block].usable + 1] :
                 t \in {u \in Users : step[u].at = "free"}}
      \/ p \in {RestPiece}
  BY DEF Pieces, RestPiece
<1>6. CASE p \in {[of |-> "held", base |-> b[1], len |-> b[2] + 1] : b \in held}
  BY <1>1, <1>6
<1>7. CASE p \in UNION {{[of |-> "list", base |-> b, len |-> c + 1] : b \in FreeBlocks(c)} : c \in Classes}
  BY <1>2, <1>7
<1>8. CASE p \in {[of |-> t, base |-> step[t].block, len |-> step[t].asked + 1] :
                 t \in {u \in Users : step[u].at = "fill"}}
  BY <1>3, <1>8
<1>9. CASE p \in {[of |-> t, base |-> step[t].block, len |-> header[step[t].block].usable + 1] :
                 t \in {u \in Users : step[u].at = "free"}}
  BY <1>4, <1>9
<1> QED
  BY <1>5, <1>6, <1>7, <1>8, <1>9

\* The invariant gives every address one owner.
LEMMA InvImpliesOneOwner ==
  AllocInv => MemoryHasOneOwner
<1> SUFFICES ASSUME AllocInv PROVE MemoryHasOneOwner
  OBVIOUS
<1>1. AllocTypes
  BY DEF AllocInv
<1>2. PICK own, kind, who : Owners(own, kind, who)
  BY DEF AllocInv
<1>3. \A a \in Addr : own[a] # 0 => a \in mapped
  BY <1>2 DEF Owners, OwnTypes
<1>4. \A a \in Span(RestPiece.base, RestPiece.len) : a \in Addr /\ own[a] = ArenaOwn
  BY <1>2 DEF Owners, ArenaRest, RestPiece
<1>5. ASSUME NEW p \in Pieces, p # RestPiece
      PROVE  /\ p.base \in Addr /\ p = PieceOf(kind[p.base], who[p.base], p.base)
             /\ \A a \in Span(p.base, p.len) : a \in Addr /\ own[a] = p.base
  <2>1. PICK b \in Addr, u \in Nat : /\ Block(own, b, u) /\ p = PieceOf(kind[b], who[b], b)
                                   /\ p.base = b /\ p.len \in Nat /\ p.len <= u + 1
    BY <1>1, <1>2, <1>5, PieceHasAHand
  <2>2. PICK n \in Nat : n = p.len /\ n <= u + 1
    BY <2>1
  <2>3. \A a \in Span(b, n) : a \in Span(b, u + 1)
    BY <2>2 DEF Span, Addr
  <2>4. \A a \in Span(b, n) : a \in Addr /\ own[a] = b
    BY <2>1, <2>3 DEF Block
  <2> QED
    BY <2>1, <2>2, <2>4
<1>6. \A p \in Pieces : Span(p.base, p.len) \subseteq mapped
  <2> SUFFICES ASSUME NEW p \in Pieces, NEW a \in Span(p.base, p.len) PROVE a \in mapped
    OBVIOUS
  <2>1. CASE p = RestPiece
    BY <1>3, <1>4, <2>1 DEF ArenaOwn
  <2>2. CASE p # RestPiece
    BY <1>3, <1>5, <2>2 DEF Addr
  <2> QED
    BY <2>1, <2>2
<1>7. ASSUME NEW p \in Pieces, NEW q \in Pieces, p # q, NEW a \in Span(p.base, p.len), a \in Span(q.base, q.len)
      PROVE  FALSE
  <2>1. CASE p = RestPiece
    <3>1. q # RestPiece /\ own[a] = ArenaOwn
      BY <1>4, <1>7, <2>1
    <3>2. own[a] = q.base /\ q.base \in Addr
      BY <1>5, <1>7, <3>1
    <3> QED
      BY <3>1, <3>2 DEF ArenaOwn, Addr
  <2>2. CASE q = RestPiece
    <3>1. p # RestPiece /\ own[a] = ArenaOwn
      BY <1>4, <1>7, <2>2
    <3>2. own[a] = p.base /\ p.base \in Addr
      BY <1>5, <1>7, <3>1
    <3> QED
      BY <3>1, <3>2 DEF ArenaOwn, Addr
  <2>3. CASE p # RestPiece /\ q # RestPiece
    <3>1. own[a] = p.base /\ p = PieceOf(kind[p.base], who[p.base], p.base)
      BY <1>5, <1>7, <2>3
    <3>2. own[a] = q.base /\ q = PieceOf(kind[q.base], who[q.base], q.base)
      BY <1>5, <1>7, <2>3
    <3>3. p.base = q.base
      BY <3>1, <3>2
    <3> QED
      BY <1>7, <3>1, <3>2, <3>3
  <2> QED
    BY <2>1, <2>2, <2>3
<1> QED
  BY <1>6, <1>7 DEF MemoryHasOneOwner

\* No address belongs to two owners and none is used after its unmapping: a block is never
\* handed out twice by jl_malloc, whatever threads free and reallocate meanwhile.
THEOREM EveryByteHasOneOwner == AllocSpec => []MemoryHasOneOwner
BY AllocInvariant, InvImpliesOneOwner, PTL
-----------------------------------------------------------------------------
(* Where the descriptors of a signature lie.                               *)

\* The recursive function behind FlattenSeq exists, at any length.
LEMMA FlattensExist ==
  ASSUME NEW s, NEW n \in Nat
  PROVE  \E f : f = [i \in 1 .. n |-> IF i = 1 THEN s[i] ELSE f[i - 1] \o s[i]]
<1> DEFINE Good(m) == \E f : f = [i \in 1 .. m |-> IF i = 1 THEN s[i] ELSE f[i - 1] \o s[i]]
           P == {m \in Nat : Good(m)}
<1>1. 0 \in P
  <2> DEFINE f == [i \in 1 .. 0 |-> s[i]]
  <2>1. f = [i \in 1 .. 0 |-> IF i = 1 THEN s[i] ELSE f[i - 1] \o s[i]]
    <3>1. 1 .. 0 = {}
      OBVIOUS
    <3> QED
      BY <3>1
  <2> QED
    BY <2>1
<1>2. ASSUME NEW m \in Nat, Good(m)
      PROVE  Good(m + 1)
  <2>1. PICK f : f = [i \in 1 .. m |-> IF i = 1 THEN s[i] ELSE f[i - 1] \o s[i]]
    BY <1>2
  <2> DEFINE g == [i \in 1 .. m + 1 |-> IF i = m + 1 THEN (IF m = 0 THEN s[1] ELSE f[m] \o s[m + 1]) ELSE f[i]]
             h == [i \in 1 .. m + 1 |-> IF i = 1 THEN s[i] ELSE g[i - 1] \o s[i]]
  <2>2. ASSUME NEW i \in 1 .. m + 1
        PROVE  g[i] = h[i]
    <3>1. CASE i = m + 1 /\ m = 0
      BY <3>1
    <3>2. CASE i = m + 1 /\ m # 0
      <4>1. i - 1 = m /\ m \in 1 .. m + 1 /\ m # m + 1 /\ i # 1
        BY <3>2
      <4>2. g[m] = f[m]
        BY <4>1
      <4>3. g[i] = f[m] \o s[m + 1]
        BY <3>2
      <4>4. h[i] = g[m] \o s[i]
        BY <4>1
      <4> QED
        BY <3>2, <4>2, <4>3, <4>4
    <3>3. CASE i # m + 1
      <4>1. i \in 1 .. m
        BY <3>3
      <4>2. g[i] = f[i]
        BY <3>3
      <4>3. f[i] = IF i = 1 THEN s[i] ELSE f[i - 1] \o s[i]
        BY <2>1, <4>1
      <4>4. CASE i = 1
        BY <4>2, <4>3, <4>4
      <4>5. CASE i # 1
        <5>1. i - 1 \in 1 .. m + 1 /\ i - 1 # m + 1
          BY <4>1, <4>5
        <5>2. g[i - 1] = f[i - 1]
          BY <5>1
        <5>3. h[i] = g[i - 1] \o s[i]
          BY <4>5
        <5> QED
          BY <4>2, <4>3, <4>5, <5>2, <5>3
      <4> QED
        BY <4>4, <4>5
    <3> QED
      BY <3>1, <3>2, <3>3
  <2>3. g = h
    <3>1. g = [i \in 1 .. m + 1 |-> g[i]] /\ h = [i \in 1 .. m + 1 |-> h[i]]
      OBVIOUS
    <3> HIDE DEF g, h
    <3> QED
      BY <2>2, <3>1
  <2>4. g = [i \in 1 .. m + 1 |-> IF i = 1 THEN s[i] ELSE g[i - 1] \o s[i]]
    BY <2>3
  <2> HIDE DEF g
  <2> QED
    BY <2>4
<1> HIDE DEF Good
<1>3. \A m \in Nat : m \in P => m + 1 \in P
  BY <1>2
<1> HIDE DEF P
<1>4. n \in P
  BY <1>1, <1>3, SetInduction
<1>5. Good(n)
  BY <1>4 DEF P
<1> QED
  BY <1>5 DEF Good

\* FlattenSeq puts the sequences one behind the other: each has a start, at which the
\* result agrees with it, and the next starts where it ends.
Starts(s, flat, start) ==
  /\ start \in [1 .. Len(s) + 1 -> Nat \ {0}]
  /\ start[1] = 1
  /\ \A i \in 1 .. Len(s) : start[i + 1] = start[i] + Len(s[i]) /\ start[i + 1] <= Len(flat) + 1
  /\ start[Len(s) + 1] = Len(flat) + 1
  /\ \A i \in 1 .. Len(s) : \A k \in 1 .. Len(s[i]) : flat[start[i] + k - 1] = s[i][k]

LEMMA FlattenLayout ==
  ASSUME NEW S, NEW s \in Seq(Seq(S))
  PROVE  /\ FlattenSeq(s) \in Seq(S)
         /\ \E start : Starts(s, FlattenSeq(s), start)
<1>1. CASE Len(s) = 0
  <2>1. FlattenSeq(s) = <<>> /\ s = <<>>
    BY <1>1 DEF FlattenSeq
  <2> DEFINE start == [i \in 1 .. 1 |-> 1]
  <2>2. Starts(s, FlattenSeq(s), start)
    BY <1>1, <2>1 DEF Starts
  <2> HIDE DEF start
  <2> QED
    BY <2>1, <2>2
<1>2. CASE Len(s) # 0
  <2> DEFINE N == Len(s)
  <2>1. N \in Nat \ {0}
    BY <1>2
  <2>2. PICK f : /\ f = [i \in 1 .. N |-> IF i = 1 THEN s[i] ELSE f[i - 1] \o s[i]]
                 /\ FlattenSeq(s) = f[N]
    <3> DEFINE F == CHOOSE f : f = [i \in 1 .. N |-> IF i = 1 THEN s[i] ELSE f[i - 1] \o s[i]]
    <3>1. F = [i \in 1 .. N |-> IF i = 1 THEN s[i] ELSE F[i - 1] \o s[i]]
      BY <2>1, FlattensExist
    <3>2. FlattenSeq(s) = F[N]
      BY <1>2 DEF FlattenSeq
    <3> HIDE DEF F
    <3> QED
      BY <3>1, <3>2
  <2>3. f[1] = s[1] /\ \A i \in 1 .. N : i # 1 => f[i] = f[i - 1] \o s[i]
    <3>1. \A i \in 1 .. N : f[i] = IF i = 1 THEN s[i] ELSE f[i - 1] \o s[i]
      BY <2>2
    <3>2. 1 \in 1 .. N
      BY <2>1
    <3> HIDE DEF N
    <3> QED
      BY <3>1, <3>2
  <2>4. \A i \in 1 .. N : s[i] \in Seq(S)
    OBVIOUS
  <2> DEFINE start == [i \in 1 .. N + 1 |-> IF i = 1 THEN 1 ELSE Len(f[i - 1]) + 1]
             Good(m) == /\ \A i \in 1 .. m : f[i] \in Seq(S) /\ Len(f[i]) <= Len(f[m])
                        /\ \A i \in 1 .. m : start[i + 1] = start[i] + Len(s[i])
                        /\ \A i \in 1 .. m : \A k \in 1 .. Len(s[i]) : f[m][start[i] + k - 1] = s[i][k]
             P == {m \in Nat : m \in 1 .. N => Good(m)}
  <2>5. 0 \in P
    OBVIOUS
  <2> HIDE DEF Good
  <2>6. ASSUME NEW m \in Nat, m \in P
        PROVE  m + 1 \in P
    <3> SUFFICES ASSUME m + 1 \in 1 .. N PROVE Good(m + 1)
      <4>1. m + 1 \in Nat
        OBVIOUS
      <4> HIDE DEF N
      <4> QED
        BY <4>1
    <3>1. CASE m = 0
      <4>1. f[1] \in Seq(S) /\ f[1] = s[1]
        BY <2>1, <2>3, <2>4
      <4>2. start[1] = 1 /\ start[2] = Len(s[1]) + 1
        BY <2>1, <4>1
      <4>3. \A i \in 1 .. m + 1 : i = 1
        BY <3>1
      <4> HIDE DEF start
      <4> QED
        BY <3>1, <4>1, <4>2, <4>3 DEF Good
    <3>2. CASE m # 0
      <4>1. Good(m) /\ m \in 1 .. N
        <5>1. m \in 1 .. N
          BY <3>2
        <5> QED
          BY <2>6, <5>1
      <4>2. f[m + 1] = f[m] \o s[m + 1] /\ s[m + 1] \in Seq(S) /\ f[m] \in Seq(S)
        <5>1. m + 1 # 1 /\ m + 1 - 1 = m
          BY <3>2
        <5>2. f[m + 1] = f[m] \o s[m + 1]
          <6>1. PICK i \in 1 .. N : i = m + 1
            OBVIOUS
          <6>2. i # 1 /\ i - 1 = m
            BY <5>1, <6>1
          <6> HIDE DEF N
          <6>3. f[i] = f[i - 1] \o s[i]
            BY <2>3, <6>2
          <6>4. f[i] = f[m] \o s[i]
            BY <6>2, <6>3
          <6> QED
            BY <6>1, <6>4
        <5>3. m \in 1 .. m
          BY <4>1
        <5>4. f[m] \in Seq(S)
          BY <4>1, <5>3 DEF Good
        <5>5. s[m + 1] \in Seq(S)
          BY <2>4
        <5> QED
          BY <5>2, <5>4, <5>5
      <4>3. /\ f[m + 1] \in Seq(S) /\ Len(f[m + 1]) = Len(f[m]) + Len(s[m + 1])
            /\ \A q \in 1 .. Len(f[m]) : f[m + 1][q] = f[m][q]
            /\ \A k \in 1 .. Len(s[m + 1]) : f[m + 1][Len(f[m]) + k] = s[m + 1][k]
        <5> DEFINE u == f[m]
                   v == s[m + 1]
        <5>1. u \in Seq(S) /\ v \in Seq(S) /\ f[m + 1] = u \o v
          BY <4>2
        <5> HIDE DEF u, v
        <5>2. /\ u \o v \in Seq(S) /\ Len(u \o v) = Len(u) + Len(v)
              /\ \A q \in 1 .. Len(u) : (u \o v)[q] = u[q]
              /\ \A k \in 1 .. Len(v) : (u \o v)[Len(u) + k] = v[k]
          BY <5>1
        <5> QED
          BY <5>1, <5>2 DEF u, v
      <4>4. start[m + 1] = Len(f[m]) + 1 /\ start[m + 1 + 1] = Len(f[m + 1]) + 1
        <5>1. m + 1 \in 1 .. N + 1 /\ m + 1 # 1 /\ m + 1 + 1 \in 1 .. N + 1 /\ m + 1 + 1 # 1
          BY <4>1
        <5> QED
          BY <5>1
      <4>5. \A i \in 1 .. m : start[i] \in Nat \ {0} /\ start[i + 1] <= Len(f[m]) + 1
        <5> TAKE i \in 1 .. m
        <5>1. i \in 1 .. N + 1 /\ i + 1 \in 1 .. N + 1 /\ i + 1 # 1 /\ i + 1 - 1 = i
          BY <4>1
        <5>2. start[i + 1] = Len(f[i]) + 1
          BY <5>1
        <5>3. start[i] = IF i = 1 THEN 1 ELSE Len(f[i - 1]) + 1
          BY <5>1
        <5>4. f[i] \in Seq(S) /\ Len(f[i]) <= Len(f[m]) /\ (i # 1 => f[i - 1] \in Seq(S))
          <6>1. i # 1 => i - 1 \in 1 .. m
            OBVIOUS
          <6> QED
            BY <4>1, <6>1 DEF Good
        <5> HIDE DEF start
        <5>5. Len(f[i]) \in Nat /\ (i # 1 => Len(f[i - 1]) \in Nat)
          BY <5>4
        <5>6. start[i] \in Nat \ {0}
          BY <5>3, <5>5
        <5>7. Len(f[m]) \in Nat
          BY <4>2
        <5> QED
          BY <5>2, <5>4, <5>5, <5>6, <5>7
      <4>6. (m + 1) \in 1 .. m + 1 /\ \A i \in 1 .. m + 1 : i \in 1 .. m \/ i = m + 1
        OBVIOUS
      <4> HIDE DEF start
      <4>7. \A i \in 1 .. m + 1 : f[i] \in Seq(S) /\ Len(f[i]) <= Len(f[m + 1])
        <5>1. \A i \in 1 .. m : f[i] \in Seq(S) /\ Len(f[i]) <= Len(f[m])
          BY <4>1 DEF Good
        <5>2. Len(f[m]) \in Nat /\ Len(s[m + 1]) \in Nat
          BY <4>2
        <5> TAKE i \in 1 .. m + 1
        <5>3. CASE i \in 1 .. m
          <6>1. f[i] \in Seq(S) /\ Len(f[i]) <= Len(f[m])
            BY <5>1, <5>3
          <6>2. Len(f[i]) \in Nat
            BY <6>1
          <6> DEFINE x == Len(f[m + 1])
                     y == Len(f[m])
                     z == Len(s[m + 1])
                     w == Len(f[i])
          <6>3. x = y + z
            BY <4>3
          <6>4. w <= y /\ w \in Nat /\ y \in Nat /\ z \in Nat
            BY <5>2, <6>1, <6>2
          <6>5. w <= x
            <7> HIDE DEF x, y, z, w
            <7> QED
              BY <6>3, <6>4
          <6> QED
            BY <6>1, <6>5
        <5>4. CASE i = m + 1
          <6>1. f[i] \in Seq(S)
            BY <4>3, <5>4
          <6>2. Len(f[i]) \in Nat /\ Len(f[i]) = Len(f[m + 1])
            BY <5>4, <6>1
          <6> QED
            BY <6>1, <6>2
        <5> QED
          BY <4>6, <5>3, <5>4
      <4>8. \A i \in 1 .. m + 1 : start[i + 1] = start[i] + Len(s[i])
        <5>1. start[m + 1 + 1] = start[m + 1] + Len(s[m + 1])
          <6>1. Len(f[m]) \in Nat /\ Len(s[m + 1]) \in Nat
            BY <4>2
          <6> DEFINE x == Len(f[m + 1])
                     y == Len(f[m])
                     z == Len(s[m + 1])
          <6>2. x = y + z /\ start[m + 1] = y + 1 /\ start[m + 1 + 1] = x + 1
            BY <4>3, <4>4
          <6>3. y \in Nat /\ z \in Nat
            BY <6>1
          <6>4. start[m + 1 + 1] = start[m + 1] + z
            <7> HIDE DEF x, y, z
            <7> QED
              BY <6>2, <6>3
          <6> QED
            BY <6>4
        <5> QED
          BY <4>1, <4>6, <5>1 DEF Good
      <4>9. ASSUME NEW i \in 1 .. m + 1, NEW k \in 1 .. Len(s[i])
            PROVE  f[m + 1][start[i] + k - 1] = s[i][k]
        <5>1. Len(f[m]) \in Nat /\ Len(s[m + 1]) \in Nat
          BY <4>2
        <5>2. CASE i \in 1 .. m
          <6>1. /\ f[m][start[i] + k - 1] = s[i][k] /\ start[i + 1] = start[i] + Len(s[i])
                /\ start[i] \in Nat \ {0} /\ start[i + 1] <= Len(f[m]) + 1
            BY <4>1, <4>5, <5>2 DEF Good
          <6>2. Len(s[i]) \in Nat
            <7>1. i \in 1 .. N
              BY <4>1, <5>2
            <7> QED
              BY <2>4, <7>1
          <6>3. start[i] + k - 1 \in 1 .. Len(f[m])
            <7> DEFINE x == start[i]
                       y == Len(s[i])
                       z == Len(f[m])
            <7>1. x \in Nat \ {0} /\ y \in Nat /\ z \in Nat /\ x + y <= z + 1 /\ k \in 1 .. y
              BY <5>1, <6>1, <6>2
            <7> HIDE DEF x, y, z
            <7>2. x + k - 1 \in 1 .. z
              BY <7>1
            <7> QED
              BY <7>2 DEF x, z
          <6> QED
            BY <4>3, <6>1, <6>3
        <5>3. CASE i = m + 1
          <6>1. start[i] + k - 1 = Len(f[m]) + k
            BY <4>4, <5>1, <5>3
          <6> QED
            BY <4>3, <5>3, <6>1
        <5> QED
          BY <4>6, <5>2, <5>3
      <4> QED
        BY <4>7, <4>8, <4>9 DEF Good
    <3> QED
      BY <3>1, <3>2
  <2> HIDE DEF P
  <2>7. N \in P
    BY <2>1, <2>5, <2>6, SetInduction
  <2>8. Good(N)
    <3>1. N \in 1 .. N
      BY <2>1
    <3> HIDE DEF N
    <3> QED
      BY <2>7, <3>1 DEF P
  <2>9. f[N] \in Seq(S)
    <3>1. N \in 1 .. N
      BY <2>1
    <3> QED
      BY <2>8, <3>1 DEF Good
  <2>10. start \in [1 .. N + 1 -> Nat \ {0}]
    <3> SUFFICES ASSUME NEW i \in 1 .. N + 1 PROVE start[i] \in Nat \ {0}
      OBVIOUS
    <3>1. CASE i = 1
      BY <3>1
    <3>2. CASE i # 1
      <4>1. i - 1 \in 1 .. N
        BY <3>2
      <4>2. f[i - 1] \in Seq(S)
        BY <2>8, <4>1 DEF Good
      <4>3. Len(f[i - 1]) \in Nat
        BY <4>2
      <4> QED
        BY <3>2, <4>3
    <3> QED
      BY <3>1, <3>2
  <2>11. start[1] = 1 /\ start[N + 1] = Len(f[N]) + 1
    BY <2>1
  <2>12. \A i \in 1 .. N : start[i + 1] <= Len(f[N]) + 1
    <3> TAKE i \in 1 .. N
    <3>1. i + 1 \in 1 .. N + 1 /\ i + 1 # 1 /\ i + 1 - 1 = i
      BY <2>1
    <3>2. start[i + 1] = Len(f[i]) + 1
      BY <3>1
    <3>3. f[i] \in Seq(S) /\ Len(f[i]) <= Len(f[N])
      BY <2>8 DEF Good
    <3>4. Len(f[i]) \in Nat /\ Len(f[N]) \in Nat
      BY <2>9, <3>3
    <3> HIDE DEF start
    <3> QED
      BY <3>2, <3>3, <3>4
  <2> HIDE DEF start
  <2>13. Starts(s, FlattenSeq(s), start)
    BY <2>2, <2>8, <2>10, <2>11, <2>12 DEF Starts, Good
  <2> QED
    BY <2>2, <2>9, <2>13
<1> QED
  BY <1>1, <1>2

SigChars == (UNION {Range(t) : t \in Types}) \cup {"(", ")", "V", End}
Readings == {"int", "long", "double", "pointer"}

LEMMA TypesAreSequences ==
  Types \subseteq Seq(SigChars)
<1> SUFFICES ASSUME NEW t \in Types PROVE t \in Seq(SigChars)
  OBVIOUS
<1>1. t \in Seq(Range(t)) /\ Range(t) \subseteq SigChars
  BY SignatureAssumption DEF SigChars
<1> QED
  BY <1>1

\* What the cache kept of the signature: the descriptors begin at `start`, as far as
\* the cut lets them, and what follows the last one ends the list.
Boundaries(start) ==
  /\ start \in [1 .. Len(params) + 1 -> Nat \ {0, 1}]
  /\ start[1] = 2
  /\ \A i \in 1 .. Len(params) : start[i + 1] = start[i] + Len(params[i])
  /\ sig \in Seq(SigChars) /\ Len(sig) # 0 /\ sig[Len(sig)] = End
  /\ sig[1] = "(" <=> Len(sig) # 1
  /\ Len(sig) <= start[Len(params) + 1] + 2
  /\ start[Len(params) + 1] < Len(sig) => sig[start[Len(params) + 1]] = ")"
  /\ \A i \in 1 .. Len(params) : \A k \in 1 .. Len(params[i]) :
       start[i] + k - 1 < Len(sig) => sig[start[i] + k - 1] = params[i][k]

\* How far the parsers are: the extractor stands at the start of a descriptor, what it
\* took it read as it should, and the encoder follows it, always at a start too as
\* long as there is a value left to encode.
Progress(start) ==
  /\ phase \in {"extract", "encode", "done"}
  /\ pulled \in Seq([char : SigChars, as : Readings]) /\ Len(pulled) <= Len(params)
  /\ \A i \in 1 .. Len(pulled) :
       /\ start[i] < Len(sig)
       /\ pulled[i].char = params[i][1] /\ pulled[i].as = ReadAs(params[i][1])
  /\ encoded \in Seq([char : SigChars, item : SigChars]) /\ Len(encoded) <= Len(pulled)
  /\ \A i \in 1 .. Len(encoded) :
       encoded[i].char = params[i][1] /\ encoded[i].item \in {ItemOf(params[i]), End}
  /\ phase = "extract" =>
       place = start[Len(pulled) + 1] /\ place <= Len(sig) /\ encoded = <<>>
  /\ phase = "encode" /\ MoreToEncode => place = start[Len(encoded) + 1]
  /\ phase = "done" /\ sig[1] = "(" => Len(encoded) = Len(pulled)

SigInv ==
  /\ params \in Seq(Types)
  /\ \E start : Boundaries(start) /\ Progress(start)

LEMMA MinOf ==
  ASSUME NEW T \in SUBSET Int, NEW x \in T, \A y \in T : x <= y
  PROVE  Min(T) = x
<1>1. \A y \in T : (\A z \in T : y <= z) => y = x
  OBVIOUS
<1> QED
  BY <1>1 DEF Min

\* The item of a descriptor is the type of an array's elements.
LEMMA ItemOfDescriptor ==
  ASSUME NEW t \in Types
  PROVE  /\ t \in Seq(SigChars)
         /\ \E d \in 1 .. Len(t) :
              /\ \A q \in 1 .. d - 1 : t[q] = "["
              /\ ItemOf(t) = t[d] /\ t[d] \notin {"[", ")", End}
              /\ \/ t[d] # "L" /\ d = Len(t)
                 \/ /\ t[d] = "L" /\ d < Len(t) /\ t[Len(t)] = ";"
                    /\ \A q \in d + 1 .. Len(t) - 1 : t[q] \notin {";", End}
<1>1. t \in Seq(SigChars) /\ Descriptor(t)
  BY SignatureAssumption, TypesAreSequences
<1>2. PICK d \in 1 .. Len(t) :
        /\ \A q \in 1 .. d - 1 : t[q] = "["
        /\ \/ t[d] \in Primitives /\ d = Len(t)
           \/ /\ t[d] = "L" /\ d < Len(t) /\ t[Len(t)] = ";"
              /\ \A q \in d + 1 .. Len(t) - 1 : t[q] \notin {";", End}
  <2>1. DOMAIN t = 1 .. Len(t)
    BY <1>1
  <2> QED
    BY <1>1, <2>1 DEF Descriptor
<1>3. t[d] \notin {"[", ")", End} /\ (t[d] \in Primitives => t[d] # "L")
  BY <1>2 DEF Primitives, End
<1>4. ItemOf(t) = t[d]
  <2> DEFINE T == {q \in DOMAIN t : t[q] # "["}
  <2>1. T \in SUBSET Int /\ d \in T
    BY <1>1, <1>3
  <2>2. \A y \in T : d <= y
    <3> SUFFICES ASSUME NEW y \in T, y < d PROVE FALSE
      BY <2>1
    <3>1. y \in 1 .. d - 1
      BY <1>1
    <3> QED
      BY <1>2, <3>1
  <2> HIDE DEF T
  <2>3. Min(T) = d
    BY <2>1, <2>2, MinOf
  <2> QED
    BY <2>3 DEF T, ItemOf
<1> QED
  BY <1>1, <1>2, <1>3, <1>4

\* Both parsers read the item of the descriptor that begins at p, or the terminator;
\* if the cut left the descriptor whole both end at its end, and if not the extractor
\* notices.
LEMMA ParsersMeet ==
  ASSUME NEW start, Boundaries(start), params \in Seq(Types),
         NEW i \in 1 .. Len(params), start[i] < Len(sig)
  PROVE  /\ sig[start[i]] = params[i][1] /\ sig[start[i]] \notin {")", End}
         /\ sig[ItemAt(start[i])] \in {ItemOf(params[i]), End}
         /\ ~Malformed(start[i]) => start[i + 1] <= Len(sig) /\ Advance(start[i]) = start[i + 1]
         /\ start[i + 1] <= Len(sig) => Skip(start[i]) = start[i + 1]
<1> DEFINE t == params[i]
           p == start[i]
           n == Len(sig)
           e == ItemAt(p)
<1>1. t \in Types
  OBVIOUS
<1>2. PICK d \in 1 .. Len(t) :
        /\ \A q \in 1 .. d - 1 : t[q] = "["
        /\ ItemOf(t) = t[d] /\ t[d] \notin {"[", ")", End}
        /\ \/ t[d] # "L" /\ d = Len(t)
           \/ /\ t[d] = "L" /\ d < Len(t) /\ t[Len(t)] = ";"
              /\ \A q \in d + 1 .. Len(t) - 1 : t[q] \notin {";", End}
  BY <1>1, ItemOfDescriptor
<1>3. t \in Seq(SigChars)
  BY <1>1, ItemOfDescriptor
<1>4. /\ p \in Nat \ {0, 1} /\ n \in Nat \ {0} /\ p < n
      /\ start[i + 1] = p + Len(t) /\ Len(t) \in Nat /\ d <= Len(t) /\ d \in Nat \ {0}
  <2>1. i \in 1 .. Len(params) + 1 /\ Len(params) \in Nat
    OBVIOUS
  <2>2. Len(t) \in Nat
    BY <1>3
  <2>3. start[i + 1] = start[i] + Len(params[i]) /\ p \in Nat \ {0, 1} /\ n \in Nat \ {0}
    <3>1. start[i + 1] = start[i] + Len(params[i])
      BY DEF Boundaries
    <3>2. p \in Nat \ {0, 1}
      BY <2>1 DEF Boundaries
    <3>3. sig \in Seq(SigChars) /\ Len(sig) # 0
      BY DEF Boundaries
    <3>4. n \in Nat \ {0}
      BY <3>3
    <3> QED
      BY <3>1, <3>2, <3>4
  <2> QED
    BY <2>2, <2>3
<1>5. /\ \A k \in 1 .. Len(t) : p + k - 1 < n => sig[p + k - 1] = t[k]
      /\ sig[n] = End /\ DOMAIN sig = 1 .. n
  BY DEF Boundaries
<1> HIDE DEF t, n, p
<1>6. sig[p] = t[1] /\ sig[p] \notin {")", End}
  <2>1. 1 \in 1 .. Len(t) /\ p + 1 - 1 = p
    BY <1>4
  <2>2. PICK k \in 1 .. Len(t) : k = 1 /\ p + k - 1 = p
    BY <2>1
  <2>3. sig[p] = t[1]
    BY <1>4, <1>5, <2>2
  <2>4. t[1] = "[" \/ d = 1
    <3>1. d # 1 => 1 \in 1 .. d - 1
      BY <1>4
    <3> QED
      BY <1>2, <3>1
  <2> QED
    BY <1>2, <2>3, <2>4 DEF End
<1>7. CASE p + d - 1 < n
  <2> DEFINE T == {q \in p .. n : sig[q] # "["}
  <2>1. sig[p + d - 1] = t[d]
    BY <1>5, <1>7
  <2>2. e = p + d - 1
    <3>1. T \in SUBSET Int /\ p + d - 1 \in T
      <4>1. p + d - 1 \in p .. n /\ p \in Int /\ n \in Int
        BY <1>4, <1>7
      <4>2. sig[p + d - 1] # "["
        BY <1>2, <2>1
      <4> QED
        BY <4>1, <4>2
    <3>2. \A y \in T : p + d - 1 <= y
      <4> SUFFICES ASSUME NEW y \in T, y < p + d - 1 PROVE FALSE
        BY <1>4
      <4>1. PICK k \in 1 .. Len(t) : k = y - p + 1
        BY <1>4
      <4>2. p + k - 1 = y /\ k \in 1 .. d - 1 /\ y < n
        BY <1>4, <1>7, <4>1
      <4>3. sig[p + k - 1] = t[k] /\ t[k] = "["
        BY <1>2, <1>5, <4>2
      <4> QED
        BY <4>2, <4>3
    <3> HIDE DEF T
    <3>3. Min(T) = p + d - 1
      BY <3>1, <3>2, MinOf
    <3> QED
      BY <3>3 DEF T, ItemAt, n
  <2> HIDE DEF e
  <2>3. CASE t[d] # "L" /\ d = Len(t)
    <3>1. sig[e] # "L" /\ sig[e] # End /\ e + 1 = start[i + 1]
      <4>1. sig[e] # "L" /\ sig[e] # End
        BY <1>2, <2>1, <2>2, <2>3
      <4>2. e + 1 = start[i + 1]
        BY <1>4, <2>2, <2>3
      <4> QED
        BY <4>1, <4>2
    <3>2. ~Malformed(p) /\ Advance(p) = start[i + 1] /\ Skip(p) = start[i + 1]
      BY <3>1 DEF Malformed, Advance, Skip, e
    <3>3. start[i + 1] <= n
      BY <1>4, <1>7, <2>3
    <3> QED
      BY <1>2, <1>6, <2>1, <2>2, <3>2, <3>3 DEF t, p, n, e
  <2>4. CASE t[d] = "L" /\ d < Len(t) /\ t[Len(t)] = ";" /\ \A q \in d + 1 .. Len(t) - 1 : t[q] \notin {";", End}
    <3> DEFINE F == {q \in e .. n : sig[q] = ";"}
               z == p + Len(t) - 1
    <3>1. \A y \in e .. n : y < z => sig[y] # ";"
      <4> SUFFICES ASSUME NEW y \in e .. n, y < z PROVE sig[y] # ";"
        OBVIOUS
      <4>1. CASE y = n
        BY <1>5, <4>1 DEF End
      <4>2. CASE y = e
        BY <2>1, <2>2, <2>4, <4>2
      <4>3. CASE y # n /\ y # e
        <5>1. PICK k \in 1 .. Len(t) : k = y - p + 1
          BY <1>4, <2>2
        <5>2. p + k - 1 = y /\ k \in d + 1 .. Len(t) - 1 /\ y < n
          BY <1>4, <2>2, <4>3, <5>1
        <5>3. sig[p + k - 1] = t[k] /\ t[k] # ";"
          BY <1>5, <2>4, <5>2
        <5> QED
          BY <5>2, <5>3
      <4> QED
        BY <4>1, <4>2, <4>3
    <3>2. CASE z < n
      <4>1. sig[z] = ";" /\ z \in e .. n
        <5>1. PICK k \in 1 .. Len(t) : k = Len(t)
          BY <1>4
        <5>2. p + k - 1 = z /\ z \in e .. n
          BY <1>4, <2>2, <3>2, <5>1
        <5>3. sig[z] = t[k]
          BY <1>5, <3>2, <5>2
        <5> QED
          BY <2>4, <5>1, <5>2, <5>3
      <4>2. F \in SUBSET Int /\ z \in F
        <5>1. e \in Int /\ n \in Int
          BY <1>4, <2>2
        <5>2. e .. n \subseteq Int
          BY <5>1
        <5>3. F \subseteq e .. n
          OBVIOUS
        <5> HIDE DEF z
        <5>4. z \in F
          BY <4>1
        <5> QED
          BY <5>2, <5>3, <5>4
      <4>3. \A y \in F : z <= y
        <5>1. e \in Int /\ n \in Int /\ z \in Int
          BY <1>4, <2>2
        <5> HIDE DEF z
        <5>2. \A y \in F : y \in e .. n /\ sig[y] = ";"
          OBVIOUS
        <5>3. \A y \in F : y \in Int
          BY <4>2
        <5> HIDE DEF F
        <5>4. \A y \in Int : ~(y < z) => z <= y
          BY <5>1
        <5>5. \A y \in F : ~(y < z)
          BY <3>1, <5>2
        <5> QED
          BY <5>3, <5>4, <5>5
      <4> HIDE DEF F
      <4>4. Min(F) = z
        BY <4>2, <4>3, MinOf
      <4>5. Seek(e, ";") = z
        BY <4>2, <4>4 DEF Seek, F, n
      <4>6. ~Missing(e, ";")
        <5>1. z \in Int /\ n \in Int /\ ~(z > n)
          BY <1>4, <3>2
        <5> HIDE DEF z
        <5>2. ~(Seek(e, ";") > n)
          BY <4>5, <5>1
        <5> QED
          BY <5>2 DEF Missing, n
      <4>7. sig[e] = "L" /\ z + 1 = start[i + 1] /\ start[i + 1] <= n
        <5>1. sig[e] = "L"
          BY <2>1, <2>2, <2>4
        <5>2. z + 1 = start[i + 1] /\ start[i + 1] <= n
          BY <1>4, <3>2
        <5> QED
          BY <5>1, <5>2
      <4>8. Advance(p) = start[i + 1] /\ Skip(p) = start[i + 1]
        BY <4>5, <4>6, <4>7 DEF Advance, Skip, e
      <4> QED
        BY <1>2, <1>6, <2>1, <2>2, <4>7, <4>8 DEF t, p, n, e
    <3>3. CASE ~(z < n)
      <4>1. F = {}
        <5>1. \A y \in e .. n : y < z \/ y = n
          BY <1>4, <2>2, <3>3
        <5>2. sig[n] # ";"
          BY <1>5 DEF End
        <5> HIDE DEF z
        <5> QED
          BY <3>1, <5>1, <5>2
      <4>2. Seek(e, ";") = n + 1
        BY <4>1 DEF Seek, n
      <4>3. Missing(e, ";")
        <5>1. n + 1 > n
          BY <1>4
        <5> QED
          BY <4>2, <5>1 DEF Missing, n
      <4>4. Malformed(p)
        BY <2>1, <2>2, <2>4, <4>3 DEF Malformed, e
      <4>5. ~(start[i + 1] <= n)
        BY <1>4, <3>3
      <4> QED
        BY <1>2, <1>6, <2>1, <2>2, <4>4, <4>5 DEF t, p, n, e
    <3> QED
      BY <3>2, <3>3
  <2> QED
    BY <1>2, <2>3, <2>4
<1>8. CASE ~(p + d - 1 < n)
  <2> DEFINE T == {q \in p .. n : sig[q] # "["}
  <2>1. e = n
    <3>1. T \in SUBSET Int /\ n \in T
      BY <1>4, <1>5 DEF End
    <3>2. \A y \in T : n <= y
      <4> SUFFICES ASSUME NEW y \in T, y < n PROVE FALSE
        BY <1>4
      <4>1. PICK k \in 1 .. Len(t) : k = y - p + 1
        BY <1>4, <1>8
      <4>2. p + k - 1 = y /\ k \in 1 .. d - 1
        BY <1>4, <1>8, <4>1
      <4>3. sig[p + k - 1] = t[k] /\ t[k] = "["
        BY <1>2, <1>5, <4>2
      <4> QED
        BY <4>2, <4>3
    <3> HIDE DEF T
    <3>3. Min(T) = n
      BY <3>1, <3>2, MinOf
    <3> QED
      BY <3>3 DEF T, ItemAt, n
  <2> HIDE DEF e
  <2>2. sig[e] = End /\ e > p
    BY <1>4, <1>5, <2>1
  <2>3. Malformed(p)
    BY <2>2 DEF Malformed, e
  <2>4. ~(start[i + 1] <= n)
    BY <1>4, <1>8
  <2> QED
    BY <1>6, <2>2, <2>3, <2>4 DEF t, p, n, e
<1> QED
  BY <1>7, <1>8

LEMMA SigInvInit ==
  ASSUME SigInit
  PROVE  SigInv
<1>1. params \in Seq(Types)
  BY SignatureAssumption DEF SigInit, SeqOf
<1>2. params \in Seq(Seq(SigChars))
  BY <1>1, TypesAreSequences
<1> DEFINE flat == FlattenSeq(params)
           S == Signature(params)
           m == Len(flat)
<1>3. flat \in Seq(SigChars)
  BY <1>2, FlattenLayout
<1>4. PICK st : Starts(params, flat, st)
  BY <1>2, FlattenLayout
<1>5. PICK n \in 0 .. Len(S) : sig = SubSeq(S, 1, n) \o <<End>>
  BY DEF SigInit
<1> HIDE DEF flat
<1>6. /\ S \in Seq(SigChars) /\ Len(S) = m + 3 /\ m \in Nat
      /\ S[1] = "(" /\ S[m + 2] = ")"
      /\ \A q \in 1 .. m : S[q + 1] = flat[q]
  <2> DEFINE left == <<"(">>
             right == <<")", "V">>
  <2>1. S = left \o flat \o right
    BY DEF Signature, flat
  <2>2. left \in Seq(SigChars) /\ right \in Seq(SigChars) /\ Len(left) = 1 /\ Len(right) = 2 /\ left[1] = "(" /\ right[1] = ")"
    <3>1. {"(", ")", "V"} \subseteq SigChars
      BY DEF SigChars
    <3>2. left \in Seq(SigChars) /\ right \in Seq(SigChars)
      BY <3>1
    <3> QED
      BY <3>2
  <2> HIDE DEF left, right, S
  <2>3. /\ left \o flat \in Seq(SigChars) /\ Len(left \o flat) = 1 + m /\ m \in Nat
        /\ (left \o flat)[1] = "(" /\ \A q \in 1 .. m : (left \o flat)[1 + q] = flat[q]
    <3>1. /\ left \o flat \in Seq(SigChars) /\ Len(left \o flat) = Len(left) + Len(flat)
          /\ \A q \in 1 .. Len(left) : (left \o flat)[q] = left[q]
          /\ \A q \in 1 .. Len(flat) : (left \o flat)[Len(left) + q] = flat[q]
      <4>1. left \in Seq(SigChars) /\ flat \in Seq(SigChars)
        BY <1>3, <2>2
      <4> QED
        BY <4>1
    <3>2. m \in Nat /\ 1 \in 1 .. Len(left)
      BY <1>3, <2>2
    <3> QED
      BY <2>2, <3>1, <3>2
  <2> DEFINE u == left \o flat
  <2> HIDE DEF u
  <2>4. /\ u \o right \in Seq(SigChars) /\ Len(u \o right) = 1 + m + 2
        /\ \A q \in 1 .. 1 + m : (u \o right)[q] = u[q]
        /\ (u \o right)[m + 2] = ")"
    <3>1. u \in Seq(SigChars) /\ Len(u) = 1 + m /\ m \in Nat
      BY <2>3 DEF u
    <3>2. /\ u \o right \in Seq(SigChars) /\ Len(u \o right) = Len(u) + Len(right)
          /\ \A q \in 1 .. Len(u) : (u \o right)[q] = u[q]
          /\ \A q \in 1 .. Len(right) : (u \o right)[Len(u) + q] = right[q]
      <4>1. u \in Seq(SigChars) /\ right \in Seq(SigChars)
        BY <2>2, <3>1
      <4> QED
        BY <4>1
    <3>3. 1 \in 1 .. Len(right) /\ Len(u) + 1 = m + 2
      BY <2>2, <3>1
    <3>4. (u \o right)[m + 2] = ")"
      BY <2>2, <3>2, <3>3
    <3> HIDE DEF m
    <3> QED
      BY <2>2, <3>1, <3>2, <3>4
  <2>5. \A q \in 1 .. m : q + 1 \in 1 .. 1 + m /\ 1 + q = q + 1
    BY <2>3
  <2>6. 1 \in 1 .. 1 + m /\ 1 + m + 2 = m + 3
    BY <2>3
  <2> QED
    BY <2>1, <2>3, <2>4, <2>5, <2>6 DEF u
<1> HIDE DEF S, m
<1>7. /\ sig \in Seq(SigChars) /\ Len(sig) = n + 1 /\ sig[n + 1] = End /\ n \in Nat /\ n <= m + 3
      /\ \A q \in 1 .. n : sig[q] = S[q]
  <2> DEFINE u == SubSeq(S, 1, n)
  <2>1. n \in Nat /\ n <= m + 3
    BY <1>6
  <2>2. u \in Seq(SigChars) /\ Len(u) = n /\ \A q \in 1 .. n : u[q] = S[q]
    BY <1>6, <2>1
  <2>3. <<End>> \in Seq(SigChars)
    <3>1. End \in SigChars
      BY DEF SigChars
    <3> QED
      BY <3>1
  <2>4. sig = u \o <<End>>
    BY <1>5
  <2> HIDE DEF u
  <2>5. /\ u \o <<End>> \in Seq(SigChars) /\ Len(u \o <<End>>) = n + 1
        /\ (u \o <<End>>)[n + 1] = End /\ \A q \in 1 .. n : (u \o <<End>>)[q] = u[q]
    BY <2>1, <2>2, <2>3
  <2> QED
    BY <2>1, <2>2, <2>4, <2>5
<1> DEFINE N == Len(params)
           start == [i \in 1 .. N + 1 |-> st[i] + 1]
<1>8. /\ N \in Nat /\ st \in [1 .. N + 1 -> Nat \ {0}] /\ st[1] = 1 /\ st[N + 1] = m + 1
      /\ \A i \in 1 .. N : st[i + 1] = st[i] + Len(params[i]) /\ st[i + 1] <= m + 1 /\ Len(params[i]) \in Nat
      /\ \A i \in 1 .. N : \A k \in 1 .. Len(params[i]) : flat[st[i] + k - 1] = params[i][k]
  BY <1>2, <1>4 DEF Starts, m
<1> HIDE DEF N
<1>9. /\ start \in [1 .. N + 1 -> Nat \ {0, 1}] /\ start[1] = 2 /\ start[N + 1] = m + 2
      /\ \A i \in 1 .. N : start[i + 1] = start[i] + Len(params[i]) /\ start[i] = st[i] + 1
  <2>1. 1 \in 1 .. N + 1 /\ N + 1 \in 1 .. N + 1 /\ \A i \in 1 .. N : i \in 1 .. N + 1 /\ i + 1 \in 1 .. N + 1
    BY <1>8
  <2>2. \A i \in 1 .. N + 1 : start[i] = st[i] + 1 /\ st[i] \in Nat \ {0}
    BY <1>8
  <2>3. start[1] = 2 /\ start[N + 1] = m + 2
    BY <1>6, <1>8, <2>1, <2>2
  <2>4. start \in [1 .. N + 1 -> Nat \ {0, 1}]
    BY <2>2
  <2> HIDE DEF start
  <2>5. ASSUME NEW i \in 1 .. N
        PROVE  start[i + 1] = start[i] + Len(params[i]) /\ start[i] = st[i] + 1
    <3>1. start[i] = st[i] + 1 /\ start[i + 1] = st[i + 1] + 1 /\ st[i] \in Nat
      BY <2>1, <2>2
    <3>2. st[i + 1] = st[i] + Len(params[i]) /\ Len(params[i]) \in Nat
      BY <1>8
    <3> QED
      BY <3>1, <3>2
  <2> QED
    BY <2>3, <2>4, <2>5
<1> HIDE DEF start
<1>10. sig[1] = "(" <=> Len(sig) # 1
  <2>1. CASE n = 0
    BY <1>7, <2>1 DEF End
  <2>2. CASE n # 0
    <3>1. 1 \in 1 .. n
      BY <1>7, <2>2
    <3> QED
      BY <1>6, <1>7, <2>2, <3>1
  <2> QED
    BY <2>1, <2>2
<1>11. Len(sig) <= start[N + 1] + 2 /\ (start[N + 1] < Len(sig) => sig[start[N + 1]] = ")")
  <2>1. Len(sig) <= start[N + 1] + 2
    BY <1>6, <1>7, <1>9
  <2>2. ASSUME start[N + 1] < Len(sig)
        PROVE  sig[start[N + 1]] = ")"
    <3>1. m + 2 \in 1 .. n
      BY <1>6, <1>7, <1>9, <2>2
    <3> QED
      BY <1>6, <1>7, <1>9, <3>1
  <2> QED
    BY <2>1, <2>2
<1>12. ASSUME NEW i \in 1 .. N, NEW k \in 1 .. Len(params[i]), start[i] + k - 1 < Len(sig)
       PROVE  sig[start[i] + k - 1] = params[i][k]
  <2>1. /\ st[i] \in Nat \ {0} /\ st[i] + Len(params[i]) <= m + 1 /\ Len(params[i]) \in Nat
        /\ start[i] = st[i] + 1 /\ flat[st[i] + k - 1] = params[i][k]
    <3>1. i \in 1 .. N + 1
      BY <1>8
    <3> QED
      BY <1>8, <1>9, <3>1
  <2> DEFINE x == st[i]
             y == Len(params[i])
  <2>2. PICK q \in 1 .. m : q = x + k - 1
    <3>1. x \in Nat \ {0} /\ y \in Nat /\ m \in Nat /\ x + y <= m + 1 /\ k \in 1 .. y
      BY <1>6, <2>1
    <3> HIDE DEF x, y
    <3> QED
      BY <3>1
  <2>3. start[i] + k - 1 = q + 1 /\ q + 1 \in 1 .. n
    <3>1. start[i] = x + 1 /\ x \in Nat \ {0} /\ start[i] + k - 1 < n + 1 /\ k \in Int
      BY <1>7, <1>12, <2>1
    <3> HIDE DEF x
    <3>2. start[i] + k - 1 = q + 1
      BY <2>2, <3>1
    <3> QED
      BY <1>7, <3>1, <3>2
  <2> QED
    BY <1>6, <1>7, <2>1, <2>2, <2>3
<1>13. Boundaries(start)
  <2>1. Len(sig) # 0 /\ sig[Len(sig)] = End
    BY <1>7
  <2> QED
    BY <1>7, <1>9, <1>10, <1>11, <1>12, <2>1 DEF Boundaries, N
<1>14. Progress(start)
  <2>1. place = 2 /\ pulled = <<>> /\ encoded = <<>> /\ phase = IF sig[1] = "(" THEN "extract" ELSE "done"
    BY DEF SigInit
  <2>2. Len(pulled) = 0 /\ Len(encoded) = 0 /\ pulled \in Seq([char : SigChars, as : Readings])
        /\ encoded \in Seq([char : SigChars, item : SigChars])
    BY <2>1
  <2>3. Len(pulled) <= Len(params)
    BY <1>8, <2>2 DEF N
  <2>4. phase = "extract" => place = start[Len(pulled) + 1] /\ place <= Len(sig)
    <3>1. Len(pulled) + 1 = 1
      BY <2>2
    <3>2. phase = "extract" => Len(sig) # 1
      BY <1>10, <2>1
    <3> QED
      BY <1>7, <1>9, <2>1, <3>1, <3>2
  <2>5. 1 .. Len(pulled) = {} /\ 1 .. Len(encoded) = {}
    BY <2>2
  <2> QED
    BY <2>1, <2>2, <2>3, <2>4, <2>5 DEF Progress
<1> QED
  BY <1>1, <1>13, <1>14 DEF SigInv

LEMMA SigInvNext ==
  ASSUME SigInv, [SigNext]_sigVars
  PROVE  SigInv'
<1>1. PICK start : Boundaries(start) /\ Progress(start)
  BY DEF SigInv
<1>2. params \in Seq(Types)
  BY DEF SigInv
<1> SUFFICES Boundaries(start)' /\ Progress(start)' /\ params' \in Seq(Types)
  BY DEF SigInv
<1>3. params' = params /\ sig' = sig
  BY DEF SigNext, Extract, EndExtract, Encode, EndEncode, sigVars
<1>4. Boundaries(start)'
  BY <1>1, <1>3 DEF Boundaries
<1> DEFINE PulledRight(i) == /\ start[i] < Len(sig)
                             /\ pulled[i].char = params[i][1] /\ pulled[i].as = ReadAs(params[i][1])
           EncodedRight(i) == encoded[i].char = params[i][1] /\ encoded[i].item \in {ItemOf(params[i]), End}
<1>5. /\ phase \in {"extract", "encode", "done"}
      /\ pulled \in Seq([char : SigChars, as : Readings]) /\ Len(pulled) <= Len(params)
      /\ \A i \in 1 .. Len(pulled) : PulledRight(i)
      /\ encoded \in Seq([char : SigChars, item : SigChars]) /\ Len(encoded) <= Len(pulled)
      /\ \A i \in 1 .. Len(encoded) : EncodedRight(i)
  BY <1>1 DEF Progress
<1>6. Len(pulled) \in Nat /\ Len(encoded) \in Nat /\ Len(params) \in Nat /\ Len(sig) \in Nat
  BY <1>1, <1>2, <1>5 DEF Boundaries
<1>7. start[1] = 2 /\ \A i \in 1 .. Len(params) + 1 : start[i] \in Nat
  BY <1>1 DEF Boundaries
<1>8. CASE Extract
  <2> DEFINE i == Len(pulled) + 1
             x == [char |-> Char, as |-> ReadAs(Char)]
  <2>1. /\ phase = "extract" /\ Char \notin {")", End} /\ pulled' = Append(pulled, x)
        /\ encoded' = encoded
    BY <1>8 DEF Extract
  <2>2. place = start[i] /\ place <= Len(sig) /\ encoded = <<>>
    BY <1>1, <2>1 DEF Progress
  <2>3. start[i] < Len(sig)
    <3>1. place # Len(sig)
      BY <1>1, <2>1 DEF Boundaries, Char
    <3>2. i \in 1 .. Len(params) + 1
      BY <1>5, <1>6
    <3> QED
      BY <1>6, <1>7, <2>2, <3>1, <3>2
  <2>4. i \in 1 .. Len(params)
    <3>1. i # Len(params) + 1
      <4> SUFFICES ASSUME i = Len(params) + 1 PROVE FALSE
        OBVIOUS
      <4>1. sig[start[i]] = ")"
        BY <1>1, <2>3 DEF Boundaries
      <4> QED
        BY <2>1, <2>2, <4>1 DEF Char
    <3> QED
      BY <1>5, <1>6, <3>1
  <2>5. Char = params[i][1] /\ ~Malformed(place) => start[i + 1] <= Len(sig) /\ Advance(place) = start[i + 1]
    BY <1>1, <1>2, <2>2, <2>3, <2>4, ParsersMeet DEF Char
  <2>6. Char = params[i][1]
    BY <1>1, <1>2, <2>2, <2>3, <2>4, ParsersMeet DEF Char
  <2>7. x \in [char : SigChars, as : Readings]
    <3>1. Char \in SigChars
      <4>1. place \in 1 .. Len(sig)
        <5>1. start[i] \in Nat \ {0, 1}
          <6>1. i \in 1 .. Len(params) + 1
            BY <1>6, <2>4
          <6> QED
            BY <1>1, <6>1 DEF Boundaries
        <5> QED
          BY <1>6, <2>2, <5>1
      <4>2. sig \in Seq(SigChars)
        BY <1>1 DEF Boundaries
      <4> QED
        BY <4>1, <4>2 DEF Char
    <3>2. ReadAs(Char) \in Readings
      BY DEF ReadAs, Readings
    <3> QED
      BY <3>1, <3>2
  <2> HIDE DEF x
  <2>8. /\ pulled' \in Seq([char : SigChars, as : Readings]) /\ Len(pulled') = Len(pulled) + 1
        /\ \A j \in 1 .. Len(pulled) : pulled'[j] = pulled[j]
        /\ pulled'[i] = x
    BY <1>5, <2>1, <2>7
  <2>9. \A j \in 1 .. Len(pulled') : PulledRight(j)'
    <3> TAKE j \in 1 .. Len(pulled')
    <3>1. j \in 1 .. Len(pulled) \/ j = i
      BY <1>6, <2>8
    <3>2. CASE j \in 1 .. Len(pulled)
      BY <1>3, <1>5, <2>8, <3>2
    <3>3. CASE j = i
      BY <1>3, <2>3, <2>6, <2>8, <3>3 DEF x
    <3> QED
      BY <3>1, <3>2, <3>3
  <2>10. Len(pulled') <= Len(params') /\ Len(encoded') <= Len(pulled')
    BY <1>3, <1>5, <1>6, <2>1, <2>4, <2>8
  <2>11. CASE Malformed(place)
    <3>1. place' = 2 /\ phase' = "encode"
      BY <1>8, <2>11 DEF Extract
    <3>2. Len(encoded') + 1 = 1
      BY <2>1, <2>2
    <3>3. place' = start[Len(encoded') + 1]
      BY <1>7, <3>1, <3>2
    <3> HIDE DEF i
    <3> QED
      BY <1>2, <1>3, <1>4, <1>5, <2>1, <2>2, <2>8, <2>9, <2>10, <3>1, <3>3 DEF Progress
  <2>12. CASE ~Malformed(place)
    <3>1. place' = Advance(place) /\ phase' = phase
      BY <1>8, <2>12 DEF Extract
    <3>2. place' = start[i + 1] /\ place' <= Len(sig')
      BY <1>3, <2>5, <2>6, <2>12, <3>1
    <3>3. Len(pulled') + 1 = i + 1
      BY <2>8
    <3> HIDE DEF i
    <3> QED
      BY <1>2, <1>3, <1>4, <1>5, <2>1, <2>2, <2>8, <2>9, <2>10, <3>1, <3>2, <3>3 DEF Progress
  <2> QED
    BY <2>11, <2>12
<1>9. CASE EndExtract
  <2>1. phase = "extract" /\ place' = 2 /\ phase' = "encode" /\ pulled' = pulled /\ encoded' = encoded
    BY <1>9 DEF EndExtract
  <2>2. encoded = <<>>
    BY <1>1, <2>1 DEF Progress
  <2>3. Len(encoded) + 1 = 1
    BY <2>2
  <2>4. place' = start[Len(encoded') + 1]
    BY <1>7, <2>1, <2>3
  <2> QED
    BY <1>2, <1>3, <1>4, <1>5, <2>1, <2>4 DEF Progress
<1>10. CASE Encode
  <2> DEFINE i == Len(encoded) + 1
             x == [char |-> Char, item |-> sig[ItemAt(place)]]
  <2>1. /\ phase = "encode" /\ MoreToEncode /\ encoded' = Append(encoded, x)
        /\ place' = Skip(place) /\ pulled' = pulled /\ phase' = phase
    BY <1>10 DEF Encode
  <2>2. place = start[i] /\ i \in 1 .. Len(pulled)
    BY <1>1, <1>6, <2>1 DEF Progress, MoreToEncode
  <2>3. i \in 1 .. Len(params) /\ start[i] < Len(sig)
    BY <1>5, <1>6, <2>2
  <2>4. /\ Char = params[i][1] /\ sig[ItemAt(place)] \in {ItemOf(params[i]), End}
        /\ start[i + 1] <= Len(sig) => Skip(place) = start[i + 1]
    BY <1>1, <1>2, <2>2, <2>3, ParsersMeet DEF Char
  <2>5. x \in [char : SigChars, item : SigChars]
    <3>1. params[i] \in Types
      BY <1>2, <2>3
    <3>2. params[i] \in Seq(SigChars) /\ ItemOf(params[i]) \in SigChars /\ params[i][1] \in SigChars
      <4>1. params[i] \in Seq(SigChars)
        BY <3>1, ItemOfDescriptor
      <4>2. PICK d \in 1 .. Len(params[i]) : ItemOf(params[i]) = params[i][d]
        BY <3>1, ItemOfDescriptor
      <4>3. 1 \in 1 .. Len(params[i])
        BY <4>1, <4>2
      <4> QED
        BY <4>1, <4>2, <4>3
    <3>3. End \in SigChars
      BY DEF SigChars
    <3>4. Char \in SigChars /\ sig[ItemAt(place)] \in SigChars
      BY <2>4, <3>2, <3>3
    <3> QED
      BY <3>4
  <2> HIDE DEF x
  <2>6. /\ encoded' \in Seq([char : SigChars, item : SigChars]) /\ Len(encoded') = Len(encoded) + 1
        /\ \A j \in 1 .. Len(encoded) : encoded'[j] = encoded[j]
        /\ encoded'[i] = x
    BY <1>5, <2>1, <2>5
  <2>7. \A j \in 1 .. Len(encoded') : EncodedRight(j)'
    <3> TAKE j \in 1 .. Len(encoded')
    <3>1. j \in 1 .. Len(encoded) \/ j = i
      BY <1>6, <2>6
    <3>2. CASE j \in 1 .. Len(encoded)
      BY <1>3, <1>5, <2>6, <3>2 DEF ItemOf
    <3>3. CASE j = i
      BY <1>3, <2>4, <2>6, <3>3 DEF x, ItemOf
    <3> QED
      BY <3>1, <3>2, <3>3
  <2>8. ASSUME MoreToEncode'
        PROVE  place' = start[Len(encoded') + 1]
    <3>1. Len(encoded') < Len(pulled)
      BY <2>1, <2>8 DEF MoreToEncode
    <3>2. i + 1 \in 1 .. Len(pulled)
      BY <1>6, <2>6, <3>1
    <3>3. start[i + 1] < Len(sig)
      BY <1>5, <3>2
    <3>4. start[i + 1] \in Nat
      <4>1. i + 1 \in 1 .. Len(params) + 1
        BY <1>5, <1>6, <3>2
      <4> QED
        BY <1>7, <4>1
    <3>5. Skip(place) = start[i + 1]
      BY <1>6, <2>4, <3>3, <3>4
    <3> QED
      BY <2>1, <2>6, <3>5
  <2>9. Len(encoded') <= Len(pulled') /\ Len(pulled') <= Len(params')
    BY <1>3, <1>5, <1>6, <2>1, <2>2, <2>6
  <2> HIDE DEF i
  <2> QED
    BY <1>2, <1>3, <1>4, <1>5, <2>1, <2>6, <2>7, <2>8, <2>9 DEF Progress
<1>11. CASE EndEncode
  <2>1. /\ phase = "encode" /\ phase' = "done" /\ pulled' = pulled /\ encoded' = encoded /\ place' = place
        /\ MoreToEncode => Char \in {")", End}
    BY <1>11 DEF EndEncode
  <2>2. ~MoreToEncode
    <3> SUFFICES ASSUME MoreToEncode PROVE FALSE
      OBVIOUS
    <3> DEFINE i == Len(encoded) + 1
    <3>1. place = start[i] /\ i \in 1 .. Len(pulled)
      BY <1>1, <1>6, <2>1 DEF Progress, MoreToEncode
    <3>2. i \in 1 .. Len(params) /\ start[i] < Len(sig)
      BY <1>5, <1>6, <3>1
    <3>3. Char \notin {")", End}
      BY <1>1, <1>2, <3>1, <3>2, ParsersMeet DEF Char
    <3> QED
      BY <2>1, <3>3
  <2>3. Len(encoded) = Len(pulled)
    BY <1>5, <1>6, <2>2 DEF MoreToEncode
  <2> QED
    BY <1>2, <1>3, <1>4, <1>5, <2>1, <2>3 DEF Progress
<1>12. CASE UNCHANGED sigVars
  <2>1. UNCHANGED <<params, sig, place, pulled, encoded, phase>>
    BY <1>12 DEF sigVars
  <2> QED
    BY <1>1, <1>2, <1>4, <2>1 DEF Progress, MoreToEncode
<1> QED
  BY <1>8, <1>9, <1>10, <1>11, <1>12 DEF SigNext

\* SigSpec keeps SigInv.
THEOREM SignatureInvariant == SigSpec => []SigInv
<1>1. SigInit => SigInv
  BY SigInvInit
<1>2. SigInv /\ [SigNext]_sigVars => SigInv'
  BY SigInvNext
<1> QED
  BY <1>1, <1>2, PTL DEF SigSpec

\* Wherever the cache cut a signature, and whatever its types: each value is read as
\* what was passed in its place, its record has its sign and its elements' sign, and
\* the two parsers agree on how many there are.
THEOREM ParsersStayTogether == SigSpec => []ParsersAgree
<1>1. SigInv => ParsersAgree
  <2> SUFFICES ASSUME SigInv PROVE ParsersAgree
    OBVIOUS
  <2>1. PICK start : Boundaries(start) /\ Progress(start)
    BY DEF SigInv
  <2>2. /\ pulled \in Seq([char : SigChars, as : Readings]) /\ Len(pulled) <= Len(params)
        /\ encoded \in Seq([char : SigChars, item : SigChars]) /\ Len(encoded) <= Len(pulled)
    BY <2>1 DEF Progress
  <2>3. DOMAIN pulled = 1 .. Len(pulled) /\ DOMAIN encoded = 1 .. Len(encoded)
        /\ Len(pulled) \in Nat /\ Len(encoded) \in Nat
    BY <2>2
  <2>4. \A i \in DOMAIN pulled : pulled[i].as = ReadAs(params[i][1]) /\ pulled[i].char = params[i][1]
    BY <2>1, <2>3 DEF Progress
  <2>5. \A i \in DOMAIN encoded : encoded[i].char = pulled[i].char /\ encoded[i].item \in {ItemOf(params[i]), End}
    <3> TAKE i \in DOMAIN encoded
    <3>1. i \in DOMAIN pulled
      BY <2>2, <2>3
    <3>2. encoded[i].char = params[i][1] /\ encoded[i].item \in {ItemOf(params[i]), End}
      BY <2>1, <2>3 DEF Progress
    <3> QED
      BY <2>4, <3>1, <3>2
  <2>6. phase = "encode" /\ MoreToEncode => place <= Len(sig)
    <3> SUFFICES ASSUME phase = "encode", MoreToEncode PROVE place <= Len(sig)
      OBVIOUS
    <3>1. Len(encoded) + 1 \in 1 .. Len(pulled)
      BY <2>2, <2>3 DEF MoreToEncode
    <3>2. place = start[Len(encoded) + 1] /\ start[Len(encoded) + 1] < Len(sig)
      BY <2>1, <3>1 DEF Progress
    <3>3. start[Len(encoded) + 1] \in Nat /\ Len(sig) \in Nat
      <4>1. Len(params) \in Nat
        BY DEF SigInv
      <4>2. Len(encoded) + 1 \in 1 .. Len(params) + 1
        BY <2>2, <2>3, <3>1, <4>1
      <4> QED
        BY <2>1, <4>2 DEF Boundaries
    <3> QED
      BY <3>2, <3>3
  <2>7. phase = "done" /\ sig[1] = "(" => Len(encoded) = Len(pulled)
    BY <2>1 DEF Progress
  <2> QED
    BY <2>2, <2>4, <2>5, <2>6, <2>7 DEF ParsersAgree
<1> QED
  BY <1>1, SignatureInvariant, PTL
=============================================================================
