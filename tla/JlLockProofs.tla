----------------------------- MODULE JlLockProofs -----------------------------
(***************************************************************************)
(* Proofs about the two locks of freestanding/jl_lock.h, for any set of      *)
(* threads: the futex mutex first, jl_once after it.                         *)
(***************************************************************************)
EXTENDS JlMutex, JlOnce, TLAPS

\* The word is 0 exactly when nobody owns the lock: what the compare-and-swap
\* and the exchange rely on.
WordTellsOwner == v = 0 <=> Owners = {}

IInv == TypeOK /\ MutualExclusion /\ WordTellsOwner

-----------------------------------------------------------------------------
\* The invariant holds initially: nobody is inside, the word is 0.
LEMMA InitInv == Init => IInv
  BY DEF Init, IInv, TypeOK, MutualExclusion, WordTellsOwner, Owners, Places

\* Taking a free lock: only from 0, so there was no owner (jl_lock.h 46-48, 52-56).
LEMMA AcquireInv ==
  ASSUME IInv, NEW t \in Threads, v = 0, v' \in {1, 2},
         pc' = [pc EXCEPT ![t] = "held"]
  PROVE  IInv'
<1>1. TypeOK'
  BY DEF IInv, TypeOK, Places
<1>2. Owners = {}
  BY DEF IInv, WordTellsOwner
<1>3. Owners' = {t}
  BY <1>2 DEF Owners, IInv, TypeOK
<1>4. QED
  BY <1>1, <1>3, v' # 0 DEF IInv, MutualExclusion, WordTellsOwner

\* A step that leaves the owners alone and keeps a non-zero word non-zero.
LEMMA SameOwnersInv ==
  ASSUME IInv, TypeOK', Owners' = Owners, v' = 0 <=> v = 0
  PROVE  IInv'
  BY DEF IInv, MutualExclusion, WordTellsOwner

\* Giving the lock up: the only owner leaves and the word becomes 0.
LEMMA ReleaseInv ==
  ASSUME IInv, NEW t \in Owners, NEW place \in Places \ {"held", "store"},
         v' = 0, pc' = [pc EXCEPT ![t] = place]
  PROVE  IInv' /\ Owners = {t} /\ Owners' = {}
<1>1. t \in Threads
  BY DEF Owners
<1>2. TypeOK'
  BY <1>1 DEF IInv, TypeOK
<1>3. Owners = {t}
  BY DEF IInv, MutualExclusion
<1>4. Owners' = {}
  BY <1>1, <1>3 DEF Owners, IInv, TypeOK
<1>5. QED
  BY <1>2, <1>3, <1>4 DEF IInv, MutualExclusion, WordTellsOwner

\* Every step keeps the invariant, and moves the set of owners as a mutex may.
LEMMA NextInv ==
  ASSUME IInv, [Next]_vars
  PROVE  IInv' /\ [Lock!Next]_Owners
<1> USE DEF Goto
<1>1. ASSUME NEW t \in Threads, TryLock(t)
      PROVE  IInv' /\ [Lock!Next]_Owners
  <2>1. CASE v = 0
    <3>1. v' = 1 /\ pc' = [pc EXCEPT ![t] = "held"]
      BY <1>1, <2>1 DEF TryLock
    <3>2. IInv'
      BY <2>1, <3>1, AcquireInv
    <3>3. Owners = {} /\ Owners' = {t}
      BY <2>1, <3>1 DEF IInv, WordTellsOwner, Owners, TypeOK
    <3>4. QED
      BY <3>2, <3>3 DEF Lock!Next, Lock!Acquire
  <2>2. CASE v # 0
    <3>1. v' = v /\ TypeOK' /\ Owners' = Owners
      BY <1>1, <2>2 DEF TryLock, IInv, TypeOK, Places, Owners
    <3>2. QED
      BY <3>1, SameOwnersInv
  <2>3. QED
    BY <2>1, <2>2
<1>2. ASSUME NEW t \in Threads, FetchSub(t)
      PROVE  IInv' /\ [Lock!Next]_Owners
  <2>1. t \in Owners
    BY <1>2 DEF FetchSub, Owners
  <2>2. v \in {1, 2}
    BY <2>1 DEF IInv, TypeOK, WordTellsOwner
  <2>3. CASE v = 1
    <3>1. v' = 0 /\ pc' = [pc EXCEPT ![t] = "out"]
      BY <1>2, <2>3 DEF FetchSub
    <3>2. QED
      BY <2>1, <3>1, ReleaseInv DEF Places, Lock!Next, Lock!Release
  <2>4. CASE v = 2
    <3>1. v' = 1 /\ TypeOK' /\ Owners' = Owners
      BY <1>2, <2>4 DEF FetchSub, IInv, TypeOK, Places, Owners
    <3>2. QED
      BY <2>4, <3>1, SameOwnersInv
  <2>5. QED
    BY <2>2, <2>3, <2>4
<1>3. ASSUME NEW t \in Threads, Mark(t)
      PROVE  IInv' /\ [Lock!Next]_Owners
  <2>1. CASE v = 0
    <3>1. v' = 2 /\ pc' = [pc EXCEPT ![t] = "held"]
      BY <1>3, <2>1 DEF Mark
    <3>2. IInv'
      BY <2>1, <3>1, AcquireInv
    <3>3. Owners = {} /\ Owners' = {t}
      BY <2>1, <3>1 DEF IInv, WordTellsOwner, Owners, TypeOK
    <3>4. QED
      BY <3>2, <3>3 DEF Lock!Next, Lock!Acquire
  <2>2. CASE v # 0
    <3>1. v' = 2 /\ TypeOK' /\ Owners' = Owners
      BY <1>3, <2>2 DEF Mark, IInv, TypeOK, Places, Owners
    <3>2. QED
      BY <2>2, <3>1, SameOwnersInv
  <2>3. QED
    BY <2>1, <2>2
<1>4. ASSUME NEW t \in Threads, StoreZero(t)
      PROVE  IInv' /\ [Lock!Next]_Owners
  <2>1. t \in Owners
    BY <1>4 DEF StoreZero, Owners
  <2>2. v' = 0 /\ pc' = [pc EXCEPT ![t] = "wake"]
    BY <1>4 DEF StoreZero
  <2>3. QED
    BY <2>1, <2>2, ReleaseInv DEF Places, Lock!Next, Lock!Release
<1>5. ASSUME NEW t \in Threads, FutexWait(t) \/ FutexReturn(t)
      PROVE  IInv' /\ [Lock!Next]_Owners
  <2>1. v' = v /\ TypeOK' /\ Owners' = Owners
    BY <1>5 DEF FutexWait, FutexReturn, IInv, TypeOK, Places, Owners
  <2>2. QED
    BY <2>1, SameOwnersInv
<1>6. ASSUME NEW t \in Threads, FutexWake(t)
      PROVE  IInv' /\ [Lock!Next]_Owners
  <2>1. v' = v /\ TypeOK' /\ Owners' = Owners
    BY <1>6 DEF FutexWake, IInv, TypeOK, Places, Owners
  <2>2. QED
    BY <2>1, SameOwnersInv
<1>7. ASSUME UNCHANGED vars
      PROVE  IInv' /\ [Lock!Next]_Owners
  <2>1. v' = v /\ TypeOK' /\ Owners' = Owners
    BY <1>7 DEF vars, IInv, TypeOK, Owners
  <2>2. QED
    BY <2>1, SameOwnersInv
<1>8. QED
  BY <1>1, <1>2, <1>3, <1>4, <1>5, <1>6, <1>7 DEF Next, Running

\* The inductive invariant holds in every reachable state.
THEOREM Invariance == Spec => []IInv
<1>1. IInv /\ [Next]_vars => IInv'
  BY NextInv
<1>2. QED
  BY InitInv, <1>1, PTL DEF Spec

\* Two threads are never both between lock and unlock, whatever their number.
THEOREM Exclusion == Spec => []MutualExclusion
<1>1. IInv => MutualExclusion
  BY DEF IInv
<1>2. QED
  BY Invariance, <1>1, PTL

\* The futex mutex implements the abstract one: ownership starts at the
\* successful compare-and-swap or exchange and ends where unlock writes 0.
THEOREM Refinement == Spec => ImplementsMutex
<1>1. Init => Lock!Init
  BY DEF Init, Lock!Init, Owners
<1>2. IInv /\ [Next]_vars => [Lock!Next]_Owners
  BY NextInv
<1>3. QED
  BY Invariance, <1>1, <1>2, PTL DEF Spec, ImplementsMutex, Lock!Spec

-----------------------------------------------------------------------------
\* While a thread sleeps, the word is 2 or a store, a wake or a mark is about to
\* come: no unlock of jl_mutex_unlock forgets a sleeper.  The property is
\* inductive by itself, given the types.
THEOREM WakeupsKept == Spec => []NoLostWakeup
<1>1. Init => NoLostWakeup
  BY DEF Init, NoLostWakeup
<1>2. TypeOK /\ NoLostWakeup /\ [Next]_vars => NoLostWakeup'
  <2> SUFFICES ASSUME TypeOK, NoLostWakeup, [Next]_vars,
                      NEW s \in Threads, pc'[s] = "asleep"
               PROVE  v' = 2 \/ \E u \in Threads : pc'[u] \in {"mark", "store", "wake"}
    BY DEF NoLostWakeup
  <2> USE DEF Goto, TypeOK, NoLostWakeup
  <2>1. ASSUME NEW t \in Threads, TryLock(t)
        PROVE  v' = 2 \/ \E u \in Threads : pc'[u] \in {"mark", "store", "wake"}
    BY <2>1 DEF TryLock
  <2>2. ASSUME NEW t \in Threads, FetchSub(t)
        PROVE  v' = 2 \/ \E u \in Threads : pc'[u] \in {"mark", "store", "wake"}
    <3>1. pc[s] = "asleep"
      BY <2>2 DEF FetchSub
    <3>2. CASE v = 2
      BY <2>2, <3>2 DEF FetchSub
    <3>3. CASE v # 2
      <4>1. PICK u \in Threads : pc[u] \in {"mark", "store", "wake"}
        BY <3>1, <3>3
      <4>2. pc'[u] = pc[u]
        BY <2>2, <4>1 DEF FetchSub
      <4>3. QED
        BY <4>1, <4>2
    <3>4. QED
      BY <3>2, <3>3
  <2>3. ASSUME NEW t \in Threads, Mark(t)
        PROVE  v' = 2
    BY <2>3 DEF Mark
  <2>4. ASSUME NEW t \in Threads, FutexWait(t)
        PROVE  v' = 2 \/ \E u \in Threads : pc'[u] \in {"mark", "store", "wake"}
    BY <2>4 DEF FutexWait
  <2>5. ASSUME NEW t \in Threads, StoreZero(t)
        PROVE  pc'[t] = "wake"
    BY <2>5 DEF StoreZero
  <2>6. ASSUME NEW t \in Threads, FutexWake(t)
        PROVE  \E u \in Threads : pc'[u] = "mark"
    BY <2>6 DEF FutexWake
  <2>7. ASSUME NEW t \in Threads, FutexReturn(t)
        PROVE  pc'[t] = "mark"
    BY <2>7 DEF FutexReturn
  <2>8. CASE UNCHANGED vars
    BY <2>8 DEF vars
  <2>9. QED
    BY <2>1, <2>2, <2>3, <2>4, <2>5, <2>6, <2>7, <2>8 DEF Next, Running
<1>3. IInv => TypeOK
  BY DEF IInv
<1>4. QED
  BY Invariance, <1>1, <1>2, <1>3, PTL DEF Spec

-----------------------------------------------------------------------------
(* jl_once.                                                                *)

Initializers == {t \in Callers : at[t] \in {"init", "publish"}}

\* What the word says about the initializing thread and the init routine.
WordTellsProgress ==
  /\ \A t, u \in Initializers : t = u
  /\ state = 1 <=> Initializers # {}
  /\ state = 0 => inits = 0
  /\ state = 2 => inits = 1
  /\ \A t \in Callers : at[t] = "init" => inits = 0
  /\ \A t \in Callers : at[t] = "publish" => inits = 1
  /\ \A t \in Callers : at[t] \in {"wake", "passed"} => state = 2

OnceIInv == OnceTypeOK /\ WordTellsProgress

-----------------------------------------------------------------------------
\* The invariant holds initially: the word is 0 and nobody is inside.
LEMMA OnceInitInv == OnceInit => OnceIInv
  BY DEF OnceInit, OnceIInv, OnceTypeOK, OncePlaces, WordTellsProgress, Initializers

\* A step of a thread that is outside the initialization and stays outside,
\* and reports done only if the word is 2.
LEMMA WaiterKeeps ==
  ASSUME OnceIInv, UNCHANGED <<state, inits>>, OnceTypeOK',
         \A t \in Callers : at'[t] # at[t] =>
           /\ at[t] \notin {"init", "publish"}
           /\ at'[t] \notin {"init", "publish", "wake"}
           /\ at'[t] = "passed" => state = 2
  PROVE  OnceIInv'
<1>1. Initializers' = Initializers
  BY DEF Initializers
<1>2. QED
  BY <1>1 DEF OnceIInv, WordTellsProgress

\* Every step of jl_once keeps the invariant.
LEMMA OnceNextInv ==
  ASSUME OnceIInv, [OnceNext]_onceVars
  PROVE  OnceIInv'
<1> USE DEF OnceGoto
<1>1. ASSUME NEW t \in Callers,
             Enter(t) \/ Check(t) \/ OnceFutexWait(t) \/ OnceFutexReturn(t) \/ Leave(t)
      PROVE  OnceIInv'
  BY <1>1, WaiterKeeps
     DEF Enter, Check, OnceFutexWait, OnceFutexReturn, Leave, OnceIInv, OnceTypeOK, OncePlaces
<1>2. ASSUME NEW t \in Callers, Swap(t)
      PROVE  OnceIInv'
  <2>1. CASE state = 0
    <3>1. state' = 1 /\ inits' = inits /\ at' = [at EXCEPT ![t] = "init"]
      BY <1>2, <2>1 DEF Swap
    <3>2. OnceTypeOK'
      BY <3>1 DEF OnceIInv, OnceTypeOK, OncePlaces
    <3>3. Initializers = {}
      BY <2>1 DEF OnceIInv, WordTellsProgress
    <3>4. Initializers' = {t}
      BY <3>1, <3>3 DEF Initializers, OnceIInv, OnceTypeOK
    <3>5. \A u \in Callers : u # t => at'[u] = at[u] /\ at[u] # "publish"
      BY <3>1, <3>3 DEF Initializers, OnceIInv, OnceTypeOK
    <3>6. QED
      BY <2>1, <3>1, <3>2, <3>4, <3>5 DEF OnceIInv, OnceTypeOK, WordTellsProgress
  <2>2. CASE state # 0
    BY <1>2, <2>2, WaiterKeeps DEF Swap, OnceIInv, OnceTypeOK, OncePlaces
  <2>3. QED
    BY <2>1, <2>2
<1>3. ASSUME NEW t \in Callers, RunInit(t)
      PROVE  OnceIInv'
  <2>1. t \in Initializers /\ Initializers = {t}
    BY <1>3 DEF RunInit, Initializers, OnceIInv, WordTellsProgress
  <2>2. inits = 0 /\ inits' = 1 /\ state = 1 /\ state' = 1
    BY <1>3, <2>1 DEF RunInit, OnceIInv, WordTellsProgress
  <2>3. OnceTypeOK'
    BY <1>3, <2>2 DEF RunInit, OnceIInv, OnceTypeOK, OncePlaces
  <2>4. Initializers' = {t}
    BY <1>3, <2>1 DEF RunInit, Initializers, OnceIInv, OnceTypeOK
  <2>5. \A u \in Callers : u # t => at'[u] = at[u] /\ at[u] \notin {"init", "publish"}
    BY <1>3, <2>1 DEF RunInit, Initializers, OnceIInv, OnceTypeOK
  <2>6. QED
    BY <1>3, <2>2, <2>3, <2>4, <2>5 DEF RunInit, OnceIInv, OnceTypeOK, WordTellsProgress
<1>4. ASSUME NEW t \in Callers, Publish(t)
      PROVE  OnceIInv'
  <2>1. t \in Initializers /\ Initializers = {t}
    BY <1>4 DEF Publish, Initializers, OnceIInv, WordTellsProgress
  <2>2. inits = 1 /\ inits' = 1 /\ state' = 2
    BY <1>4 DEF Publish, OnceIInv, WordTellsProgress
  <2>3. OnceTypeOK'
    BY <1>4, <2>2 DEF Publish, OnceIInv, OnceTypeOK, OncePlaces
  <2>4. Initializers' = {}
    BY <1>4, <2>1 DEF Publish, Initializers, OnceIInv, OnceTypeOK
  <2>5. QED
    BY <2>2, <2>3, <2>4 DEF Initializers, OnceIInv, WordTellsProgress
<1>5. ASSUME NEW t \in Callers, WakeAll(t)
      PROVE  OnceIInv'
  <2>1. state = 2
    BY <1>5 DEF WakeAll, OnceIInv, WordTellsProgress
  <2>2. OnceTypeOK'
    BY <1>5 DEF WakeAll, OnceIInv, OnceTypeOK, OncePlaces
  <2>3. QED
    BY <1>5, <2>1, <2>2, WaiterKeeps DEF WakeAll, OnceIInv, OnceTypeOK
<1>6. CASE UNCHANGED onceVars
  BY <1>6 DEF onceVars, OnceIInv, OnceTypeOK, WordTellsProgress, Initializers
<1>7. QED
  BY <1>1, <1>2, <1>3, <1>4, <1>5, <1>6 DEF OnceNext, OnceRunning

\* The inductive invariant holds in every reachable state.
THEOREM OnceInvariance == OnceSpec => []OnceIInv
  BY OnceInitInv, OnceNextInv, PTL DEF OnceSpec

\* The init routine runs at most once, and on one thread.
THEOREM OnlyOnce == OnceSpec => []InitializedOnce
<1>1. OnceIInv => InitializedOnce
  BY DEF OnceIInv, OnceTypeOK, WordTellsProgress, Initializers, InitializedOnce
<1>2. QED
  BY OnceInvariance, <1>1, PTL

\* Whoever returns from jl_once finds the init routine's work done.
THEOREM Initialized == OnceSpec => []PassedAfterInit
<1>1. OnceIInv => PassedAfterInit
  BY DEF OnceIInv, WordTellsProgress, PassedAfterInit
<1>2. QED
  BY OnceInvariance, <1>1, PTL

-----------------------------------------------------------------------------
\* A thread sleeps only while the thread that will wake everybody is on its
\* way: it parks on the word 1, and that word has an initializing thread.
THEOREM WakeToCome == OnceSpec => []SleepersAwaited
<1>1. OnceInit => SleepersAwaited
  BY DEF OnceInit, SleepersAwaited
<1>2. OnceIInv /\ SleepersAwaited /\ [OnceNext]_onceVars => SleepersAwaited'
  <2> SUFFICES ASSUME OnceIInv, SleepersAwaited, [OnceNext]_onceVars,
                      NEW s \in Callers, at'[s] = "asleep"
               PROVE  \E u \in Callers : at'[u] \in {"init", "publish", "wake"}
    BY DEF SleepersAwaited
  <2> USE DEF OnceGoto, OnceIInv, OnceTypeOK
  <2>1. ASSUME NEW t \in Callers, OnceFutexWait(t)
        PROVE  \E u \in Callers : at'[u] \in {"init", "publish", "wake"}
    <3>1. CASE state = 1
      <4>1. PICK u \in Callers : at[u] \in {"init", "publish"}
        BY <3>1 DEF WordTellsProgress, Initializers
      <4>2. at'[u] = at[u]
        BY <2>1, <4>1 DEF OnceFutexWait
      <4>3. QED
        BY <4>1, <4>2
    <3>2. CASE state # 1
      BY <2>1, <3>2 DEF OnceFutexWait, SleepersAwaited
    <3>3. QED
      BY <3>1, <3>2
  <2>2. ASSUME NEW t \in Callers,
               \/ Enter(t) \/ Swap(t) \/ Check(t) \/ OnceFutexReturn(t) \/ Leave(t)
               \/ RunInit(t) \/ Publish(t)
        PROVE  \E u \in Callers : at'[u] \in {"init", "publish", "wake"}
    BY <2>2 DEF Enter, Swap, Check, OnceFutexReturn, Leave, RunInit, Publish, SleepersAwaited
  <2>3. ASSUME NEW t \in Callers, WakeAll(t)
        PROVE  FALSE
    BY <2>3 DEF WakeAll
  <2>4. CASE UNCHANGED onceVars
    BY <2>4 DEF onceVars, SleepersAwaited
  <2>5. QED
    BY <2>1, <2>2, <2>3, <2>4 DEF OnceNext, OnceRunning
<1>3. QED
  BY OnceInvariance, <1>1, <1>2, PTL DEF OnceSpec
=============================================================================
