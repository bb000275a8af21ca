------------------------------- MODULE JlMutex -------------------------------
(***************************************************************************)
(* The three-state futex mutex of freestanding/jl_lock.h, which stands in   *)
(* for pthread_mutex_t and (read and write alike) pthread_rwlock_t in the   *)
(* whole bridge.  One step is one atomic operation on m->v or one futex     *)
(* system call, so threads interleave inside lock and unlock.               *)
(***************************************************************************)
EXTENDS Naturals

CONSTANT Threads

VARIABLES
  v,   \* m->v: 0 free, 1 locked, 2 locked and perhaps waited for
  pc   \* thread -> where it stands in jl_mutex_lock or jl_mutex_unlock

vars == <<v, pc>>

Places == {
  "out",      \* outside
  "mark",     \* about to exchange m->v with 2
  "wait",     \* about to call futex_wait(&m->v, 2)
  "asleep",   \* parked by the kernel
  "held",     \* between lock and unlock
  "store",    \* in unlock, the count went 2 to 1: about to store 0
  "wake"}     \* in unlock, about to call futex_wake(&m->v, 1)

TypeOK == v \in 0 .. 2 /\ pc \in [Threads -> Places]

Init == v = 0 /\ pc = [t \in Threads |-> "out"]

Goto(t, place) == pc' = [pc EXCEPT ![t] = place]

\* The compare-and-swap from 0 to 1; a failure that read 2 skips the exchange.
TryLock(t) ==
  /\ pc[t] = "out"
  /\ \/ v = 0 /\ v' = 1 /\ Goto(t, "held")
     \/ v = 1 /\ Goto(t, "mark") /\ UNCHANGED v
     \/ v = 2 /\ Goto(t, "wait") /\ UNCHANGED v

\* Wrong variant: a waiter that gets the lock writes 1, as an uncontended lock
\* does, and so forgets the others that wait.
MarkForgettingOthers(t) ==
  /\ pc[t] = "mark"
  /\ v' = (IF v = 0 THEN 1 ELSE 2)
  /\ Goto(t, IF v = 0 THEN "held" ELSE "wait")

\* The exchange with 2: the thread has the lock if it was free.
Mark(t) ==
  /\ pc[t] = "mark"
  /\ v' = 2
  /\ Goto(t, IF v = 0 THEN "held" ELSE "wait")

\* futex_wait parks the thread only if the word still is 2.
FutexWait(t) ==
  /\ pc[t] = "wait"
  /\ Goto(t, IF v = 2 THEN "asleep" ELSE "mark")
  /\ UNCHANGED v

\* Wrong variant: a waiter that wakes up takes the lock for granted.
FutexReturnHolding(t) ==
  /\ pc[t] = "asleep"
  /\ Goto(t, "held")
  /\ UNCHANGED v

\* futex_wait may return without a wake (a signal).
FutexReturn(t) ==
  /\ pc[t] = "asleep"
  /\ Goto(t, "mark")
  /\ UNCHANGED v

\* unlock's fetch_sub: done unless somebody may be waiting.
FetchSub(t) ==
  /\ pc[t] = "held"
  /\ v' = v - 1
  /\ Goto(t, IF v = 1 THEN "out" ELSE "store")

StoreZero(t) ==
  /\ pc[t] = "store"
  /\ v' = 0
  /\ Goto(t, "wake")

\* futex_wake for one waiter, any of those asleep.
FutexWake(t) ==
  /\ pc[t] = "wake"
  /\ \/ \E u \in Threads : pc[u] = "asleep" /\ pc' = [pc EXCEPT ![t] = "out", ![u] = "mark"]
     \/ (\A u \in Threads : pc[u] # "asleep") /\ Goto(t, "out")
  /\ UNCHANGED v

\* The steps of a thread that is inside lock or unlock and can run.
Running(t) == Mark(t) \/ FutexWait(t) \/ StoreZero(t) \/ FutexWake(t)

Next == \E t \in Threads : TryLock(t) \/ FetchSub(t) \/ Running(t) \/ FutexReturn(t)

Spec == Init /\ [][Next]_vars

\* A thread that can run does, and a critical section ends (those of the
\* bridge neither block nor lock again).  No signal is promised, and none is
\* needed.
Fairness == \A t \in Threads : WF_vars(Running(t)) /\ WF_vars(FetchSub(t))

FairSpec == Spec /\ Fairness
-----------------------------------------------------------------------------
(* Properties.                                                             *)

\* A thread owns the lock until unlock has written 0.
Owners == {t \in Threads : pc[t] \in {"held", "store"}}

\* Two threads are never both between lock and unlock.
MutualExclusion == \A t, u \in Owners : t = u

\* No lost wake-up: while a thread sleeps, the word says that there are
\* waiters, or some thread is about to say so or to wake one up.  The risky
\* moments are the two stores of unlock (2 to 1 to 0) and a thread that takes
\* the free lock ahead of those asleep.
NoLostWakeup ==
  (\E t \in Threads : pc[t] = "asleep")
    => v = 2 \/ \E u \in Threads : pc[u] \in {"mark", "store", "wake"}

Lock == INSTANCE MutexSpec WITH holders <- Owners

\* The futex mutex implements a mutex.
ImplementsMutex == Lock!Spec

\* When a thread waits for the lock, some thread gets it: waiting threads
\* cannot all sleep for ever beside a free lock.
WaitingEndsInLock ==
  (\E t \in Threads : pc[t] \in {"mark", "wait", "asleep"}) ~> (Owners # {})
=============================================================================
