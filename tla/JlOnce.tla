------------------------------- MODULE JlOnce -------------------------------
(***************************************************************************)
(* jl_once of freestanding/jl_lock.h, which stands in for pthread_once: the *)
(* bridge resolves its interposed symbols with it.  One step is one atomic *)
(* operation on o->state, one futex system call or one call of the          *)
(* init routine.                                                           *)
(***************************************************************************)
EXTENDS Naturals

CONSTANT Callers  \* threads that call jl_once, any number of times

VARIABLES
  state,  \* o->state: 0 fresh, 1 running, 2 done
  at,     \* thread -> where it stands in jl_once
  inits   \* calls of init_routine that have ended

onceVars == <<state, at, inits>>

OncePlaces == {
  "out",      \* outside, before a call
  "swap",     \* the first load was not 2: about to compare-and-swap
  "init",     \* in init_routine
  "publish",  \* about to store 2
  "wake",     \* about to wake all waiters
  "check",    \* in the waiting loop, about to load the state
  "wait",     \* about to call futex_wait(&o->state, 1)
  "asleep",   \* parked by the kernel
  "passed"}   \* the call has returned: the caller uses what init set up

OnceTypeOK ==
  /\ state \in 0 .. 2
  /\ at \in [Callers -> OncePlaces]
  /\ inits \in Nat

OnceInit ==
  /\ state = 0
  /\ at = [t \in Callers |-> "out"]
  /\ inits = 0

OnceGoto(t, place) == at' = [at EXCEPT ![t] = place]

\* Wrong variant: any state but 0 counts as done.
EnterUnlessFresh(t) ==
  /\ at[t] = "out"
  /\ OnceGoto(t, IF state # 0 THEN "passed" ELSE "swap")
  /\ UNCHANGED <<state, inits>>

\* The first load.
Enter(t) ==
  /\ at[t] = "out"
  /\ OnceGoto(t, IF state = 2 THEN "passed" ELSE "swap")
  /\ UNCHANGED <<state, inits>>

\* Wrong variant: the state is read and written in two steps, the second of which
\* does not look again.
SwapBlindly(t) ==
  /\ at[t] = "swap"
  /\ state' = 1
  /\ OnceGoto(t, "init")
  /\ UNCHANGED inits

\* The compare-and-swap from 0 to 1.
Swap(t) ==
  /\ at[t] = "swap"
  /\ \/ state = 0 /\ state' = 1 /\ OnceGoto(t, "init")
     \/ state # 0 /\ OnceGoto(t, "check") /\ UNCHANGED state
  /\ UNCHANGED inits

RunInit(t) ==
  /\ at[t] = "init"
  /\ inits' = inits + 1
  /\ OnceGoto(t, "publish")
  /\ UNCHANGED state

Publish(t) ==
  /\ at[t] = "publish"
  /\ state' = 2
  /\ OnceGoto(t, "wake")
  /\ UNCHANGED inits

\* Wrong variant: one waiter is woken up.
WakeOne(t) ==
  /\ at[t] = "wake"
  /\ \/ \E u \in Callers :
          at[u] = "asleep" /\ at' = [at EXCEPT ![t] = "passed", ![u] = "check"]
     \/ (\A u \in Callers : at[u] # "asleep") /\ OnceGoto(t, "passed")
  /\ UNCHANGED <<state, inits>>

\* futex_wake for all, and the return.
WakeAll(t) ==
  /\ at[t] = "wake"
  /\ at' = [u \in Callers |-> CASE u = t -> "passed"
                                [] at[u] = "asleep" -> "check"
                                [] OTHER -> at[u]]
  /\ UNCHANGED <<state, inits>>

Check(t) ==
  /\ at[t] = "check"
  /\ OnceGoto(t, IF state = 2 THEN "passed" ELSE "wait")
  /\ UNCHANGED <<state, inits>>

\* futex_wait parks the thread only if the word still is 1.
OnceFutexWait(t) ==
  /\ at[t] = "wait"
  /\ OnceGoto(t, IF state = 1 THEN "asleep" ELSE "check")
  /\ UNCHANGED <<state, inits>>

\* futex_wait may return without a wake (a signal).
OnceFutexReturn(t) ==
  /\ at[t] = "asleep"
  /\ OnceGoto(t, "check")
  /\ UNCHANGED <<state, inits>>

\* The caller is through with what init set up; it may call again.
Leave(t) ==
  /\ at[t] = "passed"
  /\ OnceGoto(t, "out")
  /\ UNCHANGED <<state, inits>>

\* The steps of a thread that is inside jl_once and can run.
OnceRunning(t) ==
  \/ Swap(t) \/ RunInit(t) \/ Publish(t) \/ WakeAll(t) \/ Check(t) \/ OnceFutexWait(t)

OnceNext == \E t \in Callers : Enter(t) \/ OnceRunning(t) \/ OnceFutexReturn(t) \/ Leave(t)

OnceSpec == OnceInit /\ [][OnceNext]_onceVars

\* A thread that can run does; the init routine (a dlsym) returns.
OnceFairSpec == OnceSpec /\ \A t \in Callers : WF_onceVars(OnceRunning(t))
-----------------------------------------------------------------------------
(* Properties.                                                             *)

\* The init routine never runs twice, nor on two threads at once.
InitializedOnce ==
  /\ inits <= 1
  /\ \A t, u \in Callers :
       at[t] \in {"init", "publish"} /\ at[u] \in {"init", "publish"} => t = u

\* A call that has returned has init behind it: the caller may read the
\* resolved symbol, at its first call or a later one, on any thread.
PassedAfterInit == (\E t \in Callers : at[t] = "passed") => inits = 1

\* No lost wake-up: a thread sleeps only while init runs or the initializing
\* thread has its wake still to do.
SleepersAwaited ==
  (\E t \in Callers : at[t] = "asleep")
    => \E u \in Callers : at[u] \in {"init", "publish", "wake"}

\* Every call returns.
EveryCallPasses ==
  \A t \in Callers : (at[t] \notin {"out", "passed"}) ~> (at[t] = "passed")
=============================================================================
