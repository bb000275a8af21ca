------------------------------ MODULE MCJlLock ------------------------------
(***************************************************************************)
(* The two locks of freestanding/jl_lock.h, checked in one run: `part` is   *)
(* the one that moves in a behavior, the other stands in its initial state. *)
(***************************************************************************)
EXTENDS JlMutex, JlOnce

VARIABLE part

lockVars == <<vars, onceVars, part>>

MCInit == part \in {"mutex", "once"} /\ Init /\ OnceInit

MCNext ==
  /\ UNCHANGED part
  /\ \/ part = "mutex" /\ Next /\ UNCHANGED onceVars
     \/ part = "once" /\ OnceNext /\ UNCHANGED vars

\* The fairness of both: what does not move has no step of its own to take.
MCSpec ==
  /\ MCInit /\ [][MCNext]_lockVars
  /\ Fairness
  /\ \A t \in Callers : WF_onceVars(OnceRunning(t))
=============================================================================
