------------------------------ MODULE MutexSpec ------------------------------
(***************************************************************************)
(* What pthread_mutex_lock and pthread_mutex_unlock promise the bridge: one *)
(* thread at a time between them.                                          *)
(***************************************************************************)
CONSTANT Threads

VARIABLE holders

Init == holders = {}

Acquire(t) == holders = {} /\ holders' = {t}

Release(t) == holders = {t} /\ holders' = {}

Next == \E t \in Threads : Acquire(t) \/ Release(t)

Spec == Init /\ [][Next]_holders
=============================================================================
