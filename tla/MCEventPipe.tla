----------------------------- MODULE MCEventPipe -----------------------------
(***************************************************************************)
(* Instances of EventPipe for TLC: which hook families the threads call,    *)
(* and the symmetry of threads and handles (used for safety only).         *)
(***************************************************************************)
EXTENDS EventPipe

\* Every way a ref can travel: sidecar of a call, of a return and of a field
\* access, and a ref of its own on a return and on a lookup.
RefFamilies == {CallMethodHook, ReferenceHook, StaticFieldHook, LookupHook}

\* One family that nests and one that does not, no refs.
CallFamilies == {NewObjectHook, MonitorHook}

\* For liveness and refinement: two refs in one sidecar, and a ref of its own on
\* a return and on a lookup.
LiveFamilies == {ReferenceHook, StaticFieldHook, LookupHook}

AllFamilies == Hooks

Unfiltered == {TRUE}
Filter == BOOLEAN

Symmetry == Permutations(Threads) \cup Permutations(Refs)
=============================================================================
