---------------------------- MODULE PendingTable ----------------------------
(***************************************************************************)
(* The reader's table of calls that still wait for their return            *)
(* (src/src/go/event_pipe.go, pendingCalls).  Only the reader goroutine     *)
(* touches it, so each operation below is one step.                        *)
(*                                                                         *)
(* A call line is printed when its return is dispatched, or, when too many *)
(* calls are waiting, by an eviction that prints the calls whose id is     *)
(* more than Window behind the newest id as lines without a return.        *)
(***************************************************************************)
EXTENDS Naturals, FiniteSets

CONSTANTS
  Window,  \* pendingWindow: 4096 in the code
  MaxId    \* bound of the model: call ids are 1 .. MaxId

ASSUME WindowAssumption == Window \in Nat \ {0}
ASSUME MaxIdAssumption == MaxId \in Nat

CallIds == 1 .. MaxId

EvictTrigger == 2 * Window

VARIABLES
  pendingCalls,   \* ids of the stored call frames
  pendingNewest,  \* highest call id stored so far
  pendingLen,     \* the live-entry counter the code keeps beside the map
  printed,        \* call id -> times emitCallFull was called for it (a regex may hide the line)
  evicted,        \* ids printed by an eviction (pendingEvicted counts them)
  alone           \* ids of the returns printed by emitStandaloneReturn

tableVars == <<pendingCalls, pendingNewest, pendingLen, printed, evicted, alone>>

TableTypeOK ==
  /\ pendingCalls \in SUBSET CallIds
  /\ pendingNewest \in 0 .. MaxId
  /\ pendingLen \in Nat
  /\ printed \in [CallIds -> Nat]
  /\ evicted \in SUBSET CallIds
  /\ alone \in SUBSET (0 .. MaxId)

TableInit ==
  /\ pendingCalls = {}
  /\ pendingNewest = 0
  /\ pendingLen = 0
  /\ printed = [id \in CallIds |-> 0]
  /\ evicted = {}
  /\ alone = {}

-----------------------------------------------------------------------------
\* Wrong variants, used to show that the properties can fail: the cutoff is the
\* trigger instead of the window; there is no window at all.
StaleBelowTrigger(stored, newest) ==
  IF newest <= EvictTrigger THEN {} ELSE {k \in stored : k < newest - EvictTrigger}
StaleBelowNewest(stored, newest) == {k \in stored : k < newest}

\* The calls evictStalePending removes from the table `stored`.
Stale(stored, newest) ==
  IF newest <= Window THEN {} ELSE {k \in stored : k < newest - Window}

\* The calls printed by pendingStore: none until the counter passes the trigger.
Evicts(stored, newest, len) ==
  IF len > EvictTrigger THEN Stale(stored, newest) ELSE {}

NewestOf(id) == IF id > pendingNewest THEN id ELSE pendingNewest

\* Wrong variants: an eviction leaves the counter alone; a call that arrives
\* late is stored under the newest id.
DispatchCallKeepingLen(id) ==
  LET stored == pendingCalls \cup {id}
      gone   == Evicts(stored, NewestOf(id), pendingLen + 1)
  IN  /\ pendingCalls'  = stored \ gone
      /\ pendingNewest' = NewestOf(id)
      /\ pendingLen'    = pendingLen + 1
      /\ printed' = [k \in CallIds |-> IF k \in gone THEN printed[k] + 1 ELSE printed[k]]
      /\ evicted' = evicted \cup gone
      /\ UNCHANGED alone
DispatchCallUnderNewest(id) ==
  /\ pendingCalls'  = pendingCalls \cup {NewestOf(id)}
  /\ pendingNewest' = NewestOf(id)
  /\ pendingLen'    = pendingLen + 1
  /\ UNCHANGED <<printed, evicted, alone>>

\* dispatchCall: pendingStore, with the eviction it may trigger.
DispatchCall(id) ==
  LET stored == pendingCalls \cup {id}
      gone   == Evicts(stored, NewestOf(id), pendingLen + 1)
  IN  /\ pendingCalls'  = stored \ gone
      /\ pendingNewest' = NewestOf(id)
      /\ pendingLen'    = pendingLen + 1 - Cardinality(gone)
      /\ printed' = [k \in CallIds |-> IF k \in gone THEN printed[k] + 1 ELSE printed[k]]
      /\ evicted' = evicted \cup gone
      /\ UNCHANGED alone

\* Wrong variant: the call is looked up and not deleted.
ReturnPeeked(id) ==
  /\ id \in pendingCalls
  /\ printed' = [printed EXCEPT ![id] = @ + 1]
  /\ UNCHANGED <<pendingCalls, pendingLen, pendingNewest, evicted, alone>>

\* dispatchReturn and dispatchObjReturn when pendingTake finds the call.
ReturnPaired(id) ==
  /\ id \in pendingCalls
  /\ pendingCalls' = pendingCalls \ {id}
  /\ pendingLen'   = pendingLen - 1
  /\ printed' = [printed EXCEPT ![id] = @ + 1]
  /\ UNCHANGED <<pendingNewest, evicted, alone>>

\* dispatchReturn and dispatchObjReturn when pendingTake finds nothing.
ReturnAlone(id) ==
  /\ id \notin pendingCalls
  /\ alone' = alone \cup {id}
  /\ UNCHANGED <<pendingCalls, pendingNewest, pendingLen, printed, evicted>>

DispatchReturn(id) == ReturnPaired(id) \/ ReturnAlone(id)
=============================================================================
