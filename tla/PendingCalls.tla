---------------------------- MODULE PendingCalls ----------------------------
(***************************************************************************)
(* PendingTable driven by the datagrams the reader can receive.  Ids are   *)
(* handed out by one atomic counter but each hook thread sends its own     *)
(* datagrams, so calls reach the reader in any order of ids; the socket    *)
(* drops datagrams; a return is sent after its call (same thread, FIFO     *)
(* socket), possibly much later, because the application's method runs in  *)
(* between.                                                                *)
(***************************************************************************)
EXTENDS PendingTable

VARIABLES
  open,      \* ids whose call event was sent and whose return was not
  closed,    \* ids whose return event was sent
  received   \* ids whose call event reached the reader

vars == <<tableVars, open, closed, received>>

TypeOK ==
  /\ TableTypeOK
  /\ open \in SUBSET CallIds
  /\ closed \in SUBSET CallIds
  /\ received \in SUBSET CallIds

Init ==
  /\ TableInit
  /\ open = {}
  /\ closed = {}
  /\ received = {}

\* A hook sends the call event of `id`: the reader gets it, or the full socket
\* drops it.
SendCall(id) ==
  /\ id \notin open \cup closed
  /\ open' = open \cup {id}
  /\ UNCHANGED closed
  /\ \/ received' = received \cup {id} /\ DispatchCall(id)
     \/ UNCHANGED <<received, tableVars>>

\* The same for the return event of `id`.
SendReturn(id) ==
  /\ id \in open
  /\ open' = open \ {id}
  /\ closed' = closed \cup {id}
  /\ UNCHANGED received
  /\ \/ DispatchReturn(id)
     \/ UNCHANGED tableVars

\* A return whose call was too deep for the thread's id stack carries 0
\* (tls_pop_call_id) and meets no call.
SendDeepReturn == DispatchReturn(0) /\ UNCHANGED <<open, closed, received>>

Next == SendDeepReturn \/ \E id \in CallIds : SendCall(id) \/ SendReturn(id)

Spec == Init /\ [][Next]_vars
-----------------------------------------------------------------------------
(* Properties.                                                             *)

\* The reader's memory is bounded: whatever the socket drops and however late
\* returns come, the table never holds more than EvictTrigger calls.
BoundedPending == Cardinality(pendingCalls) <= EvictTrigger

\* The counter that decides on eviction is the size of the map; if it drifted,
\* eviction would come too late (unbounded heap) or run on every call.
LenExact == pendingLen = Cardinality(pendingCalls)

\* No received call is lost or printed twice: it waits in the table or its
\* line was printed, exactly one of the two and exactly once.
CallsAccounted ==
  \A id \in CallIds :
    printed[id] + (IF id \in pendingCalls THEN 1 ELSE 0)
      = (IF id \in received THEN 1 ELSE 0)

\* A return is printed on its own line only if its call never reached the
\* reader or had been evicted: no pairing is missed.
AloneOnlyIfUnpaired ==
  \A id \in alone : id \notin received \/ id \in evicted

\* A call within Window ids of the newest one leaves the table only paired
\* with its own return.
RecentCallsKept ==
  [][\A id \in pendingCalls \ pendingCalls' :
       id + Window >= pendingNewest' => id \in closed']_vars
=============================================================================
