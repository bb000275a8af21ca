------------------------------ MODULE EventPipe ------------------------------
(***************************************************************************)
(* The path of an event: a hook on an application thread collects global   *)
(* refs in its thread-local sidecar, passes the config gate, sends one     *)
(* datagram, and the single Go reader renders the refs, deletes them and    *)
(* pairs calls with returns                                                *)
(* (event_pipe.c, bridge.c, hook_logging.c, hook_methods.c, hook_fields.c,  *)
(* hooks.c, event_pipe.go).                                                *)
(*                                                                         *)
(* Only logged hooks are modelled: the caller is in range, logging is on   *)
(* and the call is not re-entrant.  A hook that is not logged changes none *)
(* of the state below.                                                     *)
(***************************************************************************)
EXTENDS Naturals, SequencesExt

CONSTANTS
  Threads,        \* application threads that run hooks
  Refs,           \* handles of the JVM's global-ref table; a freed one is reused
  NoRef,          \* the null handle
  MaxRefs,        \* EVENT_PIPE_MAX_REFS: 8 in the code
  StackCap,       \* TLS_CALL_ID_DEPTH: 32 in the code
  SockCap,        \* datagrams the socket holds before send() fails
  Gates,          \* answers the config gate gives: {TRUE} filters nothing
  Families,       \* the hook families that the threads call, a subset of Hooks
  AttachMayFail,  \* may AttachCurrentThreadAsDaemon fail in the reader
  ReadMayFail,    \* may the reader end on a hard read error
  Window,         \* pendingWindow of the pending table
  MaxId,          \* bound of the model: calls that get an id
  MaxDepth        \* bound of the model: hooks nested on one thread

ASSUME ConstantsAssumption ==
  /\ IsFiniteSet(Threads)
  /\ Threads \cap {"free", "pipe", "reader", "broken"} = {}
  /\ NoRef \notin Refs
  /\ MaxRefs \in Nat \ {0}
  /\ StackCap \in Nat
  /\ SockCap \in Nat \ {0}
  /\ Gates \subseteq BOOLEAN
  /\ AttachMayFail \in BOOLEAN
  /\ ReadMayFail \in BOOLEAN
  /\ Window \in Nat \ {0}
  /\ MaxId \in Nat
  /\ MaxDepth \in Nat

-----------------------------------------------------------------------------
(* Hook families.  A family says how many object refs its call event may   *)
(* put in the sidecar, whether application code runs between call and      *)
(* return, and how the return carries its value:                           *)
(*   "value"    no ref (primitive, void, null, string, pending exception)   *)
(*   "sidecar"  a sidecar ref (log_method_return_value on an object)        *)
(*   "own"      a ref of its own in the header (_log_obj_ret)               *)

Paired(args, nests, rets) ==
  [kind |-> "paired", args |-> args, nests |-> nests, rets |-> rets]

Single(kind, args) == [kind |-> kind, args |-> args, nests |-> FALSE, rets |-> {}]

\* Call<Type>Method and its V and A forms: the receiver (the class for a
\* static method); the method runs in between.
CallMethodHook == Paired({1}, TRUE, {"value", "sidecar"})
CallStaticMethodHook == Paired({1}, TRUE, {"value", "sidecar"})
CallNonvirtualMethodHook == Paired({1}, TRUE, {"value", "sidecar"})
CallVoidMethodHook == Paired({1}, TRUE, {"value"})
CallStaticVoidMethodHook == Paired({1}, TRUE, {"value"})
CallNonvirtualVoidMethodHook == Paired({1}, TRUE, {"value"})
\* NewObject and its forms: no receiver.
NewObjectHook == Paired({0}, TRUE, {"value", "sidecar"})

\* LOG_OBJ_CALL with LOG_OBJ_RET: one object, null or not, in and out.
ReferenceHook == Paired({0, 1}, FALSE, {"value", "own"})
ObjectHook == Paired({0, 1}, FALSE, {"value", "own"})
\* LOG_OBJ2_CALL: IsSameObject, IsInstanceOf, IsAssignableFrom.
TwoObjectsHook == Paired({0, 1, 2}, FALSE, {"value"})
\* An object in, at most.
StringHook == Paired({0, 1}, FALSE, {"value"})
ThrowHook == Paired({0, 1}, FALSE, {"value"})
FromReflectedHook == Paired({0, 1}, FALSE, {"value"})
SetObjectArrayElementHook == Paired({0, 1}, FALSE, {"value"})
\* An object out, at most.
GetObjectArrayElementHook == Paired({0}, FALSE, {"value", "own"})
ExceptionHook == Paired({0}, FALSE, {"value", "own"})
BufferHook == Paired({0}, FALSE, {"value", "own"})
ToReflectedHook == Paired({0}, FALSE, {"value", "own"})
\* Everything by value: arrays are rendered by the hook itself.
PrimitiveArrayHook == Paired({0}, FALSE, {"value"})
CriticalHook == Paired({0}, FALSE, {"value"})
ArrayRegionHook == Paired({0}, FALSE, {"value"})
MonitorHook == Paired({0}, FALSE, {"value"})

\* Get/Set<Type>Field: the receiver and an object value; a static access names
\* a class it knows without a ref.
GetFieldHook == Single("field", {1, 2})
SetFieldHook == Single("field", {1, 2})
StaticFieldHook == Single("field", {0, 1, 2})
\* GetMethodID and its like: the class as a ref of its own.
LookupHook == Single("lookup", {0})
\* FindClass: a lookup that carries its class name.
FindClassHook == Single("plain", {0})
RegisterNativesHook == Single("plain", {0})

Hooks ==
  {CallMethodHook, CallStaticMethodHook, CallNonvirtualMethodHook,
   CallVoidMethodHook, CallStaticVoidMethodHook, CallNonvirtualVoidMethodHook,
   NewObjectHook, ReferenceHook, ObjectHook, TwoObjectsHook, StringHook,
   ThrowHook, FromReflectedHook, SetObjectArrayElementHook,
   GetObjectArrayElementHook, ExceptionHook, BufferHook, ToReflectedHook,
   PrimitiveArrayHook, CriticalHook, ArrayRegionHook, MonitorHook,
   GetFieldHook, SetFieldHook, StaticFieldHook,
   LookupHook, FindClassHook, RegisterNativesHook}

ASSUME FamiliesAssumption == Families \subseteq Hooks

-----------------------------------------------------------------------------
VARIABLES
  live,         \* handles that are in use in the global-ref table
  sidecar,      \* thread -> g_tls_refs: the refs waiting for the next event
  own,          \* thread -> the ref a hook minted outside the sidecar
  ids,          \* thread -> tls_call_ids; 0 stands for an id beyond the cap
  frames,       \* thread -> the logged hooks it is inside of, innermost last
  step,         \* thread -> where its hook stands
  event,        \* thread -> the event its hook prepares
  counter,      \* g_call_id_counter
  ready,        \* g_consumer_ready
  socket,       \* datagrams sent and not yet read
  reader,       \* state of eventPipeReadLoop
  consumerEnv,  \* the reader has a JNIEnv
  datagram,     \* the datagram being dispatched, or NoEvent
  pendingCalls, pendingNewest, pendingLen, printed, evicted, alone,
  dropped       \* history: ids whose call event send() refused

hookVars == <<sidecar, own, ids, frames, step, event>>
readerVars == <<ready, reader, consumerEnv>>
tableVars == <<pendingCalls, pendingNewest, pendingLen, printed, evicted, alone>>
vars == <<live, hookVars, counter, socket, readerVars, datagram, tableVars, dropped>>

Table == INSTANCE PendingTable

CallIds == 1 .. MaxId
Returns == {"return", "objReturn"}
Deferring == {"lookup", "objReturn"}
EventTypes == {"call", "field", "plain"} \cup Returns \cup Deferring
Steps == {"app", "log", "mint", "ownMint", "send"}

\* A datagram.  `owes` is not in the code: the id the event should carry.
Wire == [type : EventTypes, id : 0 .. MaxId, owes : 0 .. MaxId,
         own : Refs \cup {NoRef}, refs : Seq(Refs)]
NoEvent == [type |-> "none", id |-> 0, owes |-> 0, own |-> NoRef, refs |-> <<>>]

\* A hook's event in preparation: `todo` refs still to push, `pushed` pushed.
Preparing(type, allowed, todo) ==
  [type |-> type, allowed |-> allowed, todo |-> todo, pushed |-> 0]
Idle == Preparing("none", TRUE, 0)

Frame == [family : Families, allowed : BOOLEAN, cid : 0 .. MaxId]

TypeOK ==
  /\ live \in SUBSET Refs
  /\ sidecar \in [Threads -> Seq(Refs)]
  /\ \A t \in Threads : Len(sidecar[t]) <= MaxRefs
  /\ own \in [Threads -> Refs \cup {NoRef}]
  /\ ids \in [Threads -> Seq(0 .. MaxId)]
  /\ frames \in [Threads -> Seq(Frame)]
  /\ step \in [Threads -> Steps]
  /\ event \in [Threads -> [type : EventTypes \cup {"none"}, allowed : BOOLEAN,
                            todo : Nat, pushed : Nat]]
  /\ counter \in 0 .. MaxId
  /\ ready \in BOOLEAN
  /\ socket \in Seq(Wire)
  /\ reader \in {"starting", "attached", "draining", "gone"}
  /\ consumerEnv \in BOOLEAN
  /\ datagram \in Wire \cup {NoEvent}
  /\ Table!TableTypeOK
  /\ dropped \in SUBSET CallIds

Init ==
  /\ live = {}
  /\ sidecar = [t \in Threads |-> <<>>]
  /\ own = [t \in Threads |-> NoRef]
  /\ ids = [t \in Threads |-> <<>>]
  /\ frames = [t \in Threads |-> <<>>]
  /\ step = [t \in Threads |-> "app"]
  /\ event = [t \in Threads |-> Idle]
  /\ counter = 0
  /\ ready = FALSE
  /\ socket = <<>>
  /\ reader = "starting"
  /\ consumerEnv = FALSE
  /\ datagram = NoEvent
  /\ Table!TableInit
  /\ dropped = {}

-----------------------------------------------------------------------------
(* Hook threads.                                                           *)

GoTo(t, s) == step' = [step EXCEPT ![t] = s]

Prepare(t, e) == event' = [event EXCEPT ![t] = e] /\ GoTo(t, "log")

\* Bound of the model: as many calls as there are ids.
IdsSuffice ==
  counter + Cardinality({t \in Threads : event[t].type = "call" /\ step[t] # "send"})
    < MaxId

\* Application code runs on t: outside all hooks, or in the method that the
\* innermost hook called.
AppRuns(t) ==
  /\ step[t] = "app"
  /\ frames[t] # <<>> => Last(frames[t]).family.nests

\* The application calls a hooked function of a family that logs a call and a
\* return.  The gate's answer belongs to the function's name: call and return
\* get the same.
BeginCall(t) ==
  /\ AppRuns(t)
  /\ Len(frames[t]) < MaxDepth
  /\ IdsSuffice
  /\ \E h \in Families, allowed \in Gates :
       /\ h.kind = "paired"
       /\ \E n \in h.args : Prepare(t, Preparing("call", allowed, n))
       /\ frames' = [frames EXCEPT ![t] = Append(@, [family |-> h, allowed |-> allowed, cid |-> 0])]
  /\ UNCHANGED <<live, sidecar, own, ids, counter, socket, readerVars, datagram, tableVars, dropped>>

\* The same for a family that logs a single event.
BeginSingle(t) ==
  /\ AppRuns(t)
  /\ \E h \in Families, allowed \in Gates :
       /\ h.kind # "paired"
       /\ \E n \in h.args : Prepare(t, Preparing(h.kind, allowed, n))
  /\ UNCHANGED <<live, sidecar, own, ids, frames, counter, socket, readerVars,
                 datagram, tableVars, dropped>>

\* The innermost hooked function returns and its hook logs the return value.
BeginReturn(t) ==
  /\ step[t] = "app"
  /\ frames[t] # <<>>
  /\ \E style \in Last(frames[t]).family.rets :
       Prepare(t, Preparing(IF style = "own" THEN "objReturn" ELSE "return",
                            Last(frames[t]).allowed,
                            IF style = "sidecar" THEN 1 ELSE 0))
  /\ UNCHANGED <<live, sidecar, own, ids, frames, counter, socket, readerVars,
                 datagram, tableVars, dropped>>

\* Wrong variant: one ref too many.
DeferRenderPushOneMore(t) ==
  /\ step[t] = "log"
  /\ event[t].todo > 0
  /\ IF ready /\ Len(sidecar[t]) <= MaxRefs
       THEN GoTo(t, "mint") /\ UNCHANGED event
       ELSE event' = [event EXCEPT ![t].todo = @ - 1] /\ UNCHANGED step
  /\ UNCHANGED <<live, sidecar, own, ids, frames, counter, socket, readerVars,
                 datagram, tableVars, dropped>>

\* event_pipe_defer_render_push up to its checks: the object is deferred, or
\* the caller renders it in place.
DeferRenderPush(t) ==
  /\ step[t] = "log"
  /\ event[t].todo > 0
  /\ IF ready /\ Len(sidecar[t]) < MaxRefs
       THEN GoTo(t, "mint") /\ UNCHANGED event
       ELSE event' = [event EXCEPT ![t].todo = @ - 1] /\ UNCHANGED step
  /\ UNCHANGED <<live, sidecar, own, ids, frames, counter, socket, readerVars,
                 datagram, tableVars, dropped>>

\* The rest of it: NewGlobalRef, which fails when the table is full, and the
\* entry in the sidecar.
MintRef(t) ==
  /\ step[t] = "mint"
  /\ GoTo(t, "log")
  /\ \/ \E r \in Refs \ live :
          /\ live' = live \cup {r}
          /\ sidecar' = [sidecar EXCEPT ![t] = Append(@, r)]
          /\ event' = [event EXCEPT ![t].todo = @ - 1, ![t].pushed = @ + 1]
     \/ /\ live = Refs
        /\ event' = [event EXCEPT ![t].todo = @ - 1]
        /\ UNCHANGED <<live, sidecar>>
  /\ UNCHANGED <<own, ids, frames, counter, socket, readerVars, datagram, tableVars, dropped>>

\* The event is prepared; the config gate comes last.
AtGate(t) == step[t] = "log" /\ event[t].todo = 0

Finish(t) == event' = [event EXCEPT ![t] = Idle] /\ GoTo(t, "app")

\* A return leaves its frame.
Leave(t) ==
  frames' = IF event[t].type \in Returns
              THEN [frames EXCEPT ![t] = Front(@)] ELSE frames

\* config_is_allowed said no: nothing is sent, and the sidecar stays as it is.
Filtered(t) ==
  /\ AtGate(t)
  /\ ~event[t].allowed
  /\ Finish(t)
  /\ Leave(t)
  /\ UNCHANGED <<live, sidecar, own, ids, counter, socket, readerVars, datagram, tableVars, dropped>>

\* Wrong variant: a single thread-local slot instead of a stack.
PassCallOneSlot(t) ==
  /\ AtGate(t)
  /\ event[t].allowed
  /\ event[t].type = "call"
  /\ counter' = counter + 1
  /\ ids' = [ids EXCEPT ![t] = <<counter + 1>>]
  /\ frames' = [frames EXCEPT ![t][Len(frames[t])].cid = counter + 1]
  /\ GoTo(t, "send")
  /\ UNCHANGED <<live, sidecar, own, event, socket, readerVars, datagram, tableVars, dropped>>

\* Wrong variant: beyond StackCap the id on top stands for the deeper calls too.
PassCallSharingTop(t) ==
  /\ AtGate(t)
  /\ event[t].allowed
  /\ event[t].type = "call"
  /\ counter' = counter + 1
  /\ ids' = [ids EXCEPT ![t] = Append(@, IF Len(@) < StackCap THEN counter + 1 ELSE Last(@))]
  /\ frames' = [frames EXCEPT ![t][Len(frames[t])].cid = counter + 1]
  /\ GoTo(t, "send")
  /\ UNCHANGED <<live, sidecar, own, event, socket, readerVars, datagram, tableVars, dropped>>

\* log_jni_call: the next id, pushed on the thread's stack (beyond StackCap
\* only the depth counts); the event is sent in a later step.
PassCall(t) ==
  /\ AtGate(t)
  /\ event[t].allowed
  /\ event[t].type = "call"
  /\ counter' = counter + 1
  /\ ids' = [ids EXCEPT ![t] = Append(@, IF Len(@) < StackCap THEN counter + 1 ELSE 0)]
  /\ frames' = [frames EXCEPT ![t][Len(frames[t])].cid = counter + 1]
  /\ GoTo(t, "send")
  /\ UNCHANGED <<live, sidecar, own, event, socket, readerVars, datagram, tableVars, dropped>>

\* The other events: a lookup and an object return take a ref of their own
\* when a consumer is ready.
PassOther(t) ==
  /\ AtGate(t)
  /\ event[t].allowed
  /\ event[t].type # "call"
  /\ GoTo(t, IF event[t].type \in Deferring /\ ready THEN "ownMint" ELSE "send")
  /\ UNCHANGED <<live, sidecar, own, ids, frames, event, counter, socket, readerVars,
                 datagram, tableVars, dropped>>

\* NewGlobalRef of log_jni_lookup_deferred and _log_obj_ret.
MintOwn(t) ==
  /\ step[t] = "ownMint"
  /\ GoTo(t, "send")
  /\ \/ \E r \in Refs \ live : live' = live \cup {r} /\ own' = [own EXCEPT ![t] = r]
     \/ live = Refs /\ UNCHANGED <<live, own>>
  /\ UNCHANGED <<sidecar, ids, frames, event, counter, socket, readerVars, datagram,
                 tableVars, dropped>>

\* tls_pop_call_id: 0 for an empty stack.
PoppedId(t) == IF ids[t] = <<>> THEN 0 ELSE Last(ids[t])
Popped(t) == IF ids[t] = <<>> THEN <<>> ELSE Front(ids[t])

\* The id the comment on the stack promises: the call's, or 0 for a call more
\* than StackCap logged calls deep.
Owed(t) ==
  IF Cardinality({i \in DOMAIN frames[t] : frames[t][i].allowed}) <= StackCap
    THEN Last(frames[t]).cid ELSE 0

\* The datagram of t's event.  An object return without a ref of its own (not
\* deferred, or NewGlobalRef failed) is an ordinary return.
Datagram(t) ==
  [type |-> IF event[t].type = "objReturn" /\ own[t] = NoRef THEN "return" ELSE event[t].type,
   id   |-> CASE event[t].type = "call" -> Last(frames[t]).cid
              [] event[t].type \in Returns -> PoppedId(t)
              [] OTHER -> 0,
   owes |-> CASE event[t].type = "call" -> Last(frames[t]).cid
              [] event[t].type \in Returns -> Owed(t)
              [] OTHER -> 0,
   own  |-> own[t],
   refs |-> sidecar[t]]

RefsOf(w) == Range(w.refs) \cup ({w.own} \ {NoRef})

\* send() took the datagram: its refs now belong to the consumer.
Delivered(t) ==
  /\ Len(socket) < SockCap
  /\ socket' = Append(socket, Datagram(t))
  /\ UNCHANGED <<live, dropped>>

\* Wrong variant: the refs of a dropped datagram are forgotten.
RefusedLeaking(t) ==
  /\ Len(socket) = SockCap
  /\ dropped' = IF event[t].type = "call" THEN dropped \cup {Datagram(t).id} ELSE dropped
  /\ UNCHANGED <<live, socket>>

\* send() refused it: the thread deletes the refs (event_pipe_render_refs_drop,
\* and the callers that minted a ref of their own).
Refused(t) ==
  /\ Len(socket) = SockCap
  /\ live' = live \ RefsOf(Datagram(t))
  /\ dropped' = IF event[t].type = "call" THEN dropped \cup {Datagram(t).id} ELSE dropped
  /\ UNCHANGED socket

\* Wrong variants: the sidecar is reset only after a successful send; the hook
\* keeps the ref it put in the header.
EmitResetIfSent(t) ==
  /\ step[t] = "send"
  /\ Delivered(t) \/ Refused(t)
  /\ ids' = IF event[t].type \in Returns THEN [ids EXCEPT ![t] = Popped(t)] ELSE ids
  /\ sidecar' = IF Len(socket) < SockCap THEN [sidecar EXCEPT ![t] = <<>>] ELSE sidecar
  /\ own' = [own EXCEPT ![t] = NoRef]
  /\ Finish(t)
  /\ Leave(t)
  /\ UNCHANGED <<counter, readerVars, datagram, tableVars>>
EmitKeepingOwn(t) ==
  /\ step[t] = "send"
  /\ Delivered(t) \/ Refused(t)
  /\ ids' = IF event[t].type \in Returns THEN [ids EXCEPT ![t] = Popped(t)] ELSE ids
  /\ sidecar' = [sidecar EXCEPT ![t] = <<>>]
  /\ Finish(t)
  /\ Leave(t)
  /\ UNCHANGED <<own, counter, readerVars, datagram, tableVars>>

\* event_pipe_emit_*: a return pops the id first; the sidecar is reset whether
\* or not the datagram was sent.
Emit(t) ==
  /\ step[t] = "send"
  /\ Delivered(t) \/ Refused(t)
  /\ ids' = IF event[t].type \in Returns THEN [ids EXCEPT ![t] = Popped(t)] ELSE ids
  /\ sidecar' = [sidecar EXCEPT ![t] = <<>>]
  /\ own' = [own EXCEPT ![t] = NoRef]
  /\ Finish(t)
  /\ Leave(t)
  /\ UNCHANGED <<counter, readerVars, datagram, tableVars>>

\* What a hook does by itself, as opposed to the application.
HookStep(t) ==
  \/ DeferRenderPush(t) \/ MintRef(t) \/ Filtered(t) \/ PassCall(t)
  \/ PassOther(t) \/ MintOwn(t) \/ Emit(t)

-----------------------------------------------------------------------------
(* The reader goroutine.                                                   *)

unchangedByReader == <<hookVars, counter, dropped>>

\* Wrong variants: readiness is published although attaching failed; the
\* reader gives up when attaching failed.
ReaderAttachOrNot ==
  /\ reader = "starting"
  /\ consumerEnv' \in (IF AttachMayFail THEN BOOLEAN ELSE {TRUE})
  /\ reader' = "attached"
  /\ UNCHANGED <<ready, live, socket, datagram, tableVars, unchangedByReader>>
ReaderAttachOrQuit ==
  /\ reader = "starting"
  /\ \/ consumerEnv' = TRUE /\ reader' = "attached"
     \/ AttachMayFail /\ reader' = "gone" /\ UNCHANGED consumerEnv
  /\ UNCHANGED <<ready, live, socket, datagram, tableVars, unchangedByReader>>

\* AttachCurrentThreadAsDaemon; without a JNIEnv the reader drains all the same.
ReaderAttach ==
  /\ reader = "starting"
  /\ \/ consumerEnv' = TRUE /\ reader' = "attached"
     \/ AttachMayFail /\ reader' = "draining" /\ UNCHANGED consumerEnv
  /\ UNCHANGED <<ready, live, socket, datagram, tableVars, unchangedByReader>>

ReaderPublish ==
  /\ reader = "attached"
  /\ ready' = TRUE
  /\ reader' = "draining"
  /\ UNCHANGED <<consumerEnv, live, socket, datagram, tableVars, unchangedByReader>>

ReaderRead ==
  /\ reader = "draining"
  /\ datagram = NoEvent
  /\ socket # <<>>
  /\ datagram' = Head(socket)
  /\ socket' = Tail(socket)
  /\ UNCHANGED <<live, readerVars, tableVars, unchangedByReader>>

\* What event_pipe_render_obj deletes: nothing without a JNIEnv.
Released(refs) == IF consumerEnv THEN refs ELSE {}

\* Wrong variant: the rendered ref is not deleted.
RenderRefKeeping ==
  /\ datagram.refs # <<>>
  /\ datagram' = [datagram EXCEPT !.refs = Tail(@)]
  /\ UNCHANGED <<live, socket, readerVars, tableVars, unchangedByReader>>

\* renderRefChunk on the first sidecar ref that is left.
RenderRef ==
  /\ datagram.refs # <<>>
  /\ live' = live \ Released({Head(datagram.refs)})
  /\ datagram' = [datagram EXCEPT !.refs = Tail(@)]
  /\ UNCHANGED <<socket, readerVars, tableVars, unchangedByReader>>

\* The switch of dispatchEvent, once every placeholder is rendered:
\* dispatchCall, dispatchReturn, dispatchObjReturn and dispatchLookup, which
\* render and delete the ref in the header, and the prints without a state.
Route ==
  /\ datagram # NoEvent
  /\ datagram.refs = <<>>
  /\ CASE datagram.type = "call" -> Table!DispatchCall(datagram.id)
       [] datagram.type \in Returns -> Table!DispatchReturn(datagram.id)
       [] OTHER -> UNCHANGED tableVars
  /\ live' = live \ Released({datagram.own} \ {NoRef})
  /\ datagram' = NoEvent
  /\ UNCHANGED <<socket, readerVars, unchangedByReader>>

\* A hard read error ends the reader for good.
ReaderFail ==
  /\ ReadMayFail
  /\ reader = "draining"
  /\ datagram = NoEvent
  /\ reader' = "gone"
  /\ ready' = FALSE
  /\ consumerEnv' = FALSE
  /\ UNCHANGED <<live, socket, datagram, tableVars, unchangedByReader>>

ReaderStep == ReaderAttach \/ ReaderPublish \/ ReaderRead \/ RenderRef \/ Route

Next ==
  \/ \E t \in Threads : BeginCall(t) \/ BeginSingle(t) \/ BeginReturn(t) \/ HookStep(t)
  \/ ReaderStep
  \/ ReaderFail

Spec == Init /\ [][Next]_vars

\* A hook runs on, and so does the reader goroutine; the application is free
\* never to call or to return.
Fairness == (\A t \in Threads : WF_vars(HookStep(t))) /\ WF_vars(ReaderStep)

FairSpec == Spec /\ Fairness
-----------------------------------------------------------------------------
(* Properties.                                                             *)

\* Where a handle is held: by which threads, on how many datagrams.
HeldBy(t) == Range(sidecar[t]) \cup ({own[t]} \ {NoRef})
InPipe == UNION {RefsOf(socket[i]) : i \in DOMAIN socket}

\* event_pipe.h, "Global-ref ownership (F1)": every global ref that exists has
\* exactly one owner, a thread that has not sent it yet, a queued datagram or
\* the one being dispatched, and nobody holds a deleted handle.  So no ref
\* leaks, none is deleted twice and none is used after it was deleted, whatever
\* send() refuses.
EveryRefHasOneOwner ==
  /\ live = (UNION {HeldBy(t) : t \in Threads}) \cup InPipe \cup RefsOf(datagram)
  /\ \A t, u \in Threads : t # u => HeldBy(t) \cap HeldBy(u) = {}
  /\ \A t \in Threads : HeldBy(t) \cap (InPipe \cup RefsOf(datagram)) = {}
  /\ \A i, j \in DOMAIN socket : i # j => RefsOf(socket[i]) \cap RefsOf(socket[j]) = {}
  /\ InPipe \cap RefsOf(datagram) = {}

\* The owner of a handle, as RefLedger sees it.  "broken" is no owner
\* there: the handle leaked, is held after its deletion, or is held twice.
Holders(r) ==
  {t \in Threads : r \in HeldBy(t)}
    \cup (IF r \in InPipe THEN {"pipe"} ELSE {})
    \cup (IF r \in RefsOf(datagram) THEN {"reader"} ELSE {})

OwnerOf(r) ==
  CASE r \notin live /\ Holders(r) = {} -> "free"
    [] r \in live /\ Cardinality(Holders(r)) = 1 -> CHOOSE o \in Holders(r) : TRUE
    [] OTHER -> "broken"

Ledger == INSTANCE RefLedger WITH owner <- [r \in Refs |-> OwnerOf(r)]

\* The pipe implements the ledger: refs are handed over as a whole, thread to
\* pipe to reader, and only their owner deletes them.
ImplementsLedger == Ledger!Spec

\* A datagram carries the refs of its own event and no others: the sidecar of
\* a thread holds what the event in preparation pushed ("refs already in this
\* event", hook_logging.c:50-51), and nothing outside a hook.
OwnRefsOnly == \A t \in Threads : Len(sidecar[t]) = event[t].pushed

\* The gate on readiness: a reader whose attach failed never has a ref in hand.
\* The branches of the reader for a nil consumerEnv are never taken with one
\* (event_pipe.go:241, "Unreachable").  It says nothing of a reader that ends:
\* refs queued for it, or minted after the test, reach nobody.
RefsReachARenderer == RefsOf(datagram) # {} => consumerEnv

\* Every return carries the id of the call it ends, at any nesting and under
\* any filter, or 0 if the call was too deep for the stack (bridge.c:140-149).
PairedByInvocation ==
  \A w \in Range(socket) \cup {datagram} : w.id = w.owes

\* A call that was given an id is in one place: still with its thread, dropped,
\* in the socket, being dispatched, waiting for its return, or printed, once.
Carrying(id) == {i \in DOMAIN socket : socket[i].type = "call" /\ socket[i].id = id}
Unsent(id) ==
  {t \in Threads : event[t].type = "call" /\ step[t] = "send" /\ Last(frames[t]).cid = id}
Count(b) == IF b THEN 1 ELSE 0

EachCallOnePlace ==
  \A id \in 1 .. counter :
    Cardinality(Unsent(id)) + Cardinality(Carrying(id)) + printed[id]
      + Count(id \in dropped) + Count(datagram.type = "call" /\ datagram.id = id)
      + Count(id \in pendingCalls) = 1

\* What the reader has seen of the calls: those that were stored, and those whose
\* return was dispatched.  A return that send() refused leaves its call open.
ReceivedCalls == {id \in CallIds : id \in pendingCalls \/ printed[id] > 0}
ClosedCalls == {id \in CallIds : id \in alone \/ (printed[id] > 0 /\ id \notin evicted)}
OpenCalls == (ReceivedCalls \cup dropped) \ ClosedCalls

Driver == INSTANCE PendingCalls
            WITH open <- OpenCalls, closed <- ClosedCalls, received <- ReceivedCalls

\* The reader's table is driven as PendingCalls has it: hooks that nest and end on
\* many threads, the gate, the id stack and the socket let no return reach the
\* reader twice, before its call, or for an id that was not sent; so what holds of
\* the table under that driver holds of the table in the pipe.
ImplementsPending == Driver!Spec

\* Every global ref is deleted in the end, so the app's table does not fill up,
\* provided that hooks and the reader run on, that no read fails, and that no
\* event is filtered: the refs of one stay with its thread until it sends another.
EveryRefReleased == \A r \in Refs : (r \in live) ~> (r \notin live)

\* Every call that the socket took is printed or waits for its return.
EveryCallArrives ==
  \A id \in CallIds :
    (Carrying(id) # {}) ~> (id \in pendingCalls \/ printed[id] = 1)
=============================================================================
