# TLA+ models of jnilog

jnilog is a shared library that patches the JNI function table of an Android
process. Every JNI call of the app goes through a hook that logs it; the log
lines are rendered by a Go goroutine inside the same process. The library must
not disturb its host: no leaked or doubly deleted global reference, no blocked
thread, no hook that calls itself, and a log in which every return belongs to
its call.

This directory holds the specifications of the parts where that is hard, the
TLC configurations that check them, and the proofs that TLAPS checks.

- [Components](#components)
- [Modules and how they follow the code](#modules-and-how-they-follow-the-code)
- [Runs](#runs)
- [Fairness](#fairness)
- [Proofs](#proofs)
- [Disagreements found](#disagreements-found)
- [What is abstracted, and what is not modelled](#what-is-abstracted-and-what-is-not-modelled)
- [Plan](#plan)

`src/` stands for the repository's root, so the C bridge is in
`src/src/cbridge` and the Go side in `src/src/go`.

## Components

| Component | State | Operations | What makes it correct |
|---|---|---|---|
| Hook bodies (`hooks.c`, `hook_methods.c`, `hook_fields.c`, `hook_logging.c`) | none of their own between calls; the context of a call on its stack | about 220 hooks: log the call, run the original, log the return | the return carries the id of its call; refs of one event stay with it |
| Event pipe, C side (`event_pipe.c`) | per-thread sidecar of global refs, readiness of the consumer, a socket pair | defer a ref, emit six kinds of events, drop | every global ref has one owner; a reader that could not attach gets none |
| Bridge (`bridge.c`) | id counter, per-thread stack of call ids, the once of the Go side | five forwarders behind the config gate, `bridge_init`, `bridge_activate_go` | ids pair calls with returns at any depth |
| Event reader (`event_pipe.go`) | `consumerEnv`, the datagram it works on | attach, publish, read, render, dispatch | runs on whatever the hooks and the socket do |
| Pending call table (`event_pipe.go`, `main.go`) | calls that wait for their return, the newest id, a counter | store, take, evict | bounded; no call lost, printed twice or left alone without need |
| Futex mutex and rwlock (`freestanding/jl_lock.h`) | one word | lock, unlock | mutual exclusion, no lost wake-up |
| Once (`freestanding/jl_lock.h`) | one word | `jl_once` | one initialization, seen by all who return |
| Lifecycle (`main.c`, `bridge.c`, `hooks.c`, `init.go`) | initialization flag, resolved symbols, once of the Go side, saved and patched function tables | constructor or worker, `JNI_OnLoad`, `JNI_GetCreatedJavaVMs`, the patched `GetEnv`, destructor | the Go side is up before any hook; saved tables are original; nobody hangs |
| Config gate cache (`hook_common.c`) | open-addressing table of answers | `cfg_lookup` with the lock dropped for the Go query | an answer belongs to its name |
| Id caches (`hook_common.c`) | tables of method and field signatures | put, look up by copy | a hook prints the name last stored for its id, whole |
| Re-entrancy guard (`hook_common.c`, `visualize.c`, `hooks.c`) | per-thread counters of hook scopes and of critical sections | raise, lower | balanced on every path; the app sees its own exceptions and no others |
| Range set (`rangeset.c`, the interposers of `main.c`) | package name, address ranges, attempt flag, pid of the last seed, own range | seed, refresh, add, reset, look up | logs the package's libraries that were seeded, and no others |
| Allocator (`freestanding/jl_alloc.h`) | free lists, bump arena | malloc, free, realloc | no block handed out twice |
| Wire format (`event_pipe.c`, `visualize.c`, `event_pipe.go`, `value.go`) | none | encode, truncate, escape, decode | decode undoes encode, whatever was cut, where the encoder escapes |
| Signatures (`visualize.c`) | none | pull arguments, encode arguments | both parsers read the same types, wherever the cache cut the signature |
| Configuration (`config.go`) | an immutable config behind an atomic pointer | load, the two gate questions | include and exclude rules as documented |
| Logger (`logger.go`), formatting, `jnilogcfg` | layout only | | |

How they interact. A hook runs on a thread of the app. It asks the range set
whether the caller is of interest and the re-entrancy guard whether it is
itself inside a hook, puts global refs in its thread's sidecar, passes the
config gate and sends a datagram over a non-blocking `AF_UNIX` socket; a full
socket drops it. For `Call*Method` and `NewObject` the app's method runs in the
middle, with hooks of its own on the same thread. One reader goroutine, locked
to an OS thread attached to the JVM, reads the datagrams, renders the refs and
deletes them, and keeps calls in the pending table until their return comes.
The lifecycle brings all of this up from a constructor, a detached worker and
three entry points that any thread may call at any time.

The hard behaviours are therefore: the hand-over of refs between threads when a
send fails, a table is full or the reader is absent; ids that arrive out of
order, late, or never; nested hooks under a filter; initialization reached from
several threads, one of which is started by the initialization itself; and the
locks underneath, which are home-made. `PROJECT.json` lists each hazard at its
line, with the properties that cover it.

## Modules and how they follow the code

`PROJECT.json` ("map") gives the source lines of each definition. A definition
whose comment begins with "Wrong variant" is not part of the specification: it
is a plausible mistake in the code, kept to show that a property notices it.

**PendingTable** is the table of `event_pipe.go` (`pendingStore`,
`pendingTake`, `evictStalePending`) as operations without a driver. `printed`
counts the calls of `emitCallFull`; `evicted` and `alone` record which lines
were printed by an eviction and by `emitStandaloneReturn`. `pendingLen` is a
variable of its own, as in the code, and not the size of the map. An operation
is one step because only the reader goroutine touches the table.
**PendingCalls** drives it with what the reader can receive: calls in any order
of ids, either datagram dropped, returns arbitrarily late but after their call
(same thread, FIFO socket), and returns that carry 0 because their call was too deep
for the thread's id stack (`SendDeepReturn`).

**EventPipe** is the path of an event. Per thread: `sidecar` (`g_tls_refs`),
`own` (the ref that `_log_obj_ret` and `log_jni_lookup_deferred` mint outside
the sidecar), `ids` (`tls_call_ids`), `frames` (the logged hooks the thread is
inside of) and the event it prepares. Shared: the JVM's global-ref table
(`live`), `g_call_id_counter`, `g_consumer_ready`, the socket; and the reader's
state, with PendingTable as an instance. The hook families (`CallMethodHook`,
..., `RegisterNativesHook`) record what the hook bodies differ in: how many refs
a call event may push, whether app code runs inside, and how a return carries
its value. Steps of a hook thread are separate wherever another thread could
come in between: the readiness test and the `NewGlobalRef` after it, the gate
with the id it takes, the own ref, the send. The reader's steps are attach,
publish, read, one ref rendered, dispatch. `owes` in a datagram is a ghost: the
id that the comment on the id stack (`bridge.c:130-149`) promises. EventPipe
implements PendingCalls too (`ImplementsPending`): a call is sent there when the
reader dispatches it or the pipe drops it, and closed when the reader dispatches its
return; a return that is dropped leaves its call open. What PendingCalls lets
the reader meet is therefore what the pipe delivers.
**MCEventPipe** chooses families and symmetry for TLC.

**RefLedger** is the abstract specification of reference ownership: a ref goes
from a thread to the pipe to the reader, all refs of a thread at once, and only
the owner deletes it. EventPipe implements it under the mapping `OwnerOf`.

**MutexSpec** is what `pthread_mutex_lock` and `unlock` promise, and **JlMutex**
the three-state futex mutex that stands in for it (and, through the macros of
`jl_libc.h`, for both sides of the rwlock). One step is one atomic operation or
one futex call; a futex wait may return without a wake. JlMutex implements
MutexSpec with `holders <- Owners`. **JlOnce** is `jl_once` at the same grain.
**MCJlLock** runs the two side by side, one moving in a behaviour.

**Lifecycle** keeps, per thread, the steps that are left of the calls it is
inside of (`todo`), so the call tree of `init_once_handler`,
`try_install_hooks` and `bridge_activate_go` unfolds as in the code and threads
interleave between its steps. A section under `g_init_lock`, `g_install_lock` or
`g_vm_hook_lock` is one step, which JlMutex justifies, and `pthread_once` is
"fresh, running, done" with waiting callers, which JlOnce justifies. The
reader's thread is an actor too, because its attachment enters the library
again through the library's own `JNI_GetCreatedJavaVMs`. `preloaded` is chosen
initially: the constructor initializes itself before the program runs, or (when
injected into a running VM) on a worker beside it.

**ConfigGate** is `cfg_lookup`. A pointer is a string literal and `NameOf` what it
spells: several literals may spell one name. `cache[s]` is a slot with the
pointer last seen (`key`), the copied name (`owned`) and the answer. A lookup is
one step where the lock is held and two where it is dropped for the Go query:
`Miss` (or `Overflow`, when no slot is left) and later `Settle` (or `Direct`),
between which other threads fill slots. `GoAnswer` is the pair of exports of
`config.go`.

**IdCache** is one of the two caches of `hook_common.c`, which are the same code
over methods and over fields. The table is written and copied field by field
under the rwlock, so a put is three steps (`PutName`, `PutClazz`, `PutSig`) and a
get three (`BeginGet`, `CopySig`, `CopyClazz`); the class is optional, and an old
entry keeps its own. `stored` is a ghost: what the puts of an id amount to.

**RangeSet** is `rangeset.c` with its callers: the three interposed loader
entries (`Load`, where the loader's own one may first take the package name from
the path), `mprotect`, the Go bridge's start and the first hook. The steps of
`c_seed_exec_ranges_from_maps` are separate wherever it releases a lock: the pid
check, clearing, forgetting the name, refreshing it, the snapshot, each library,
the fallback to the maps, the mark. `Segment` lays libraries side by side so that
ranges touch and merge. `due` and `taken` are ghosts: what finished seeds walked,
and the names the process has had. `Specialize` renames the process, `Hide` takes
the payload out of the loader's sight, `Fork` leaves a child with one thread and
everything inherited.

**JlAlloc** counts memory in units, a header taking one. `header[a].mlen` is, as
in the code, the length of a mapping, 0, or the link of a free list, whatever the
block is at the moment. What is done under the lock is one step; writing the
header after the unlock (`WriteHeader`) and reading it before the lock (`Unmap`,
`Push`) are steps of their own.

**HookScopes** is one thread's stack of app frames and hooks. A hook is the
sequence of operations its code performs: raise and lower the counters, a JNI
call of the logger's own (`jni`, or `fail` if it throws), `clear`, `throw`, `delete`,
`mint` (the `NewGlobalRef` of `event_pipe_defer_render_push` and `_log_obj_ret`), the
original function, and `render`, where `toString` or `getName` of the app runs. A
helper's name in that sequence is replaced by one of the helper's own sequences
when it is reached, after its look at the state (`vis_safe_to_call`). `sections`,
`entitled` and `refusals` are ghosts: the critical sections the app is in, whether
its own calls left an exception, and the sections the JVM refused. The code guards
its JNI calls in two ways, and `CallsWhenAllowed` keeps them apart. Rendering asks
`vis_safe_to_call` first: no critical section, no exception pending. Deferring asks
nothing: `NewGlobalRef` is called after a `Throw`, after a lookup that failed, in
`ExceptionCheck`, and in `DeleteLocalRef`, `DeleteGlobalRef` and `PopLocalFrame`, which
may be called with an exception pending. What holds of it is that no critical section
is open and that the exception is then the app's own. JNI does not list
`NewGlobalRef` among the functions that may be called with an exception pending, so
this is a hazard under CheckJNI that no property denies.

**WireCodec** takes one event from the hook's strings through the cut of
`append_str_max`, the reader's substitution and its decoding. Texts are sequences
of characters and a character is the sequence of its bytes, so that cuts can fall
inside one; the escape, cut, split and substitution functions work on bytes as
the code does, one byte after the other. An event comes by one of six routes. Five use
the encoders that escape (`vis_encode_typed_args` and its like) and placeholders. The
sixth, `embedded`, is that of `NewStringUTF`, `GetStringUTFChars`, `ThrowNew`,
`ExceptionClear`, `FatalError` and `DefineClass`, which frame their arguments by hand
(`EmbeddedRecord`): they clip a text at 200 to 500 bytes wherever that falls and do
not escape it. For this route `FittingIsShown` and `CutKeepsFraming` have a premise
(`Carried`): the text is not clipped and holds no framing byte. Without it they are
false, which the run `embedded_text` shows. **Signatures** has the two walks over a cached signature
that may be cut anywhere: `extract_va_args` (whose `extract_jvalue_args` twin
differs in how it reads a value, not in how it advances) and
`vis_encode_typed_args`.

What a cut may show is the delicate part of WireCodec. An array counts the elements
it leaves out in one more item, `+N`. A cut behind the separator of this item, or
behind its sign, shows one more element than the array has, empty or a plus sign
(`BeginsArray` allows both; the run has a limit for each).

**MCHookPath** composes these seven for TLC. They share no variable with one
another, since each of them works for its caller under its own lock or on its own
thread; so one of them moves in a behaviour (`part`) and the others stand still.

**PendingProofs**, **JlLockProofs** (the mutex and `jl_once`), **LifecycleProofs**,
**EventPipeProofs** (who owns a ref), **EventCallsProofs** (call ids, on top of the
former), **HookPathProofs** (config gate, id caches, range set, allocator and
signatures, one part each), **WireProofs** (wire format, on top of the former) and
**HookScopesProofs** hold the theorems.

## Runs

| Run | Shows | Bounds |
|---|---|---|
| `pending` | the table is bounded (`BoundedPending`), its counter exact (`LenExact`), no call lost or printed twice (`CallsAccounted`), no pairing missed (`AloneOnlyIfUnpaired`), recent calls only leave with their return (`RecentCallsKept`) | `Window = 1`, 5 ids: the trigger is 2, so evictions happen twice in one behaviour, with early, late and absent returns |
| `event_refs` | `OwnRefsOnly` when nothing is filtered | 2 threads, 3 handles, sidecar of 2, socket of 1: sidecar full, ref table full, socket full and handle reuse all occur; the reader may fail to attach |
| `event_calls` | `PairedByInvocation`, `EachCallOnePlace`, `ImplementsPending` with filtering | 2 threads, 3 ids, nesting 2 with an id stack of 1, window 1: calls beyond the stack, evictions and drops occur |
| `event_fail` | type invariant, ownership (`EveryRefHasOneOwner`) and `RefsReachARenderer` for every hook family, with filtering and a reader that fails to attach or dies. `RefsReachARenderer` is about the reader whose attach failed; refs that are queued when a reader dies, or minted after the readiness test, reach nobody, and no property denies it | 1 thread, 2 handles, sidecar and socket of 1, nesting 2 |
| `event_filtered` | violation: a filtered event leaves its refs to the next one | 1 thread |
| `event_live` | `ImplementsLedger` (ownership between two threads and the reader), `EveryRefReleased`, `EveryCallArrives` | 2 threads, 2 handles, no symmetry; nothing is filtered and no read fails, since a filtered event leaves its refs with an idle thread |
| `jl_lock` | `MutualExclusion`, `NoLostWakeup`, `ImplementsMutex`, `WaitingEndsInLock`; `InitializedOnce`, `PassedAfterInit`, `EveryCallPasses` | the mutex with 4 threads: one that unlocks, one that sleeps, one that marks, one that barges in; `jl_once` with 3: one initializes, two wait |
| Lifecycle (`main.c`, `bridge.c`, `hooks.c`, `init.go`) | initialization flag, resolved symbols, once of the Go side, saved and patched function tables | constructor or worker, `JNI_OnLoad`, `JNI_GetCreatedJavaVMs`, the patched `GetEnv`, destructor | the Go side is up before any hook; saved tables are original; nobody hangs |
| Config gate cache (`hook_common.c`) | open-addressing table of answers | `cfg_lookup` with the lock dropped for the Go query | an answer belongs to its name |
| Id caches (`hook_common.c`) | tables of method and field signatures | put, look up by copy | a hook prints the name last stored for its id, whole |
| Re-entrancy guard (`hook_common.c`, `visualize.c`, `hooks.c`) | per-thread counters of hook scopes and of critical sections | raise, lower | balanced on every path; the app sees its own exceptions and no others |
| Range set (`rangeset.c`, the interposers of `main.c`) | package name, address ranges, attempt flag, pid of the last seed, own range | seed, refresh, add, reset, look up | logs the package's libraries that were seeded, and no others |
| Allocator (`freestanding/jl_alloc.h`) | free lists, bump arena | malloc, free, realloc | no block handed out twice |
| Wire format (`event_pipe.c`, `visualize.c`, `event_pipe.go`, `value.go`) | none | encode, truncate, escape, decode | decode undoes encode, whatever was cut, where the encoder escapes |
| Signatures (`visualize.c`) | none | pull arguments, encode arguments | both parsers read the same types, wherever the cache cut the signature |
| Configuration (`config.go`) | an immutable config behind an atomic pointer | load, the two gate questions | include and exclude rules as documented |
| Logger (`logger.go`), formatting, `jnilogcfg` | layout only | | |

How they interact. A hook runs on a thread of the app. It asks the range set
whether the caller is of interest and the re-entrancy guard whether it is
itself inside a hook, puts global refs in its thread's sidecar, passes the
config gate and sends a datagram over a non-blocking `AF_UNIX` socket; a full
socket drops it. For `Call*Method` and `NewObject` the app's method runs in the
middle, with hooks of its own on the same thread. One reader goroutine, locked
to an OS thread attached to the JVM, reads the datagrams, renders the refs and
deletes them, and keeps calls in the pending table until their return comes.
The lifecycle brings all of this up from a constructor, a detached worker and
three entry points that any thread may call at any time.

The hard behaviours are therefore: the hand-over of refs between threads when a
send fails, a table is full or the reader is absent; ids that arrive out of
order, late, or never; nested hooks under a filter; initialization reached from
several threads, one of which is started by the initialization itself; and the
locks underneath, which are home-made. `PROJECT.json` lists each hazard at its
line, with the properties that cover it.

## Modules and how they follow the code

`PROJECT.json` ("map") gives the source lines of each definition. A definition
whose comment begins with "Wrong variant" is not part of the specification: it
is a plausible mistake in the code, kept to show that a property notices it.

**PendingTable** is the table of `event_pipe.go` (`pendingStore`,
`pendingTake`, `evictStalePending`) as operations without a driver. `printed`
counts the calls of `emitCallFull`; `evicted` and `alone` record which lines
were printed by an eviction and by `emitStandaloneReturn`. `pendingLen` is a
variable of its own, as in the code, and not the size of the map. An operation
is one step because only the reader goroutine touches the table.
**PendingCalls** drives it with what the reader can receive: calls in any order
of ids, either datagram dropped, returns arbitrarily late but after their call
(same thread, FIFO socket), and returns that carry 0 because their call was too deep
for the thread's id stack (`SendDeepReturn`).

**EventPipe** is the path of an event. Per thread: `sidecar` (`g_tls_refs`),
`own` (the ref that `_log_obj_ret` and `log_jni_lookup_deferred` mint outside
the sidecar), `ids` (`tls_call_ids`), `frames` (the logged hooks the thread is
inside of) and the event it prepares. Shared: the JVM's global-ref table
(`live`), `g_call_id_counter`, `g_consumer_ready`, the socket; and the reader's
state, with PendingTable as an instance. The hook families (`CallMethodHook`,
..., `RegisterNativesHook`) record what the hook bodies differ in: how many refs
a call event may push, whether app code runs inside, and how a return carries
its value. Steps of a hook thread are separate wherever another thread could
come in between: the readiness test and the `NewGlobalRef` after it, the gate
with the id it takes, the own ref, the send. The reader's steps are attach,
publish, read, one ref rendered, dispatch. `owes` in a datagram is a ghost: the
id that the comment on the id stack (`bridge.c:130-149`) promises. EventPipe
implements PendingCalls too (`ImplementsPending`): a call is sent there when the
reader dispatches it or the pipe drops it, and closed when the reader dispatches its
return; a return that is dropped leaves its call open. What PendingCalls lets
the reader meet is therefore what the pipe delivers.
**MCEventPipe** chooses families and symmetry for TLC.

**RefLedger** is the abstract specification of reference ownership: a ref goes
from a thread to the pipe to the reader, all refs of a thread at once, and only
the owner deletes it. EventPipe implements it under the mapping `OwnerOf`.

**MutexSpec** is what `pthread_mutex_lock` and `unlock` promise, and **JlMutex**
the three-state futex mutex that stands in for it (and, through the macros of
`jl_libc.h`, for both sides of the rwlock). One step is one atomic operation or
one futex call; a futex wait may return without a wake. JlMutex implements
MutexSpec with `holders <- Owners`. **JlOnce** is `jl_once` at the same grain.
**MCJlLock** runs the two side by side, one moving in a behaviour.

**Lifecycle** keeps, per thread, the steps that are left of the calls it is
inside of (`todo`), so the call tree of `init_once_handler`,
`try_install_hooks` and `bridge_activate_go` unfolds as in the code and threads
interleave between its steps. A section under `g_init_lock`, `g_install_lock` or
`g_vm_hook_lock` is one step, which JlMutex justifies, and `pthread_once` is
"fresh, running, done" with waiting callers, which JlOnce justifies. The
reader's thread is an actor too, because its attachment enters the library
again through the library's own `JNI_GetCreatedJavaVMs`. `preloaded` is chosen
initially: the constructor initializes itself before the program runs, or (when
injected into a running VM) on a worker beside it.

**ConfigGate** is `cfg_lookup`. A pointer is a string literal and `NameOf` what it
spells: several literals may spell one name. `cache[s]` is a slot with the
pointer last seen (`key`), the copied name (`owned`) and the answer. A lookup is
one step where the lock is held and two where it is dropped for the Go query:
`Miss` (or `Overflow`, when no slot is left) and later `Settle` (or `Direct`),
between which other threads fill slots. `GoAnswer` is the pair of exports of
`config.go`.

**IdCache** is one of the two caches of `hook_common.c`, which are the same code
over methods and over fields. The table is written and copied field by field
under the rwlock, so a put is three steps (`PutName`, `PutClazz`, `PutSig`) and a
get three (`BeginGet`, `CopySig`, `CopyClazz`); the class is optional, and an old
entry keeps its own. `stored` is a ghost: what the puts of an id amount to.

**RangeSet** is `rangeset.c` with its callers: the three interposed loader
entries (`Load`, where the loader's own one may first take the package name from
the path), `mprotect`, the Go bridge's start and the first hook. The steps of
`c_seed_exec_ranges_from_maps` are separate wherever it releases a lock: the pid
check, clearing, forgetting the name, refreshing it, the snapshot, each library,
the fallback to the maps, the mark. `Segment` lays libraries side by side so that
ranges touch and merge. `due` and `taken` are ghosts: what finished seeds walked,
and the names the process has had. `Specialize` renames the process, `Hide` takes
the payload out of the loader's sight, `Fork` leaves a child with one thread and
everything inherited.

**JlAlloc** counts memory in units, a header taking one. `header[a].mlen` is, as
in the code, the length of a mapping, 0, or the link of a free list, whatever the
block is at the moment. What is done under the lock is one step; writing the
header after the unlock (`WriteHeader`) and reading it before the lock (`Unmap`,
`Push`) are steps of their own.

**HookScopes** is one thread's stack of app frames and hooks. A hook is the
sequence of operations its code performs: raise and lower the counters, a JNI
call of the logger's own (`jni`, or `fail` if it throws), `clear`, `throw`, `delete`,
`mint` (the `NewGlobalRef` of `event_pipe_defer_render_push` and `_log_obj_ret`), the
original function, and `render`, where `toString` or `getName` of the app runs. A
helper's name in that sequence is replaced by one of the helper's own sequences
when it is reached, after its look at the state (`vis_safe_to_call`). `sections`,
`entitled` and `refusals` are ghosts: the critical sections the app is in, whether
its own calls left an exception, and the sections the JVM refused. The code guards
its JNI calls in two ways, and `CallsWhenAllowed` keeps them apart. Rendering asks
`vis_safe_to_call` first: no critical section, no exception pending. Deferring asks
nothing: `NewGlobalRef` is called after a `Throw`, after a lookup that failed, in
`ExceptionCheck`, and in `DeleteLocalRef`, `DeleteGlobalRef` and `PopLocalFrame`, which
may be called with an exception pending. What holds of it is that no critical section
is open and that the exception is then the app's own. JNI does not list
`NewGlobalRef` among the functions that may be called with an exception pending, so
this is a hazard under CheckJNI that no property denies.

**WireCodec** takes one event from the hook's strings through the cut of
`append_str_max`, the reader's substitution and its decoding. Texts are sequences
of characters and a character is the sequence of its bytes, so that cuts can fall
inside one; the escape, cut, split and substitution functions work on bytes as
the code does, one byte after the other. An event comes by one of six routes. Five use
the encoders that escape (`vis_encode_typed_args` and its like) and placeholders. The
sixth, `embedded`, is that of `NewStringUTF`, `GetStringUTFChars`, `ThrowNew`,
`ExceptionClear`, `FatalError` and `DefineClass`, which frame their arguments by hand
(`EmbeddedRecord`): they clip a text at 200 to 500 bytes wherever that falls and do
not escape it. For this route `FittingIsShown` and `CutKeepsFraming` have a premise
(`Carried`): the text is not clipped and holds no framing byte. Without it they are
false, which the run `embedded_text` shows. **Signatures** has the two walks over a cached signature
that may be cut anywhere: `extract_va_args` (whose `extract_jvalue_args` twin
differs in how it reads a value, not in how it advances) and
`vis_encode_typed_args`.

What a cut may show is the delicate part of WireCodec. An array counts the elements
it leaves out in one more item, `+N`. A cut behind the separator of this item, or
behind its sign, shows one more element than the array has, empty or a plus sign
(`BeginsArray` allows both; the run has a limit for each).

**MCHookPath** composes these seven for TLC. They share no variable with one
another, since each of them works for its caller under its own lock or on its own
thread; so one of them moves in a behaviour (`part`) and the others stand still.

**PendingProofs**, **JlLockProofs** (the mutex and `jl_once`), **LifecycleProofs**,
**EventPipeProofs** (who owns a ref), **EventCallsProofs** (call ids, on top of the
former), **HookPathProofs** (config gate, id caches, range set, allocator and
signatures, one part each), **WireProofs** (wire format, on top of the former) and
**HookScopesProofs** hold the theorems.

## Runs

| Run | Shows | Bounds |
|---|---|---|
| `pending` | the table is bounded (`BoundedPending`), its counter exact (`LenExact`), no call lost or printed twice (`CallsAccounted`), no pairing missed (`AloneOnlyIfUnpaired`), recent calls only leave with their return (`RecentCallsKept`) | `Window = 1`, 5 ids: the trigger is 2, so evictions happen twice in one behaviour, with early, late and absent returns |
| `event_refs` | `OwnRefsOnly` when nothing is filtered | 2 threads, 3 handles, sidecar of 2, socket of 1: sidecar full, ref table full, socket full and handle reuse all occur; the reader may fail to attach |
| `event_calls` | `PairedByInvocation`, `EachCallOnePlace`, `ImplementsPending` with filtering | 2 threads, 3 ids, nesting 2 with an id stack of 1, window 1: calls beyond the stack, evictions and drops occur |
| `event_fail` | type invariant, ownership (`EveryRefHasOneOwner`) and `RefsReachARenderer` for every hook family, with filtering and a reader that fails to attach or dies. `RefsReachARenderer` is about the reader whose attach failed; refs that are queued when a reader dies, or minted after the readiness test, reach nobody, and no property denies it | 1 thread, 2 handles, sidecar and socket of 1, nesting 2 |
| `event_filtered` | violation: a filtered event leaves its refs to the next one | 1 thread |
| `event_live` | `ImplementsLedger` (ownership between two threads and the reader), `EveryRefReleased`, `EveryCallArrives` | 2 threads, 2 handles, no symmetry; nothing is filtered and no read fails, since a filtered event leaves its refs with an idle thread |
| `jl_mutex` | `MutualExclusion`, `NoLostWakeup`, `ImplementsMutex`, `WaitingEndsInLock` | 4 threads: one that unlocks, one that sleeps, one that marks, one that barges in |
| `jl_once` | `InitializedOnce`, `PassedAfterInit`, `EveryCallPasses` | 3 threads: one initializes, two wait |
| `lifecycle` | `OriginalsAreOriginal`, `HooksAfterActivation`, `PipeHasReader`, `EveryEntryReturns` | constructor or worker, 2 entering threads, the reader, 3 entries; any part may fail |
| `lifecycle_race` | violation: the reader is given up for good although the pipe opens | 1 entering thread, nothing fails |
| `hook_path` | the seven parts of MCHookPath, see below | see below |
| `field_receiver` | violation: the receiver of a field access never reaches the log | as `hook_path` |
| `embedded_text` | violation: text with a framing byte in a record framed by hand, neither clipped nor cut, is shown broken | as `field_receiver` |

The parts of `hook_path`, with the states each of them adds:

| Part | Shows | Bounds |
|---|---|---|
| ConfigGate (7 thousand) | `AnswersBelong`, `CachedOnce`, `QueriesDieDown` | 2 threads; 4 literals of 3 names; 2 slots, so names collide and the third finds the table full; 3 configurations |
| IdCache (190 thousand) | `InfoIsLatest` | 2 threads, 3 ids on 2 slots, 2 texts: collisions, a full table, puts with and without class, a put against a get |
| RangeSet (1 million) | `LoadedIsLogged`, `OnlyPackageLogged` | 2 threads; a library the loader lists, a neighbour only in the maps, one of another package, the payload; 2 ranges, so merges and a full table occur; a process and its forked child |
| JlAlloc (20 thousand) | `MemoryHasOneOwner` | 2 threads, 2 classes and one large size, arenas that hold one or two blocks, 10 units of memory |
| HookScopes (350 thousand) | `RenderingIsSilent`, `ExceptionsKept`, `CallsWhenAllowed`, `SectionsCounted` | 3 app frames: app, called or rendered, and once more inside; 2 critical sections; up to 2 elements or arguments |
| WireCodec (160 thousand) | `FittingIsShown`, `CutKeepsFraming` | lists of up to 2 arguments of all kinds, with framing bytes, the escape byte, the marker and two-byte characters; every cut from 2 to 16 bytes; records framed by hand with a clip at 4 bytes, so some texts are clipped and some not; 0, 4 or 8 refs ahead, so the slot byte is once the escape byte (5) and once there is no room |
| Signatures (9 thousand) | `ParsersAgree` | up to 3 parameters of 5 types, every cut, room for 2 arguments |

Every bound is a CONSTANT or a guard that names it (`MaxId`, `MaxDepth`,
`MaxEntries`, `IdsSuffice`). They are small because the properties relate two
or three things at a time: two threads and a handle suffice for a double owner,
one nesting level beyond the stack for a wrong pop, one eviction for a lost
call. What the proofs establish holds without bounds.

`CHECK_DEADLOCK FALSE` is set where the system may stop: an app that makes no
more calls while the reader waits in `read`, or ids and entries at their bound.
JlMutex and JlOnce check deadlock. In MCHookPath the allocator stops when the
memory is used up and both codecs when they are done.

## Fairness

- EventPipe: weak fairness of each thread's hook steps, because a hook has no
  blocking operation (the send is non-blocking), and of the reader, because its
  loop has none but `read`. Nothing is assumed of the app: it need not call, and
  a called method need not return. `ReaderFail` is never forced.
- JlMutex: a thread inside `lock` or `unlock` that can run does, and critical
  sections end, as those of the bridge do: they hold table look-ups, copies and
  one non-blocking send. Nothing is assumed of `FutexReturn`: a sleeper may not
  count on a signal. Nothing promises that a given thread gets the lock; the
  futex mutex is not fair, and the property is that some thread does.
- JlOnce: a thread inside that can run does, and the init routine returns.
- ConfigGate: a query to Go returns (`Settle`, `Direct`): the two exports look up
  a map and block on nothing. That a hook runs at all is the app's choice.
- Lifecycle: threads run on, except while they wait for the activation.
  `VmStarts`, the entries and the destructor are never forced.

## Proofs

TLAPS proves the following for every value of the constants that meets the named
assumptions (any window and number of ids, any number of threads, entries, handles,
slots and libraries, any capacities).

**PendingProofs** (`TypeCorrect`, `CounterExact`, `TableBounded`, `NoCallLost`,
`NoPairingMissed`, `RecentKept`). The inductive invariant joins the
properties with what the driver guarantees: stored calls were received, received
calls are open or closed, a return that was printed alone is closed or carries 0, a received
call that is still open is stored or evicted, and no stored id exceeds
`pendingNewest`. The bound needs `pendingNewest` to be the greatest id stored: an
eviction then leaves ids in `newest - Window .. newest` only, of which there are
`Window + 1 <= 2 * Window`. The assumptions are `Window \in Nat \ {0}` and
`MaxId \in Nat`.

**JlLockProofs**, the mutex (`Exclusion`, `Refinement`, `WakeupsKept`). Mutual
exclusion alone is not inductive, since it says nothing of the word.
`WordTellsOwner` adds that the word is 0 exactly when no thread holds the lock,
where a thread between the decrement and the store of 0 still counts as holder.
Exclusion follows; the refinement maps each step to `Acquire`, `Release` or a
stutter; the lost-wakeup property is proved beside them.

`jl_once` (`OnlyOnce`, `Initialized`, `WakeToCome`): `WordTellsProgress`
does the same for `o->state`: 0 before, 1 while exactly one thread initializes,
2 when it is done.

**LifecycleProofs** (`TypeCorrect`, `OriginalsKept`, `HooksWait`, `PipeRead`),
from `ActorsAssumption`. A saved table is original because the flag and the table
change in one critical section, and the invocation interface is saved before it
is first published (`TablesInv`).

The other two are about steps that several actors have still to take, in any
interleaving, so their invariants speak of the sequences of steps left.
`OrderInv`, for `HooksAfterActivation`: as long as the activation has not ended,
every step that patches a table has, in the same actor, an activation before it
(`Covered`); as long as the config is not loaded or the reader not asked for,
every end of the activation has that step before it. A call from within a step
(`Calls`) keeps this because what it puts in front is itself in order
(`CalledInOrder`, `CallsCovered`). `PipeInv`, for `PipeHasReader`: `bridge_init`
is left to be called at most once by at most one actor, and only while the pipe
is not set up; and a preloaded library is either `Early`, where the constructor
runs alone, or `Late`, where the pipe is what it will be.

**EventPipeProofs** (`HooksInvariant`, `RefsInvariant`, `RefsHaveOneOwner`,
`RefsAreRendered`, `PipeImplementsLedger`, `SidecarsHoldOwnRefs`), from
`ConstantsAssumption` and `FamiliesAssumption`: finitely many threads, capacities of
at least one for the sidecar and the socket, any for the id stack. The proofs go in
two layers. `HookInv` types the hooks' side and adds what their control flow
promises: an event is deferred, and a sidecar that is not empty stands, only if the
consumer was found ready, and a call that is being sent has its id on its frame.
`RefInv` adds the ownership. `EveryRefHasOneOwner` alone is not inductive, since it
does not say that one event carries a ref once (`EachOnce`), and a sidecar that holds
a ref twice would hand two owners out at the send; nor that there is no ref before
there is a reader with a `JNIEnv` (`RendererFirst`), which is what
`RefsReachARenderer` needs. Every action is first shown to be one of a handful of
moves (`RefMove`: a ref is minted, sent, received, expanded, or dropped by its
thread), and only the moves are shown to keep the owners; the refinement of RefLedger
uses the same moves, each of which is one step of the ledger or a stutter.
`SidecarsHoldOwnRefs` has the extra hypothesis that the gate filters nothing
(`FALSE \notin Gates`): with filtering the property is false, which is disagreement 1
below.

**EventCallsProofs** (`PairsInvariant`, `ReturnsCarryTheirCall`, `CallsInvariant`,
`CallsAreInOnePlace`, `TypesInvariant`, `ReturnsInvariant`, `PipeImplementsDriver`,
`PipeTableBounded`, `PipePairsReturns`, `PipeKeepsRecent`), from the same assumptions. `PairInv`: for
every frame whose call has its id, the id is on `tls_call_ids` at the frame's rank
among the logged ones, and 0 counts for it there once the rank is beyond the cap.
This is the comment on the stack in the code made precise, and it has to speak of
all frames, not of the top one: a return uncovers the frame below. `CallInv` counts,
for every id, the places a call may be in (not sent yet, in the socket, with the
reader, waiting, printed, dropped); the sum is 1 for an issued id and 0 for any
other. That pairing survives the wait table is the same sum with the table's
operations from PendingTable. `ReturnInv` speaks of returns: a frame's id belongs to
one invocation only, a return on its way is the only one of its call and comes after
it in the socket, and no thread is inside that call any more; so an id the reader has
seen a return of will not have another. With the three invariants each step of the
pipe is a step of PendingCalls or a stutter, and the theorems of PendingProofs carry
over to the pipe by instantiation: the bound of the table, pairing, and the window
hold in the presence of every thread, filter and failure that EventPipe has.

**HookPathProofs** has one part for each component.
- Config gate (`AnswersRight`, `NamesOnce`), from `GateAssumption`: a positive
  table size, every pointer has a name and every name a start in the table. `GateInv`
  adds, for `AnswersBelong`, that a filled slot holds the right answer of the name it
  owns and that its key spells this name; for `CachedOnce`, that a query in flight
  waits at a slot before which every slot of its probe sequence is filled with another
  name. That last part survives the steps of other threads because a filled slot keeps
  its name for ever (`Kept`), and it is what makes the slot free for its name when
  `Settle` fills it.
- Id caches (`IdInvariant`, `CopiesAreWhole`), from `IdAssumption`: a positive table
  size and any hash. `IdInv` joins the lock and the threads inside it (`IdLock`), that
  an entry in use is where probing for its id ends (`Reachable`), that an id without an
  entry was never stored, that every entry but the writer's agrees with the last put
  (`FreshEntries`), and how far the writer and each reader are in theirs
  (`PutProgress`, `CopyProgress`). A reader's half copy stays right because it holds the
  lock shared, so no put of any id can be under way.
- Range set (`RangeInvariant`, `OwnLibrariesOnly`, `SeededStaysLogged`), from
  `RangeAssumption`: libraries that do not overlap, whatever the bounds and paths.
  The invariant has what the properties need of the loaders' half-done work: nothing
  in the first process clears the table (`NeverCleared`), a name in force was taken
  (`NamesTaken`), every address of the table is in a library under a name that was
  taken (`RangesOwned`, which merging and extending of ranges must keep), and what a
  seed has visited is in the table unless the table is full (`Visited`, `DueKept`).
- Allocator (`AllocInvariant`, `EveryByteHasOneOwner`), from `AllocAssumption`: any
  set of sizes, classes that fit an arena, any number of threads. The free lists are
  threaded through the blocks themselves, so "no block is in two lists" cannot be
  said by walking them without recursion. `AllocInv` says that there is a map of
  memory (`own`: address to block; `kind` and `who`: in whose hands a block is) that
  agrees with headers, lists, arena and threads, where a block of a list has one
  predecessor at most and the head has none. Each step is proved by giving the
  map after it. `FreeBlocks`, which the property speaks of, follows the links from
  the head; that this is well defined and meets only blocks the map gives to the list
  is an induction over the naturals, put as one over a set (`SetInduction`, from
  WellFoundedInduction), since the library's own takes a predicate.
- Signatures (`SignatureInvariant`, `ParsersStayTogether`), from
  `SignatureAssumption`: every parameter has the form the JVM gives a descriptor,
  brackets and then a primitive or a class name up to the first `;`. That two parsers
  that skip characters by different rules agree is a statement about where they
  stand. `SigInv` says that each of them is always where a descriptor begins, or at
  the end, that it has read the items of the descriptors before it, and that the cut
  of the cache fell where the string says. Where descriptors begin is what
  `FlattenSeq` computes, a recursion over the sequence, which `FlattenLayout` turns
  into start positions by `SetInduction`; `ItemOfDescriptor` then follows `Skip`
  through one descriptor, whole or cut.

**WireProofs** (`WhatFitsIsShown`, `CutsKeepFraming`), from `WireAssumption`: what
`IsText`, `IsValue` and `IsArray` say of the values, and room for two bytes at
least. "Any text" is meant of the encoders that escape; of arguments framed by hand
the theorems speak if `Carried` holds, and then such a record is the escaped one
(`EmbeddedArguments`), so that the rest of the proof is one for both. The invariant, `WireInv`, only says that each stage has applied its function
to the strings; the work is in what these functions compute, byte by byte, over
strings of any length. The argument is about cuts, `Cut(s, p, v)` for `s = p \o v`.
`CutToFacts`: the cut of `append_str_max` is `Safe`, it leaves no escape byte and no
marker behind and falls between two characters. A safe cut of a record list is then
followed inwards, one framing level after the other: `DecodeCut` (the reader splits
the list into the same records, and of the broken one gets what is behind its sign,
or nothing), `ArrayCut` (the same for the elements of an array), `EscapeCut` (a safe
cut of an escaped text is the escape of a beginning of the text, since escaping goes
character by character, `EscapeCharacter`). `StandsString` moves a safe cut of a
string with placeholders to one of the string with what they stand for. Each of the
reader's parsers is a function over a prefix of its input; lemmas such as
`UnescapedSnoc` and `SplitSnoc` say what one more byte does, and `SnocInduction`
makes inductions of them. The lemmas about least elements, induction and flattened
sequences are those of HookPathProofs.

**HookScopesProofs** (`ScopeInvariant`, `RenderedCodeIsSilent`,
`ExceptionsAreKept`, `SectionsAreCounted`, `OwnCallsAreAllowed`). No assumption: the
depth of nesting and the number of open sections are any. A hook is the sequence of
operations it has left, and the state it was called in is that of the code below it,
so the invariant speaks of what is *left*. A label is a level of `g_in_hook`, what is
known of exceptions and what is known of critical sections; `Finishes(ops, l, b)`
says that the operations lead from label `l` to one with which a hook called at level
`b` may return. The lemmas give every family of hooks, and every helper it may
expand into, its labels. `ScopeInv` then says that the stack is a chain of frames with
their levels, that the top one can finish from the state as it is, and that each one
below can finish from the state the one above it will leave. A step consumes an
operation, expands a helper in place, pushes app code or pops; the four properties
are read off the label. `OwnCallsAreAllowed` says as much as its property: nothing
rendered with an exception pending, refs minted with none but the app's own.

Together these state every safety property and all three refinements that the runs
check. What the recursive functions of Signatures and WireCodec compute is proved by
induction over a set instead of a predicate, for the reason given with the allocator.
Only model-checked is all liveness, `EveryRefReleased`, `EveryCallArrives`,
`QueriesDieDown`, `WaitingEndsInLock`, `EveryCallPasses` and `EveryEntryReturns`:
fairness and `ENABLED` are beyond the prover. Type correctness of the pending table
and of the lifecycle is proved and not run; JlMutex, JlOnce, ConfigGate, IdCache,
RangeSet, JlAlloc and HookScopes have theirs inside their inductive invariants.

## Disagreements found

1. `event_filtered`: refs are put in the sidecar before the config gate is
   asked, and a filtered event leaves them there. They take slots of the
   thread's next event, and travel with it, though `hook_logging.c:50-51` speaks
   of refs "already in this event". No ref leaks (`EveryRefHasOneOwner` holds in
   `event_fail`, where events are filtered), but the next event loses slots.
2. `lifecycle_race`: `g_initialized` is set before the work is done, so an entry
   that comes while the worker is before `bridge_init` activates the Go side
   without a pipe. `eventReaderOnce` is used up and no reader ever starts,
   although the pipe opens and hooks write to it until it is full. In a
   preloaded library this cannot happen (`PipeHasReader`).
3. `field_receiver`: an object that is the receiver of a field access is deferred
   (kind 0xFE) and rendered, but the reader expands only the kind of the value;
   `decodeSingleReceiver` answers null for 0xFE. `src/README.md:229` shows
   `[GetObjectField] this=ApplicationInfo{...}`.
4. `embedded_text`: six hooks put text of the application between framing bytes
   without escaping it (`hooks.c:851-857`, `885`, `1001`, `1068-1084`, `1105`,
   `1160`). `go/value.go:248-253` says of values embedded in the framed encoding that
   they "may themselves contain those framing bytes" and that the C encoder escapes
   them. A byte 0x02 in a string given to `NewStringUTF` ends the record there, and a
   0x1A may take in another object's chunk.

Met while modelling, and kept out of the properties or bounded by them:

- An eviction also removes calls whose method still runs, and the late return is
  then a line of its own; `event_pipe.go:477` says "Return was dropped/never
  arrived".
- The loader's entry sets the package name a moment after it saw none, and
  `goBridgeInit` without looking: a name found meanwhile is overwritten. A process
  named `pkg:service` takes that as its package name, which no path contains.
- In a forked child two threads may both find a foreign pid; the second clears
  what the first seeded. Ranges inherited from the parent stay until a library is
  loaded. `rangeset.c:50-56` calls this path a guard for the future.
- A `String[]` whose last element reads `+5` loses it to the overflow marker; an
  object array's element `null` and an empty element read as none.
- In-thread fallback under a full sidecar: the raw strings go out under the
  deferred kind, so the reader takes them for a chunk and shows nothing; and a
  byte 0x1A in them may be replaced by another object's chunk.
- `Get...Critical` counts a section also when it returns NULL (`SectionsCounted`
  allows for exactly these, and so does not catch them): rendering on the thread is
  off from then on.
- `NewGlobalRef` for an object to be rendered is called with the app's exception
  pending (see HookScopes above). A refused event deletes the refs of its sidecar on
  the spot (`event_pipe.c:139`), also those that a filtered event left there, and this
  may be inside a critical section.

## What is abstracted, and what is not modelled

In EventPipe:

- Only logged hooks appear: in-range caller, logging ready, not re-entrant. A
  hook that is not logged changes none of the state. Logging is ready whenever a
  hook runs (`HooksAfterActivation`).
- The pipe is open. When `event_pipe_init` failed every send fails, which is the
  socket that is always full.
- The gate answers per function name and the answer is cached, so a call and its
  return get the same; the choice is made at the call.
- The bytes of a datagram. A record cannot overflow its buffer: seven strings of
  at most 512 bytes, their lengths, the header and the refs are below 8192 bytes,
  so `append_str` never fails and the paths for it are left out.
- A refused send and the deletion of its refs are one step: the refs are the
  thread's own until then. The drop counter is a statistic.
- Rendering in place (sidecar full or no consumer) calls JNI under the
  re-entrancy guard and changes none of the state. `FatalError` ends the process.
- The reader's branches for a nil `consumerEnv` with a ref in hand cannot be
  reached (`RefsReachARenderer`).

In Lifecycle: the PID check of `init_once_handler` after a fork (the library is
injected after it, as the code notes) and the search for GOT slots in libdl.
`bridge_cleanup_with_env` and `restore_jni_hooks` have no caller.

In ConfigGate: `strdup` succeeds (a slot without a copy is matched by pointer
only). In IdCache: ids are not NULL and a put has a signature, as the early return
demands; name and signature come from one call, so one text stands for both; a
text is shorter than its buffer, and what a longer one does is in Signatures. In
RangeSet: a library is one region; `dl_iterate_phdr` and the maps are read library
by library in address order, and a library is not unloaded; the properties are
about the first process. `c_init_range_tracking` is reached only through
`goInitOnce`, an export that nothing calls, and is left out. In JlAlloc: the
kernel's choice of an address is the lowest that fits; sizes of 0 are 1. In
HookScopes: `GetStringUTFChars` does not throw; the primitives of a family that
differ only in type are one; there is no sidecar, so the emission of an event (`log`)
counts as no JNI call, although a refused one calls `DeleteGlobalRef`, and `mint` may
happen where the code finds no reader ready. In WireCodec:
`SetObjectArrayElement`, whose string mixes escaped records and a placeholder, is left
out, and the count of `DefineClass` and other numbers are not clipped; texts hold no `/` and are not the word
null, and no element of an array is empty or begins with `+` (the reader takes `+5`
for a count); the header, and the standalone names of an event, are not part of it.

Not modelled: the logger, colours and formatting (layout only), `jnilogcfg` (a
terminal program that edits the config file and shares no state), parsing of the
configuration file and its regular expressions (pure functions), and the
freestanding string, formatting, I/O and symbol code (sequential; the
symbolizer's table is rebuilt and read under one lock).

## Plan

*Done*: PendingTable and PendingCalls; EventPipe with RefLedger; JlMutex with
MutexSpec; JlOnce; Lifecycle; ConfigGate; IdCache; RangeSet; JlAlloc; HookScopes;
WireCodec; Signatures.

*Proved*: every safety property of these, and all three refinements (see Proofs).

Left to TLC: the leads-to properties, for the reasons above.
