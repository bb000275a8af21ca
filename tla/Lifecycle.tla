------------------------------ MODULE Lifecycle ------------------------------
(***************************************************************************)
(* How the library comes up (main.c, bridge.c, hooks.c, init.go,            *)
(* event_pipe.go): the constructor or its detached worker, the JNI entry    *)
(* points that the runtime and the application call at any time, the one    *)
(* activation of the Go side, and the two patched function tables.          *)
(*                                                                         *)
(* A section under g_init_lock, g_install_lock or g_vm_hook_lock is one     *)
(* step (JlMutex); pthread_once is its promise (JlOnce): one thread runs    *)
(* the activation, the others wait.                                        *)
(***************************************************************************)
EXTENDS Naturals, Sequences

CONSTANTS
  Threads,        \* threads that call the entry points
  Worker,         \* runs the constructor: on a thread of its own when injected
  Reader,         \* the thread of the reader goroutine
  PartsMayFail,   \* may pthread_create, socketpair, the symbol lookup or mprotect fail
  MaxEntries      \* bound of the model: entry points called

ASSUME ActorsAssumption ==
  /\ Worker \notin Threads
  /\ Reader \notin Threads \cup {Worker}
  /\ PartsMayFail \in BOOLEAN
  /\ MaxEntries \in Nat

Actors == Threads \cup {Worker, Reader}

VARIABLES
  preloaded,    \* LD_PRELOAD names the library: the constructor itself initializes
  todo,         \* actor -> the steps left of the calls it is inside of
  entries,      \* entry points called so far
  vmUp,         \* a Java VM exists
  initialized,  \* g_initialized
  original,     \* original_JNI_GetCreatedJavaVMs is resolved
  pipe,         \* the event pipe: "unset", "open", or "failed"
  goOnce,       \* g_go_bridge_once
  ready,        \* loggingReady, after the config was loaded
  reader,       \* startEventPipeReader: "not asked", "started", or "disabled"
  jniTable,     \* the JNI function table in use
  jniSaved,     \* g_saved_jni_table, what the hooks call
  vmTable,      \* the invocation interface in use
  vmSaved       \* g_original_vm_table, what hooked_vm_GetEnv calls

tables == <<jniTable, jniSaved, vmTable, vmSaved>>
goSide == <<goOnce, ready, reader>>
vars == <<preloaded, todo, entries, vmUp, initialized, original, pipe, goSide, tables>>

Steps == {"init", "resolve", "pipe", "created", "found", "install", "activate",
          "load", "start", "activated", "patch", "publish"}
Installed == {"original", "hooked"}

TypeOK ==
  /\ preloaded \in BOOLEAN
  /\ todo \in [Actors -> Seq(Steps)]
  /\ entries \in 0 .. MaxEntries
  /\ {vmUp, initialized, original, ready} \subseteq BOOLEAN
  /\ pipe \in {"unset", "open", "failed"}
  /\ goOnce \in {"fresh", "running", "done"}
  /\ reader \in {"not asked", "started", "disabled"}
  /\ jniTable \in Installed /\ vmTable \in Installed
  /\ jniSaved \in Installed \cup {"none"} /\ vmSaved \in Installed \cup {"none"}

\* library_constructor: initializes by itself or starts a worker for it; without
\* a worker the entry points initialize.  Injection finds a running VM.
Init ==
  /\ preloaded \in BOOLEAN
  /\ \E worker \in (IF PartsMayFail /\ ~preloaded THEN BOOLEAN ELSE {TRUE}) :
       todo = [a \in Actors |-> IF a = Worker /\ worker THEN <<"init">> ELSE <<>>]
  /\ entries = 0
  /\ vmUp = ~preloaded
  /\ initialized = FALSE
  /\ original = FALSE
  /\ pipe = "unset"
  /\ goOnce = "fresh"
  /\ ready = FALSE
  /\ reader = "not asked"
  /\ jniTable = "original" /\ vmTable = "original"
  /\ jniSaved = "none" /\ vmSaved = "none"

-----------------------------------------------------------------------------
\* The next step of actor a; the calls it makes come before what is left.
At(a, step) == todo[a] # <<>> /\ Head(todo[a]) = step
Calls(a, steps) == todo' = [todo EXCEPT ![a] = steps \o Tail(@)]
Done(a) == Calls(a, <<>>)

\* A call that may fail only if PartsMayFail.
Outcomes == IF PartsMayFail THEN BOOLEAN ELSE {TRUE}

\* The constructor of a preloaded library ends before the program starts.
ProgramRuns == preloaded => todo[Worker] = <<>>

VmStarts ==
  /\ ProgramRuns
  /\ ~vmUp
  /\ vmUp' = TRUE
  /\ UNCHANGED <<preloaded, todo, entries, initialized, original, pipe, goSide, tables>>

Enter(t, steps) ==
  /\ ProgramRuns
  /\ vmUp
  /\ todo[t] = <<>>
  /\ entries < MaxEntries
  /\ entries' = entries + 1
  /\ todo' = [todo EXCEPT ![t] = steps]
  /\ UNCHANGED <<preloaded, vmUp, initialized, original, pipe, goSide, tables>>

\* The three ways in: JNI_OnLoad, JNI_GetCreatedJavaVMs, and the GetEnv of the
\* patched invocation interface.
OnLoad(t) == Enter(t, <<"init", "activate", "install">>)
GetCreatedJavaVMs(t) == Enter(t, <<"init", "found">>)
GetEnv(t) == vmTable = "hooked" /\ Enter(t, <<"activate", "patch">>)

\* init_once_handler: the first caller initializes, the others go on at once.
InitOnce(a) ==
  /\ At(a, "init")
  /\ initialized' = TRUE
  /\ IF initialized THEN Done(a) ELSE Calls(a, <<"resolve", "pipe", "created">>)
  /\ UNCHANGED <<preloaded, entries, vmUp, original, pipe, goSide, tables>>

\* elf_find_sym in libart.so: without it the library is in degraded mode.
Resolve(a) ==
  /\ At(a, "resolve")
  /\ original' \in Outcomes
  /\ Done(a)
  /\ UNCHANGED <<preloaded, entries, vmUp, initialized, pipe, goSide, tables>>

\* bridge_init: event_pipe_init.
BridgeInit(a) ==
  /\ At(a, "pipe")
  /\ \E ok \in Outcomes : pipe' = IF ok THEN "open" ELSE "failed"
  /\ Done(a)
  /\ UNCHANGED <<preloaded, entries, vmUp, initialized, original, goSide, tables>>

\* try_install_hooks_from_created_vms, and JNI_GetCreatedJavaVMs after the
\* initialization: install if the original function finds a VM.
FindVm(a) ==
  /\ At(a, "created") \/ At(a, "found")
  /\ Calls(a, IF original /\ vmUp THEN <<"install">> ELSE <<>>)
  /\ UNCHANGED <<preloaded, entries, vmUp, initialized, original, pipe, goSide, tables>>

\* try_install_hooks: bridge_activate_go, install_jni_hooks on this thread's
\* env (or on one attached for it), vis_set_vm, install_vm_hooks.
TryInstallHooks(a) ==
  /\ At(a, "install")
  /\ Calls(a, <<"activate", "patch", "publish">>)
  /\ UNCHANGED <<preloaded, entries, vmUp, initialized, original, pipe, goSide, tables>>

\* Wrong variant: whoever finds the activation running goes on.
ActivateGoUnlessFresh(a) ==
  /\ At(a, "activate")
  /\ goOnce' = IF goOnce = "fresh" THEN "running" ELSE goOnce
  /\ IF goOnce = "fresh" THEN Calls(a, <<"load", "start", "activated">>) ELSE Done(a)
  /\ UNCHANGED <<preloaded, entries, vmUp, initialized, original, pipe, ready, reader, tables>>

\* bridge_activate_go: pthread_once around goBridgeInit.
ActivateGo(a) ==
  /\ At(a, "activate")
  /\ \/ goOnce = "fresh" /\ goOnce' = "running" /\ Calls(a, <<"load", "start", "activated">>)
     \/ goOnce = "done" /\ UNCHANGED goOnce /\ Done(a)
  /\ UNCHANGED <<preloaded, entries, vmUp, initialized, original, pipe, ready, reader, tables>>

\* goBridgeInit up to goSetLoggingReady(1).
GoBridgeInit(a) ==
  /\ At(a, "load")
  /\ ready' = TRUE
  /\ Done(a)
  /\ UNCHANGED <<preloaded, entries, vmUp, initialized, original, pipe, goOnce, reader, tables>>

\* Wrong variant: a failed socketpair is not noticed.
StartEventPipeReaderAlways(a) ==
  /\ At(a, "start")
  /\ reader' = "started"
  /\ todo' = [todo EXCEPT ![a] = Tail(@), ![Reader] = <<"init", "found">>]
  /\ UNCHANGED <<preloaded, entries, vmUp, initialized, original, pipe, goOnce, ready, tables>>

\* startEventPipeReader, once for ever.  The reader's own thread begins with
\* JNI_GetCreatedJavaVMs, to attach.
StartEventPipeReader(a) ==
  /\ At(a, "start")
  /\ IF pipe = "open"
       THEN /\ reader' = "started"
            /\ todo' = [todo EXCEPT ![a] = Tail(@), ![Reader] = <<"init", "found">>]
       ELSE /\ reader' = "disabled"
            /\ Done(a)
  /\ UNCHANGED <<preloaded, entries, vmUp, initialized, original, pipe, goOnce, ready, tables>>

\* Wrong variant: the activation waits until the reader has attached.
ActivatedAfterReader(a) ==
  /\ At(a, "activated")
  /\ todo[Reader] = <<>>
  /\ goOnce' = "done"
  /\ Done(a)
  /\ UNCHANGED <<preloaded, entries, vmUp, initialized, original, pipe, ready, reader, tables>>

\* pthread_once ends, and with it the wait of the others.
Activated(a) ==
  /\ At(a, "activated")
  /\ goOnce' = "done"
  /\ Done(a)
  /\ UNCHANGED <<preloaded, entries, vmUp, initialized, original, pipe, ready, reader, tables>>

\* Wrong variant: the test for hooks that are installed already is missing.
InstallJniHooksAgain(a) ==
  /\ At(a, "patch")
  /\ \/ PartsMayFail /\ UNCHANGED <<jniTable, jniSaved>>
     \/ /\ jniSaved' = jniTable
        /\ \E ok \in Outcomes : jniTable' = IF ok THEN "hooked" ELSE jniTable
  /\ Done(a)
  /\ UNCHANGED <<preloaded, entries, vmUp, initialized, original, pipe, goSide, vmTable, vmSaved>>

\* install_jni_hooks: saves the table once and patches it, if mprotect allows; not
\* called by a thread that gets no env.  g_jni_hooks_installed is
\* `jniTable = "hooked"`.
InstallJniHooks(a) ==
  /\ At(a, "patch")
  /\ \/ (jniTable = "hooked" \/ PartsMayFail) /\ UNCHANGED <<jniTable, jniSaved>>
     \/ /\ jniTable # "hooked"
        /\ jniSaved' = jniTable
        /\ \E ok \in Outcomes : jniTable' = IF ok THEN "hooked" ELSE jniTable
  /\ Done(a)
  /\ UNCHANGED <<preloaded, entries, vmUp, initialized, original, pipe, goSide, vmTable, vmSaved>>

\* install_vm_hooks: saves the interface the first time, publishes every time.
InstallVmHooks(a) ==
  /\ At(a, "publish")
  /\ vmSaved' = IF vmSaved = "none" THEN vmTable ELSE vmSaved
  /\ vmTable' = "hooked"
  /\ Done(a)
  /\ UNCHANGED <<preloaded, entries, vmUp, initialized, original, pipe, goSide, jniTable, jniSaved>>

\* library_destructor: restore_vm_hooks, at exit while threads still run.
\* g_hooked_vm is NULL until the first install and after this.
RestoreVmHooks ==
  /\ vmTable = "hooked"
  /\ vmTable' = vmSaved
  /\ UNCHANGED <<preloaded, todo, entries, vmUp, initialized, original, pipe, goSide,
                 jniTable, jniSaved, vmSaved>>

Running(a) ==
  \/ InitOnce(a) \/ Resolve(a) \/ BridgeInit(a) \/ FindVm(a) \/ TryInstallHooks(a)
  \/ ActivateGo(a) \/ GoBridgeInit(a) \/ StartEventPipeReader(a) \/ Activated(a)
  \/ InstallJniHooks(a) \/ InstallVmHooks(a)

Next ==
  \/ \E t \in Threads : OnLoad(t) \/ GetCreatedJavaVMs(t) \/ GetEnv(t)
  \/ \E a \in Actors : Running(a)
  \/ VmStarts
  \/ RestoreVmHooks

Spec == Init /\ [][Next]_vars

\* Every thread runs on, unless it waits for the activation to end.
FairSpec == Spec /\ \A a \in Actors : WF_vars(Running(a))
-----------------------------------------------------------------------------
(* Properties.                                                             *)

\* What the hooks call through is never a hook: a second install, by whatever
\* thread and after whatever restore, does not save the patched table as the
\* original, which would make every hook call itself.
OriginalsAreOriginal == jniSaved # "hooked" /\ vmSaved # "hooked"

\* A hook can run only when the Go side is up: config loaded, logging ready and
\* the reader asked for.  Hot-path caches (config answers, logging_ready_fast)
\* rely on it: they keep the first answer for ever.
HooksAfterActivation ==
  (jniTable = "hooked" \/ vmTable = "hooked") => goOnce = "done" /\ ready /\ reader # "not asked"

\* In a preloaded library an event pipe has a reader as soon as hooks can write
\* to it; in any, a reader has a pipe.
PipeHasReader ==
  /\ preloaded /\ jniTable = "hooked" /\ pipe = "open" => reader = "started"
  /\ reader = "started" => pipe = "open"

\* event_pipe.h:67-68: the reader's fd "must only be called after
\* event_pipe_init() returns 0", or the pipe is disabled.  So the reader is given
\* up only when event_pipe_init failed.
DisabledOnlyIfPipeFailed == reader = "disabled" => pipe = "failed"

\* No entry point hangs: neither a thread that waits for the activation nor the
\* reader, which enters from within the activation.
EveryEntryReturns == \A a \in Actors : (todo[a] # <<>>) ~> (todo[a] = <<>>)
=============================================================================
