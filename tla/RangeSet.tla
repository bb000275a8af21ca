------------------------------ MODULE RangeSet ------------------------------
(***************************************************************************)
(* Which callers are logged: the executable ranges of the package's          *)
(* libraries.  Seeding walks the loaded libraries and adds those whose path  *)
(* holds the package name; dlopen interposers and the first hook seed, the   *)
(* mprotect interposer adds one region.  The package name, the attempt flag  *)
(* and the ranges are three pieces of state with a lock each at most, read   *)
(* and rewritten by several threads; a forked child inherits all three.      *)
(***************************************************************************)
EXTENDS Integers, Sequences, FiniteSetsExt

CONSTANTS
  Loaders,         \* threads that load libraries, call hooks, change protections
  Libs,            \* libraries, jnilog's own payload among them
  Payload,         \* the payload
  Segment,         \* library -> <<first, end>> of its mapping, end excluded
  PathNames,       \* library -> the package names its path holds, none for a system library
  Listed,          \* libraries dl_iterate_phdr reports; the others are in maps only
  Preloaded,       \* libraries loaded before jnilog
  MaxRanges,       \* MAX_EXEC_RANGES
  ProcessNames,    \* process id -> its name once specialized
  MayFork,
  NoPackage

ASSUME RangeAssumption ==
  /\ Payload \in Libs /\ Preloaded \in SUBSET Libs
  /\ Segment \in [Libs -> Int \X Int]
  /\ \A l, m \in Libs : l # m => Segment[l][2] <= Segment[m][1] \/ Segment[m][2] <= Segment[l][1]
  /\ \A l \in Libs : NoPackage \notin PathNames[l]
  /\ MaxRanges \in Nat
  /\ 1 \in DOMAIN ProcessNames

VARIABLES
  loaded,      \* libraries mapped in this process
  ranges,      \* g_exec_ranges[0 .. count - 1]
  package,     \* g_range_package_name
  attempted,   \* g_seed_attempted
  seedPid,     \* g_seed_pid
  pid,         \* this process
  cmdline,     \* its name, NoPackage while it is still zygote's
  visible,     \* dladdr still resolves the payload's path
  bridged,     \* the Go bridge of process 1 has started
  at,          \* thread -> where it is in the code below
  work,        \* thread -> its locals: snapshot of the name, libraries to visit
  due,         \* history of process 1: what finished seeds owe, <<library, name>>
  taken        \* history of process 1: the package names it had

rangeVars == <<loaded, ranges, package, attempted, seedPid, pid, cmdline, visible, bridged, at,
              work, due, taken>>
processVars == <<loaded, pid, cmdline, visible, bridged>>

NoWork == [name |-> NoPackage, todo |-> {}, seen |-> {}]

RangeInit ==
  /\ loaded = Preloaded
  /\ ranges = <<>>
  /\ package = NoPackage
  /\ attempted = FALSE
  /\ seedPid = 0
  /\ pid = 1
  /\ cmdline \in {NoPackage, ProcessNames[1]}
  /\ visible \in BOOLEAN
  /\ bridged = FALSE
  /\ at = [t \in Loaders |-> "idle"]
  /\ work = [t \in Loaders |-> NoWork]
  /\ due = {}
  /\ taken = {}

Jump(t, l) == at' = [at EXCEPT ![t] = l]

\* The package name becomes n, which may be no name.
Name(n) ==
  /\ package' = n
  /\ taken' = IF pid = 1 THEN taken \cup {n} ELSE taken

Smaller(x, y) == IF x < y THEN x ELSE y
Larger(x, y) == IF x > y THEN x ELSE y

\* Wrong variant: a region that touches a range counts as held by it.
AddRangeUnlessNear(rs, s) ==
  IF \E i \in DOMAIN rs : s[2] >= rs[i][1] /\ s[1] <= rs[i][2] THEN rs
  ELSE IF Len(rs) < MaxRanges THEN Append(rs, s) ELSE rs

\* c_add_exec_range: drop what a range holds, grow the first range it touches,
\* else append while there is room.
AddRange(rs, s) ==
  LET Near == {i \in DOMAIN rs : s[2] >= rs[i][1] /\ s[1] <= rs[i][2]}
      i == Min(Near)
  IN IF Near # {} THEN [rs EXCEPT ![i] = <<Smaller(s[1], @[1]), Larger(s[2], @[2])>>]
     ELSE IF Len(rs) < MaxRanges THEN Append(rs, s)
     ELSE rs

InRanges(a) == \E i \in DOMAIN ranges : a >= ranges[i][1] /\ a < ranges[i][2]
IsSelf(a) == a >= Segment[Payload][1] /\ a < Segment[Payload][2]

\* should_log_from_caller, once a seed was tried: the range captured by identity
\* comes before the ranges.
ShouldLog(a) == ~IsSelf(a) /\ InRanges(a)

\* refresh_package_name_if_needed: keep a name, else the owner of the payload's
\* directory (the first process's package), else the process name if it is one
\* by now.
Refreshed ==
  CASE package # NoPackage -> package
    [] package = NoPackage /\ visible -> ProcessNames[1]
    [] OTHER -> cmdline

\* A library is loaded through an interposer.  The loader's own entry also takes
\* the package name from the path of the library when it has none.
Load(t, lib) ==
  /\ at[t] = "idle"
  /\ lib \notin loaded
  /\ loaded' = loaded \cup {lib}
  /\ \/ Jump(t, "reset") /\ UNCHANGED work
     \/ /\ package = NoPackage
        /\ \E n \in PathNames[lib] : work' = [work EXCEPT ![t].name = n]
        /\ Jump(t, "name")
  /\ UNCHANGED <<ranges, package, attempted, seedPid, pid, cmdline, visible, bridged, due, taken>>

\* c_set_package_name, with the emptiness of the name tested a step before.
SetPackageName(t) ==
  /\ at[t] = "name"
  /\ Name(work[t].name)
  /\ attempted' = FALSE
  /\ Jump(t, "reset")
  /\ UNCHANGED <<processVars, ranges, seedPid, work, due>>

\* c_reset_seed_attempted.
ResetAttempted(t) ==
  /\ at[t] = "reset"
  /\ attempted' = FALSE
  /\ Jump(t, "seed")
  /\ UNCHANGED <<processVars, ranges, package, seedPid, work, due, taken>>

\* The Go bridge starts, once and in the first process only: if the process has a
\* name by now it becomes the package name, whatever that was, and seeding follows.
BridgeInit(t) ==
  /\ at[t] = "idle"
  /\ ~bridged /\ pid = 1
  /\ bridged' = TRUE
  /\ IF cmdline = NoPackage THEN UNCHANGED <<package, taken, attempted, at>>
     ELSE Name(cmdline) /\ attempted' = FALSE /\ Jump(t, "seed")
  /\ UNCHANGED <<loaded, pid, cmdline, visible, ranges, seedPid, work, due>>

\* A hook asks whether its caller is logged; without ranges and without an
\* attempt it seeds first (c_should_try_seed).
HookSeeds(t) ==
  /\ at[t] = "idle"
  /\ ranges = <<>> /\ ~attempted
  /\ Jump(t, "seed")
  /\ UNCHANGED <<processVars, ranges, package, attempted, seedPid, work, due, taken>>

\* c_seed_exec_ranges_from_maps: another process seeded last?
CheckPid(t) ==
  /\ at[t] = "seed"
  /\ IF seedPid \in {0, pid}
     THEN seedPid' = pid /\ Jump(t, "refresh")
     ELSE UNCHANGED seedPid /\ Jump(t, "clear")
  /\ UNCHANGED <<processVars, ranges, package, attempted, work, due, taken>>

\* Then its ranges go, under their lock,
ClearRanges(t) ==
  /\ at[t] = "clear"
  /\ ranges' = <<>>
  /\ Jump(t, "forget")
  /\ UNCHANGED <<processVars, package, attempted, seedPid, work, due, taken>>

\* and its package name, under another.
ForgetPackage(t) ==
  /\ at[t] = "forget"
  /\ Name(NoPackage)
  /\ attempted' = FALSE
  /\ seedPid' = pid
  /\ Jump(t, "refresh")
  /\ UNCHANGED <<processVars, ranges, work, due>>

RefreshName(t) ==
  /\ at[t] = "refresh"
  /\ Name(Refreshed)
  /\ Jump(t, "snapshot")
  /\ UNCHANGED <<processVars, ranges, attempted, seedPid, work, due>>

\* The name is copied and, if there is one, the loader's list is walked.
Snapshot(t) ==
  /\ at[t] = "snapshot"
  /\ work' = [work EXCEPT ![t] =
       [name |-> package,
        todo |-> IF package = NoPackage THEN {} ELSE loaded \cap Listed,
        seen |-> loaded \cap Listed]]
  /\ Jump(t, "scan")
  /\ UNCHANGED <<processVars, ranges, package, attempted, seedPid, due, taken>>

\* Wrong variant: the path is not compared.
WantedAny(t, lib) == lib # Payload /\ work[t].name # NoPackage

Wanted(t, lib) == lib # Payload /\ work[t].name \in PathNames[lib]

\* seed_iter_cb, or one line of /proc/self/maps: libraries come in a fixed order.
Visit(t, lib) ==
  /\ at[t] \in {"scan", "maps"}
  /\ lib \in work[t].todo
  /\ \A other \in work[t].todo : Segment[lib][1] <= Segment[other][1]
  /\ work' = [work EXCEPT ![t].todo = @ \ {lib}]
  /\ ranges' = IF Wanted(t, lib) THEN AddRange(ranges, Segment[lib]) ELSE ranges
  /\ UNCHANGED <<processVars, package, attempted, seedPid, at, due, taken>>

\* No range at all after the list: read the maps, with the name of this moment.
Fallback(t) ==
  /\ at[t] = "scan"
  /\ work[t].todo = {}
  /\ IF ranges # <<>>
     THEN Jump(t, "mark") /\ UNCHANGED work
     ELSE /\ work' = [work EXCEPT ![t].todo = IF package = NoPackage THEN {} ELSE loaded,
                                  ![t].name = package,
                                  ![t].seen = loaded]
          /\ Jump(t, "maps")
  /\ UNCHANGED <<processVars, ranges, package, attempted, seedPid, due, taken>>

EndMaps(t) ==
  /\ at[t] = "maps"
  /\ work[t].todo = {}
  /\ Jump(t, "mark")
  /\ UNCHANGED <<processVars, ranges, package, attempted, seedPid, work, due, taken>>

\* The attempt is marked and the interposer, or the hook, goes on.
MarkAttempted(t) ==
  /\ at[t] = "mark"
  /\ attempted' = TRUE
  /\ due' = IF pid = 1
            THEN due \cup {<<lib, work[t].name>> : lib \in {l \in work[t].seen : Wanted(t, l)}}
            ELSE due
  /\ work' = [work EXCEPT ![t] = NoWork]
  /\ Jump(t, "idle")
  /\ UNCHANGED <<processVars, ranges, package, seedPid, taken>>

\* mprotect made the mapping of a library executable: refresh the name,
Mprotect(t, lib) ==
  /\ at[t] = "idle"
  /\ lib \in loaded
  /\ Name(Refreshed)
  /\ work' = [work EXCEPT ![t].todo = {lib}]
  /\ Jump(t, "protected")
  /\ UNCHANGED <<processVars, ranges, attempted, seedPid, due>>

\* compare the path with it and add the region, the payload's own included.
AddProtected(t) ==
  /\ at[t] = "protected"
  /\ \E lib \in work[t].todo :
       ranges' = IF package \in PathNames[lib] /\ (lib # Payload \/ visible)
                 THEN AddRange(ranges, Segment[lib]) ELSE ranges
  /\ work' = [work EXCEPT ![t] = NoWork]
  /\ Jump(t, "idle")
  /\ UNCHANGED <<processVars, package, attempted, seedPid, due, taken>>

\* The process gets its own name; the injector hides the payload.
Specialize ==
  /\ cmdline # ProcessNames[pid]
  /\ cmdline' = ProcessNames[pid]
  /\ UNCHANGED <<loaded, ranges, package, attempted, seedPid, pid, visible, bridged, at, work, due, taken>>

Hide ==
  /\ visible
  /\ visible' = FALSE
  /\ UNCHANGED <<loaded, ranges, package, attempted, seedPid, pid, cmdline, bridged, at, work, due, taken>>

\* The child has this one thread; everything else is inherited.
Fork(t) ==
  /\ MayFork
  /\ pid + 1 \in DOMAIN ProcessNames
  /\ at[t] = "idle"
  /\ pid' = pid + 1
  /\ cmdline' = NoPackage
  /\ at' = [u \in Loaders |-> "idle"]
  /\ work' = [u \in Loaders |-> NoWork]
  /\ due' = {}
  /\ taken' = {}
  /\ UNCHANGED <<loaded, ranges, package, attempted, seedPid, visible, bridged>>

RangeNext ==
  \/ \E t \in Loaders :
       \/ \E lib \in Libs : Load(t, lib) \/ Visit(t, lib) \/ Mprotect(t, lib)
       \/ SetPackageName(t) \/ ResetAttempted(t) \/ BridgeInit(t) \/ HookSeeds(t)
       \/ CheckPid(t) \/ ClearRanges(t) \/ ForgetPackage(t) \/ RefreshName(t)
       \/ Snapshot(t) \/ Fallback(t) \/ EndMaps(t) \/ MarkAttempted(t)
       \/ AddProtected(t) \/ Fork(t)
  \/ Specialize \/ Hide

RangeSpec == RangeInit /\ [][RangeNext]_rangeVars
-----------------------------------------------------------------------------
(* Properties.                                                              *)

Quiet == \A t \in Loaders : at[t] = "idle"
Addresses(lib) == Segment[lib][1] .. Segment[lib][2] - 1

\* In a process that was not forked, a library that a finished seed walked under
\* the package name still in force is logged once no thread is in its
\* bookkeeping, whatever other threads reset, refreshed or added meanwhile; only
\* a full range table may lose it.
LoadedIsLogged == Quiet /\ pid = 1 =>
  \A lib \in Libs : <<lib, package>> \in due =>
    (\A a \in Addresses(lib) : ShouldLog(a)) \/ Len(ranges) = MaxRanges

\* In a process that was not forked, only callers in libraries whose path holds
\* a package name the process has taken are logged: no region gets in by a stale
\* name, by a merge, or for a library of someone else.
OnlyPackageLogged == pid = 1 =>
  \A lib \in Libs : (\E a \in Addresses(lib) : ShouldLog(a)) => PathNames[lib] \cap taken # {}
=============================================================================
