----------------------------- MODULE ConfigGate -----------------------------
(***************************************************************************)
(* The config gate: every hook asks config_is_allowed(name) on the hot      *)
(* path.  The answer comes from a linear-probe table filled from the Go     *)
(* side; the lock of the table is dropped while Go is asked, so another     *)
(* thread may take the very slot the answer is meant for.                   *)
(*                                                                          *)
(* A pointer stands for one string literal; several literals may spell the  *)
(* same name (one per translation unit).                                    *)
(***************************************************************************)
EXTENDS Integers, FiniteSets

CONSTANTS
  GateThreads,   \* threads inside hooks
  Pointers,      \* the literals the hooks pass
  Names,         \* the names they spell
  NameOf,        \* pointer -> name
  HashOf,        \* name -> start of its probe sequence
  CacheSize,     \* CONFIG_CACHE_SIZE
  Configs,       \* configurations the Go side may have loaded
  NoList, NoName, NoPointer

ASSUME GateAssumption ==
  /\ CacheSize \in Nat \ {0}
  /\ NameOf \in [Pointers -> Names]
  /\ HashOf \in [Names -> 0 .. CacheSize - 1]
  /\ NoPointer \notin Pointers
  /\ NoName \notin Names

Slots == 0 .. CacheSize - 1

Unchecked == -1
Results == {Unchecked, 0, 1}

VARIABLES
  config,    \* [include, exclude]: the sets built from the configuration file
  cache,     \* slot -> [key, owned, result]
  query,     \* thread -> the lookup waiting for Go, or NoQuery
  reply      \* thread -> what its last lookup answered, or NoReply

gateVars == <<config, cache, query, reply>>

NoQuery == [at |-> -1, ptr |-> NoPointer]
NoReply == [ptr |-> NoPointer, allowed |-> 0]

\* Position of a query that found no slot of its own.
Uncached == CacheSize

EmptySlot == [key |-> NoPointer, owned |-> NoName, result |-> Unchecked]

\* What Go says of a name: the blacklist wins, no whitelist allows everything.
GoAnswer(n) ==
  IF n \notin config.exclude /\ (config.include = NoList \/ n \in config.include)
  THEN 1 ELSE 0

\* The i-th slot of the probe sequence wraps around at the table's end.
Probe(n, i) ==
  LET k == HashOf[n] + i IN IF k < CacheSize THEN k ELSE k - CacheSize

Fresh(s) == cache[s].result = Unchecked

\* Wrong variants: names are told apart by their hash; by the pointer alone.
AnswersByHash(s, p) ==
  \E n \in Names : cache[s].owned = n /\ HashOf[n] = HashOf[NameOf[p]]
AnswersByPointer(s, p) == cache[s].key = p

\* The slot answers the pointer: by identity, or by its copy of the name.
Answers(s, p) == cache[s].key = p \/ cache[s].owned = NameOf[p]

\* Probing for p stops at its i-th position.
StopsAt(p, i) ==
  LET n == NameOf[p]
  IN /\ Fresh(Probe(n, i)) \/ Answers(Probe(n, i), p)
     /\ \A j \in 0 .. i - 1 : ~Fresh(Probe(n, j)) /\ ~Answers(Probe(n, j), p)

GateInit ==
  /\ config \in Configs
  /\ cache = [s \in Slots |-> EmptySlot]
  /\ query = [t \in GateThreads |-> NoQuery]
  /\ reply = [t \in GateThreads |-> NoReply]

Give(t, p, a) == reply' = [reply EXCEPT ![t] = [ptr |-> p, allowed |-> a]]

\* The table holds the name: answer under the lock, remember the pointer.
Hit(t, p) ==
  /\ query[t] = NoQuery
  /\ \E i \in Slots :
       LET s == Probe(NameOf[p], i)
       IN /\ StopsAt(p, i)
          /\ ~Fresh(s)
          /\ cache' = [cache EXCEPT ![s].key = p]
          /\ Give(t, p, cache[s].result)
  /\ UNCHANGED <<config, query>>

\* A fresh slot ends the probe: drop the lock and ask Go.
Miss(t, p) ==
  /\ query[t] = NoQuery
  /\ \E i \in Slots :
       /\ StopsAt(p, i)
       /\ Fresh(Probe(NameOf[p], i))
       /\ query' = [query EXCEPT ![t] = [at |-> Probe(NameOf[p], i), ptr |-> p]]
  /\ UNCHANGED <<config, cache, reply>>

\* All slots answer other names: drop the lock and ask Go, for good.
Overflow(t, p) ==
  /\ query[t] = NoQuery
  /\ \A i \in Slots : ~StopsAt(p, i)
  /\ query' = [query EXCEPT ![t] = [at |-> Uncached, ptr |-> p]]
  /\ UNCHANGED <<config, cache, reply>>

\* Wrong variant: the answer is used but not stored.
SettleForgetting(t) ==
  /\ query[t].at \in Slots
  /\ Give(t, query[t].ptr, GoAnswer(NameOf[query[t].ptr]))
  /\ query' = [query EXCEPT ![t] = NoQuery]
  /\ UNCHANGED <<config, cache>>

\* Go has answered and the lock is taken again: the slot may have been filled,
\* for this name or for another one.
Settle(t) ==
  LET s == query[t].at
      p == query[t].ptr
      mine == GoAnswer(NameOf[p])
  IN /\ s \in Slots
     /\ \/ /\ Fresh(s)
           /\ cache' = [cache EXCEPT ![s] = [key |-> p, owned |-> NameOf[p], result |-> mine]]
           /\ Give(t, p, mine)
        \/ /\ ~Fresh(s) /\ cache[s].owned = NameOf[p]
           /\ Give(t, p, cache[s].result)
           /\ UNCHANGED cache
        \/ /\ ~Fresh(s) /\ cache[s].owned # NameOf[p]
           /\ Give(t, p, mine)
           /\ UNCHANGED cache
     /\ query' = [query EXCEPT ![t] = NoQuery]
     /\ UNCHANGED config

\* Go has answered a lookup the table had no room for.
Direct(t) ==
  /\ query[t].at = Uncached
  /\ Give(t, query[t].ptr, GoAnswer(NameOf[query[t].ptr]))
  /\ query' = [query EXCEPT ![t] = NoQuery]
  /\ UNCHANGED <<config, cache>>

GateNext == \E t \in GateThreads :
  \/ Settle(t)
  \/ Direct(t)
  \/ \E p \in Pointers : Hit(t, p) \/ Miss(t, p) \/ Overflow(t, p)

GateSpec == GateInit /\ [][GateNext]_gateVars

\* A query to Go returns; whether a hook asks at all is the application's choice.
GateFairness == \A t \in GateThreads : WF_gateVars(Settle(t)) /\ WF_gateVars(Direct(t))
-----------------------------------------------------------------------------
(* Properties.                                                              *)

\* A hook is filtered by the configuration's answer for its own name, whichever
\* thread filled the slot it read and whatever name took the slot it waited for.
AnswersBelong == \A t \in GateThreads :
  reply[t].ptr # NoPointer => reply[t].allowed = GoAnswer(NameOf[reply[t].ptr])

\* A name is in one slot at most and probing reaches it there: no fresh slot and
\* no copy of it comes before.  Two threads that ask for one name at a time, or
\* for two names that share a slot, must not break this.
CachedOnce == \A i \in Slots, n \in Names :
  cache[Probe(n, i)].owned = n =>
    \A j \in 0 .. i - 1 : ~Fresh(Probe(n, j)) /\ cache[Probe(n, j)].owned # n

\* The hot path stops asking Go: from some time on only lookups that the full
\* table has no room for leave it.  Each lost slot costs one more query, but
\* slots are lost only finitely often.
QueriesDieDown == <>[](\A t \in GateThreads : query[t].at \notin Slots)
=============================================================================
