------------------------------- MODULE IdCache -------------------------------
(***************************************************************************)
(* The caches from method and field ids to their name, signature and class: *)
(* GetMethodID and GetFieldID hooks store, the Call and Field hooks look up *)
(* and copy out.  A linear-probe table under a rwlock; entries are written  *)
(* and copied field by field, so the lock is what keeps a copy whole.       *)
(* Both caches run the same code; this module is one of them.               *)
(***************************************************************************)
EXTENDS Integers, FiniteSets

CONSTANTS
  IdThreads,    \* threads inside hooks
  Ids,          \* non-NULL method (or field) ids
  IdHash,       \* id -> start of its probe sequence
  IdSlots,      \* number of slots, METHOD_CACHE_SIZE
  Texts,        \* names, signatures and class names
  NoText,       \* NULL, or the empty string in a slot
  NoId, NoThread

ASSUME IdAssumption ==
  /\ IdSlots \in Nat \ {0}
  /\ IdHash \in [Ids -> Nat]
  /\ NoThread \notin IdThreads

VARIABLES
  table,    \* slot -> [id, name, sig, clazz, used]
  holders,  \* threads that hold the rwlock shared
  writer,   \* the thread that holds it exclusively, or NoThread
  op,       \* thread -> the operation it is in
  stored    \* id -> what the puts of the id amount to, or Nothing

idVars == <<table, holders, writer, op, stored>>

Positions == 0 .. IdSlots - 1

Nothing == [name |-> NoText, sig |-> NoText, clazz |-> NoText]
FreeEntry == [id |-> NoId, name |-> NoText, sig |-> NoText, clazz |-> NoText, used |-> FALSE]
Idle == [at |-> "idle"]

IdProbe(id, n) == (IdHash[id] + n) % IdSlots

\* The n-th probe of id ends the search: its entry, or a free slot.
EndsAt(id, n) ==
  LET Ends(k) == ~table[IdProbe(id, k)].used \/ table[IdProbe(id, k)].id = id
  IN Ends(n) /\ \A k \in 0 .. n - 1 : ~Ends(k)

IdInit ==
  /\ table = [s \in Positions |-> FreeEntry]
  /\ holders = {}
  /\ writer = NoThread
  /\ op = [t \in IdThreads |-> Idle]
  /\ stored = [id \in Ids |-> Nothing]

CanWrite == writer = NoThread /\ holders = {}
\* Wrong variant: the reader does not wait for the writer.
CanReadAnyway == writer \in IdThreads \cup {NoThread}

CanRead == writer = NoThread

Go(t, o) == op' = [op EXCEPT ![t] = o]

\* cache_method_signature: take the lock, find the entry or the first free slot.
\* The class may be NULL, a new entry then has none and an old one keeps its own.
BeginPut(t, id, text, clazz) ==
  /\ op[t].at = "idle"
  /\ CanWrite
  /\ \E n \in Positions :
       /\ EndsAt(id, n)
       /\ writer' = t
       /\ Go(t, [at |-> "name", id |-> id, text |-> text, clazz |-> clazz,
                 slot |-> IdProbe(id, n)])
  /\ UNCHANGED <<table, holders, stored>>

\* The id and its name are written.
PutName(t) ==
  /\ op[t].at = "name"
  /\ table' = [table EXCEPT ![op[t].slot].id = op[t].id, ![op[t].slot].name = op[t].text]
  /\ Go(t, [op[t] EXCEPT !.at = "clazz"])
  /\ UNCHANGED <<holders, writer, stored>>

PutClazz(t) ==
  LET o == op[t]
  IN /\ o.at = "clazz"
     /\ table' = [table EXCEPT ![o.slot].clazz =
          IF o.clazz # NoText THEN o.clazz
          ELSE IF table[o.slot].used THEN @ ELSE NoText]
     /\ Go(t, [o EXCEPT !.at = "sig"])
     /\ UNCHANGED <<holders, writer, stored>>

\* The signature is written, the entry is in use, the lock released.
PutSig(t) ==
  LET o == op[t]
  IN /\ o.at = "sig"
     /\ table' = [table EXCEPT ![o.slot].sig = o.text, ![o.slot].used = TRUE]
     /\ stored' = [stored EXCEPT ![o.id] =
          [name |-> o.text, sig |-> o.text,
           clazz |-> IF o.clazz = NoText THEN @.clazz ELSE o.clazz]]
     /\ writer' = NoThread
     /\ Go(t, Idle)
     /\ UNCHANGED holders

\* Neither an entry nor a free slot: the put is dropped.
PutFull(t, id) ==
  /\ op[t].at = "idle"
  /\ CanWrite
  /\ \A n \in Positions : ~EndsAt(id, n)
  /\ UNCHANGED idVars

Found(id, n) == EndsAt(id, n) /\ table[IdProbe(id, n)].used

\* lookup_method_info: take the lock shared, find the entry, copy the name.
BeginGet(t, id) ==
  /\ op[t].at = "idle"
  /\ CanRead
  /\ \E n \in Positions :
       /\ Found(id, n)
       /\ Go(t, [at |-> "copy_sig", id |-> id, slot |-> IdProbe(id, n),
                 name |-> table[IdProbe(id, n)].name])
  /\ holders' = holders \cup {t}
  /\ UNCHANGED <<table, writer, stored>>

CopySig(t) ==
  /\ op[t].at = "copy_sig"
  /\ Go(t, [at |-> "copy_clazz", id |-> op[t].id, slot |-> op[t].slot,
            name |-> op[t].name, sig |-> table[op[t].slot].sig])
  /\ UNCHANGED <<table, holders, writer, stored>>

\* The class is copied, the lock released and the caller has its info.
CopyClazz(t) ==
  LET o == op[t]
  IN /\ o.at = "copy_clazz"
     /\ Go(t, [at |-> "got", id |-> o.id,
               info |-> [name |-> o.name, sig |-> o.sig, clazz |-> table[o.slot].clazz],
               latest |-> stored[o.id]])
     /\ holders' = holders \ {t}
     /\ UNCHANGED <<table, writer, stored>>

\* No entry: the caller gets nothing (for a field, ART's own name for it).
GetMiss(t, id) ==
  /\ op[t].at = "idle"
  /\ CanRead
  /\ \A n \in Positions : ~Found(id, n)
  /\ Go(t, [at |-> "got", id |-> id, info |-> Nothing, latest |-> stored[id]])
  /\ UNCHANGED <<table, holders, writer, stored>>

\* The hook is done with the info.
Use(t) ==
  /\ op[t].at = "got"
  /\ Go(t, Idle)
  /\ UNCHANGED <<table, holders, writer, stored>>

IdNext == \E t \in IdThreads :
  \/ \E id \in Ids, text \in Texts, clazz \in Texts \cup {NoText} : BeginPut(t, id, text, clazz)
  \/ \E id \in Ids : PutFull(t, id) \/ BeginGet(t, id) \/ GetMiss(t, id)
  \/ PutName(t) \/ PutClazz(t) \/ PutSig(t)
  \/ CopySig(t) \/ CopyClazz(t) \/ Use(t)

IdSpec == IdInit /\ [][IdNext]_idVars
-----------------------------------------------------------------------------
(* Properties.                                                              *)

\* A hook prints a member under the name, signature and class last stored for
\* its id, as one whole, and finds nothing only if nothing was ever stored; what
\* other threads store meanwhile neither tears the copy nor moves the entry.
InfoIsLatest == \A t \in IdThreads :
  op[t].at = "got" => op[t].info = op[t].latest
=============================================================================
