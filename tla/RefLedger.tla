------------------------------ MODULE RefLedger ------------------------------
(***************************************************************************)
(* What the event pipe promises about global refs (event_pipe.h, "Global-   *)
(* ref ownership (F1)"): a ref is owned by the thread that minted it until  *)
(* the thread hands everything it holds to the pipe or deletes it all, then *)
(* by the pipe, then by the reader, which deletes it.  A ref never comes    *)
(* back, never changes threads and is deleted by its owner only.            *)
(***************************************************************************)
CONSTANTS Threads, Refs

VARIABLE owner

OwnedBy(o) == {r \in Refs : owner[r] = o}

\* Everything in `refs` changes its owner to `o`.
Give(refs, o) == owner' = [r \in Refs |-> IF r \in refs THEN o ELSE owner[r]]

Init == owner = [r \in Refs |-> "free"]

Mint(t) == \E r \in OwnedBy("free") : Give({r}, t)

HandOver(t) == Give(OwnedBy(t), "pipe")

Discard(t) == Give(OwnedBy(t), "free")

Receive == \E refs \in SUBSET OwnedBy("pipe") : Give(refs, "reader")

Delete == \E r \in OwnedBy("reader") : Give({r}, "free")

Next ==
  \/ \E t \in Threads : Mint(t) \/ HandOver(t) \/ Discard(t)
  \/ Receive
  \/ Delete

Spec == Init /\ [][Next]_owner
=============================================================================
