------------------------------- MODULE JlAlloc -------------------------------
(***************************************************************************)
(* The freestanding allocator behind malloc, free and realloc: one free      *)
(* list per size class, a bump arena, a mapping of its own for a large       *)
(* block.  Memory is counted in units, a header takes one unit; only headers *)
(* have contents.  The header's mlen is the length of a large block's        *)
(* mapping, 0 in an arena block, and the link of the list while it is free.  *)
(***************************************************************************)
EXTENDS Integers, FiniteSets

CONSTANTS
  Users,       \* threads that allocate and free
  Classes,     \* usable sizes of the arena's blocks
  Sizes,       \* sizes asked for
  Arena,       \* JL_ALLOC_ARENA
  LastAddress  \* the address space is 1 .. LastAddress

ASSUME AllocAssumption ==
  /\ Arena \in Nat /\ LastAddress \in Nat
  /\ \A c \in Classes : c \in 1 .. Arena - 1
  /\ Sizes \in SUBSET Nat

VARIABLES
  mapped,     \* addresses the kernel has mapped
  header,     \* address -> [usable, mlen]
  freeList,   \* class -> first free block, 0 for none
  bump, end,  \* the arena in use
  step,       \* thread -> what it is doing
  held        \* blocks the program holds, <<header, size asked for>>

allocVars == <<mapped, header, freeList, bump, end, step, held>>

Null == 0
Blank == [usable |-> 0, mlen |-> 0]
Ready == [at |-> "ready"]

AllocInit ==
  /\ mapped = {}
  /\ header = [a \in 1 .. LastAddress |-> Blank]
  /\ freeList = [c \in Classes |-> Null]
  /\ bump = Null /\ end = Null
  /\ step = [t \in Users |-> Ready]
  /\ held = {}

Span(base, len) == base .. base + len - 1
Takes(t, s) == step' = [step EXCEPT ![t] = s]

\* Where the kernel may put a mapping.
Bases(len) == {b \in 1 .. LastAddress + 1 - len : Span(b, len) \cap mapped = {}}

Lowest(S) == CHOOSE x \in S : \A y \in S : x <= y

\* jl_size_to_pow2: the smallest class that fits.
ClassOf(n) == Lowest({c \in Classes : c >= n})
IsLarge(n) == \A c \in Classes : c < n

\* A fresh mapping is zeroed; the lowest address stands for the kernel's choice.
MapAt(b, len) ==
  /\ mapped' = mapped \cup Span(b, len)
  /\ header' = [a \in DOMAIN header |-> IF a \in Span(b, len) THEN Blank ELSE header[a]]

\* The thread allocates n units; `old` is the block it reallocates, or Null.
AllocLarge(t, n, old) ==
  LET len == n + 1
      b == Lowest(Bases(len))
  IN /\ IsLarge(n)
     /\ Bases(len) # {}
     /\ MapAt(b, len)
     /\ Takes(t, [at |-> "fill", block |-> b, usable |-> n, mlen |-> len, asked |-> n, old |-> old])
     /\ UNCHANGED <<freeList, bump, end>>

\* Under the lock: pop a free block of the class,
AllocPop(t, n, old) ==
  LET c == ClassOf(n)
      b == freeList[c]
  IN /\ ~IsLarge(n)
     /\ b # Null
     /\ freeList' = [freeList EXCEPT ![c] = header[b].mlen]
     /\ Takes(t, [at |-> "fill", block |-> b, usable |-> c, mlen |-> 0, asked |-> n, old |-> old])
     /\ UNCHANGED <<mapped, header, bump, end>>

\* or cut a block from the arena, from a new one if the old one is too short;
\* the rest of the old one is never used.
AllocBump(t, n, old) ==
  LET c == ClassOf(n)
      fits == bump # Null /\ bump + c + 1 <= end
      b == IF fits THEN bump ELSE Lowest(Bases(Arena))
  IN /\ ~IsLarge(n)
     /\ freeList[c] = Null
     /\ fits \/ Bases(Arena) # {}
     /\ IF fits THEN UNCHANGED <<mapped, header, end>>
        ELSE MapAt(b, Arena) /\ end' = b + Arena
     /\ bump' = b + c + 1
     /\ Takes(t, [at |-> "fill", block |-> b, usable |-> c, mlen |-> 0, asked |-> n, old |-> old])
     /\ UNCHANGED freeList

Alloc(t, n, old) == AllocLarge(t, n, old) \/ AllocPop(t, n, old) \/ AllocBump(t, n, old)

\* jl_malloc: nothing happens if the kernel refuses a mapping.
Malloc(t, n) ==
  /\ step[t].at = "ready"
  /\ Alloc(t, n, Null)
  /\ UNCHANGED held

\* Wrong variant: the link of the free list stays in the header.
WriteHeaderKeepingLink(t) ==
  LET s == step[t]
  IN /\ s.at = "fill"
     /\ header' = [header EXCEPT ![s.block].usable = s.usable,
                                ![s.block].mlen = IF s.mlen = 0 THEN @ ELSE s.mlen]
     /\ held' = held \cup {<<s.block, s.asked>>}
     /\ Takes(t, IF s.old = Null THEN Ready ELSE [at |-> "free", block |-> s.old])
     /\ UNCHANGED <<mapped, freeList, bump, end>>

\* After the unlock the header is written; the block is the caller's, or the
\* target of the reallocation's copy.
WriteHeader(t) ==
  LET s == step[t]
  IN /\ s.at = "fill"
     /\ header' = [header EXCEPT ![s.block] = [usable |-> s.usable, mlen |-> s.mlen]]
     /\ held' = held \cup {<<s.block, s.asked>>}
     /\ Takes(t, IF s.old = Null THEN Ready ELSE [at |-> "free", block |-> s.old])
     /\ UNCHANGED <<mapped, freeList, bump, end>>

\* jl_free: the program gives a block back.
Free(t, b) ==
  /\ step[t].at = "ready"
  /\ b \in held
  /\ held' = held \ {b}
  /\ Takes(t, [at |-> "free", block |-> b[1]])
  /\ UNCHANGED <<mapped, header, freeList, bump, end>>

\* Its header, read without the lock, says whether it has a mapping to unmap
Unmap(t) ==
  LET b == step[t].block
  IN /\ step[t].at = "free"
     /\ header[b].mlen # 0
     /\ mapped' = mapped \ Span(b, header[b].mlen)
     /\ Takes(t, Ready)
     /\ UNCHANGED <<header, freeList, bump, end, held>>

\* or goes to the free list of its class.
Push(t) ==
  LET b == step[t].block
      c == header[b].usable
  IN /\ step[t].at = "free"
     /\ header[b].mlen = 0
     /\ header' = [header EXCEPT ![b].mlen = freeList[c]]
     /\ freeList' = [freeList EXCEPT ![c] = b]
     /\ Takes(t, Ready)
     /\ UNCHANGED <<mapped, bump, end, held>>

\* jl_realloc: the block fits already,
ReallocInPlace(t, b, n) ==
  /\ step[t].at = "ready"
  /\ b \in held
  /\ n <= header[b[1]].usable
  /\ held' = (held \ {b}) \cup {<<b[1], n>>}
  /\ UNCHANGED <<mapped, header, freeList, bump, end, step>>

\* or a new one is allocated, and the old one freed after the copy.
ReallocMove(t, b, n) ==
  /\ step[t].at = "ready"
  /\ b \in held
  /\ n > header[b[1]].usable
  /\ Alloc(t, n, b[1])
  /\ held' = held \ {b}

AllocNext == \E t \in Users :
  \/ \E n \in Sizes : Malloc(t, n)
  \/ \E b \in held : Free(t, b)
  \/ \E b \in held, n \in Sizes : ReallocInPlace(t, b, n) \/ ReallocMove(t, b, n)
  \/ WriteHeader(t) \/ Unmap(t) \/ Push(t)

AllocSpec == AllocInit /\ [][AllocNext]_allocVars
-----------------------------------------------------------------------------
(* Properties.                                                              *)

\* The blocks of a free list, by its links.
FreeBlocks(c) ==
  LET Link[k \in 0 .. LastAddress] ==
        IF k = 0 THEN freeList[c]
        ELSE IF Link[k - 1] = Null THEN Null ELSE header[Link[k - 1]].mlen
  IN {Link[k] : k \in 0 .. LastAddress} \ {Null}

\* Every piece of memory that is someone's: the program's, a list's, a thread's
\* that is about to fill or free it, the arena's rest.
Pieces ==
  {[of |-> "held", base |-> b[1], len |-> b[2] + 1] : b \in held}
  \cup (UNION {{[of |-> "list", base |-> b, len |-> c + 1] : b \in FreeBlocks(c)} : c \in Classes})
  \cup {[of |-> t, base |-> step[t].block, len |-> step[t].asked + 1] :
           t \in {u \in Users : step[u].at = "fill"}}
  \cup {[of |-> t, base |-> step[t].block, len |-> header[step[t].block].usable + 1] :
           t \in {u \in Users : step[u].at = "free"}}
  \cup {[of |-> "arena", base |-> bump, len |-> end - bump]}

\* No address belongs to two owners and none is used after its unmapping: a block
\* is never handed out twice, a link never stands where a length is read, and a
\* thread that fills or frees a block outside the lock is alone with it.
MemoryHasOneOwner ==
  /\ \A p \in Pieces : Span(p.base, p.len) \subseteq mapped
  /\ \A p, q \in Pieces : p # q => Span(p.base, p.len) \cap Span(q.base, q.len) = {}
=============================================================================
