---------------------------- MODULE BuddyBlocks ----------------------------
(***************************************************************************)
(* What the buddy allocator does to the blocks of its pool, whatever lists *)
(* and headers it keeps them in: a free block is split in two halves, two  *)
(* free buddies become the block they are the halves of, a free block is   *)
(* handed out whole, and a block handed out is given back whole.           *)
(***************************************************************************)
EXTENDS BuddyOrders

VARIABLES free, held    \* the blocks that are free, and those clients hold

vars == <<free, held>>

Block == [addr : Unit, order : 0 .. MaxOrder]
BlockAt(addr, order) == [addr |-> addr, order |-> order]
Covers(b) == b.addr .. b.addr + Size[b.order] - 1

Lower(b) == BlockAt(b.addr, b.order - 1)
Upper(b) == BlockAt(b.addr + Size[b.order - 1], b.order - 1)

Init == free = {} /\ held = {}

(* The pool comes under management, as one block. *)
Provide == /\ free = {} /\ held = {}
           /\ free' = {BlockAt(0, MaxOrder)}
           /\ held' = held

Split(b) == /\ b \in free /\ b.order > 0
            /\ free' = (free \ {b}) \cup {Lower(b), Upper(b)}
            /\ held' = held

(* The halves of one block become that block again. *)
Merge(b) == /\ b.order > 0 /\ b.addr % Size[b.order] = 0
            /\ Lower(b) \in free /\ Upper(b) \in free
            /\ free' = (free \ {Lower(b), Upper(b)}) \cup {b}
            /\ held' = held

Take(b) == /\ b \in free
           /\ free' = free \ {b}
           /\ held' = held \cup {b}

Give(b) == /\ b \in held
           /\ held' = held \ {b}
           /\ free' = free \cup {b}

Next == Provide \/ \E b \in Block : Split(b) \/ Merge(b) \/ Take(b) \/ Give(b)

Spec == Init /\ [][Next]_vars

-----------------------------------------------------------------------------
TypeOK == free \subseteq Block /\ held \subseteq Block

(* The addresses in free blocks and in held ones: the pool as an allocator of
   ranges, whose promise it keeps. *)
FreeUnits == UNION {Covers(b) : b \in free}
HeldUnits == UNION {Covers(b) : b \in held}
Abstract == INSTANCE RangeAllocator
              WITH Addresses <- Unit, free <- FreeUnits, held <- HeldUnits
ImplementsRangeAllocator == Abstract!Spec

(* Once provided, the blocks tile the pool: no two of them, free or held,   *)
(* share an address, and every address is in one of them.                   *)
Disjoint == /\ free \cap held = {}
            /\ \A b, c \in free \cup held : b # c => Covers(b) \cap Covers(c) = {}
Tiled == /\ Disjoint
         /\ free \cup held # {} => UNION {Covers(b) : b \in free \cup held} = Unit

(* A block starts at a multiple of its size: the buddy of a block is found  *)
(* by flipping one bit of its address.                                      *)
Aligned == \A b \in free \cup held : b.addr % Size[b.order] = 0
=============================================================================
