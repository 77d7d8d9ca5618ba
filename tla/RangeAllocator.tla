--------------------------- MODULE RangeAllocator ---------------------------
(***************************************************************************)
(* What an allocator of address ranges promises its clients, whatever its  *)
(* bookkeeping: an address it manages is either free or held by a client,  *)
(* never both, a range is handed out only when all of it is free, and what *)
(* a client gives back becomes free again, all of it and nothing else.  A  *)
(* refused call changes nothing, so it is a stuttering step.               *)
(***************************************************************************)
EXTENDS Integers

CONSTANT Addresses          \* the addresses of the machine, a set of integers

VARIABLES free,             \* the addresses that may be handed out
          held              \* the addresses clients hold

vars == <<free, held>>

Range(first, last) == {a \in Addresses : first <= a /\ a <= last}

Init == free = {} /\ held = {}

(* New addresses come under management. *)
Donate(range) == /\ range \cap (free \cup held) = {}
                 /\ free' = free \cup range
                 /\ held' = held

Allocate(range) == /\ range \subseteq free
                   /\ free' = free \ range
                   /\ held' = held \cup range

Release(range) == /\ range \subseteq held
                  /\ free' = free \cup range
                  /\ held' = held \ range

Next == \E first, last \in Addresses :
          /\ first <= last
          /\ \/ Donate(Range(first, last))
             \/ Allocate(Range(first, last))
             \/ Release(Range(first, last))

Spec == Init /\ [][Next]_vars
=============================================================================
