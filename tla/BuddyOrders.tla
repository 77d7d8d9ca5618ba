---------------------------- MODULE BuddyOrders ----------------------------
(***************************************************************************)
(* The orders of a buddy pool and the sizes of their blocks.               *)
(***************************************************************************)
EXTENDS Integers

CONSTANTS MaxOrder,     \* BUDDY_MAX_ORDER, the order of the whole pool
          Size          \* Size[k]: ORDER_TO_SIZE(k), in smallest blocks

ASSUME BlocksAssumption ==
  /\ MaxOrder \in Nat
  /\ Size \in [0 .. MaxOrder -> Nat \ {0}]
  /\ \A k \in 0 .. MaxOrder - 1 : Size[k + 1] = 2 * Size[k]

Unit == 0 .. Size[MaxOrder] - 1
=============================================================================
