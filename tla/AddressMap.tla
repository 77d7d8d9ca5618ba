----------------------------- MODULE AddressMap -----------------------------
(***************************************************************************)
(* What an address space promises.  Clients ask for pages to be mapped to  *)
(* frames; these are mapped one by one, and no other page changes.  A      *)
(* request may be given up, and what it has mapped until then stays.  An   *)
(* address space that has broken down promises nothing any more.           *)
(***************************************************************************)
CONSTANTS Page, Frame, Null

VARIABLES map, asked, broken

vars == <<map, asked, broken>>

Init == /\ map \in [Page -> Frame \cup {Null}]
        /\ asked = {}
        /\ broken = FALSE

Ask == /\ asked = {} /\ ~ broken
       /\ asked' \subseteq [page : Page, frame : Frame]
       /\ \A a, b \in asked' : a.page = b.page => a = b
       /\ UNCHANGED <<map, broken>>

Map == /\ ~ broken
       /\ \E a \in asked : /\ map' = [map EXCEPT ![a.page] = a.frame]
                           /\ asked' = asked \ {a}
       /\ UNCHANGED broken

GiveUp == /\ ~ broken
          /\ asked' = {}
          /\ UNCHANGED <<map, broken>>

Break == /\ ~ broken
         /\ broken' = TRUE
         /\ UNCHANGED asked

Next == Ask \/ Map \/ GiveUp \/ Break

Spec == Init /\ [][Next]_vars
=============================================================================
