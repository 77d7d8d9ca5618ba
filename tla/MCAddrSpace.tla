---------------------------- MODULE MCAddrSpace ----------------------------
(***************************************************************************)
(* Four levels of tables with four slots each, not all of them used: page  *)
(* directories have four page tables, PDPTs two page directories, and the  *)
(* PML4 slots 0, 1 and 3.  As at boot, one PDPT is reached from the first  *)
(* slot of the PML4 and from the last, and under it two page tables map    *)
(* the first eight frames to themselves.  Three more tables can be made.   *)
(***************************************************************************)
EXTENDS AddrSpace

MCSlot == 0 .. 3
MCIndex ==
  [p \in 0 .. PageCount - 1 |->
    [l \in 0 .. Root |-> CASE l = 0 -> p % 4
                          [] l = 1 -> (p \div 4) % 4
                          [] l = 2 -> (p \div 16) % 2
                          [] l = 3 -> (<<0, 1, 3>>)[p \div 32 + 1]]]

(* A table with these entries and no other one. *)
Of(entries) == [s \in MCSlot |-> IF s \in DOMAIN entries THEN entries[s] ELSE -1]
MCBootEntry ==
  [t \in 0 .. 4 |->
    CASE t = 0 -> Of([s \in {0, 3} |-> 1])      \* the PML4
      [] t = 1 -> Of([s \in {0} |-> 2])         \* the PDPT
      [] t = 2 -> Of([s \in {0, 1} |-> 3 + s])  \* the page directory
      [] t = 3 -> Of([s \in MCSlot |-> s])
      [] t = 4 -> Of([s \in MCSlot |-> 4 + s])]
MCPool == 5 .. 7
MCRubbish == Of([s \in {0, 3} |-> 3])

(* Page, frame, count. *)
CallOf(c) == [page |-> c[1], frame |-> c[2], count |-> c[3]]

(* The identity-mapped pages, and the kernel area within them; or beyond. *)
MCKernelWithin == <<CallOf(<<64, 0, 8>>), CallOf(<<69, 5, 3>>)>>
MCKernelBeyond == <<CallOf(<<64, 0, 8>>), CallOf(<<69, 5, 5>>)>>

(* The kernel's part of the address space is under slot 3 of the PML4, its *)
(* first free page is 72.   Two page tables; a page; two page directories; *)
(* a page that needs all three tables; no page at all.  Two forced ranges  *)
(* out of the middle of free ones need more headers than there are.        *)
MCCalls ==
  {CallOf(c) : c \in {<<75, 8, 2>>, <<78, 8, 1>>, <<79, 7, 3>>, <<32, 9, 1>>, <<72, 8, 0>>}}
MCMemMapCalls == {[frame |-> 9, count |-> n] : n \in {0, 1}} \cup {[frame |-> 7, count |-> 3]}

(* What AddrSpaceProofs assumes is so here, in either configuration. *)
ASSUME CallsOwn /\ StartsFirst /\ BootMapsFirst
=============================================================================
