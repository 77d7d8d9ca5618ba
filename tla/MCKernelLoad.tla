---------------------------- MODULE MCKernelLoad ----------------------------
(***************************************************************************)
(* Machines without a drive, with one and with two; two units to a sector, *)
(* two sectors to a page.  Boot loads two sectors and maps two pages.      *)
(***************************************************************************)
EXTENDS KernelLoad

MCMachines == {<<"satapi">>, <<"none", "sata">>, <<"satapi", "sata", "sata">>}

Ph(type, offset, filesz, memsz) ==
  [type |-> type, offset |-> offset, filesz |-> filesz, memsz |-> memsz]
File(headers) == [supported |-> TRUE, headers |-> headers]
Text(size) == Ph("PT_LOAD", 1, size, size)
Data2(size) == Ph("PT_LOAD", 8, size, 4)

(* All of it loaded by boot; three sectors to load; two and a half; half a *)
(* one; one more than a region holds, and more than a page; a segment that *)
(* ends in a page its size does not reach; an empty one; and for another   *)
(* machine.                                                                *)
MCImages ==
  {File(<<Text(3)>>),
   File(<<Text(5), Data2(2)>>),
   File(<<Text(5), Data2(1), Ph("PT_NULL", 9, 0, 9)>>),
   File(<<Text(4)>>),
   File(<<Text(5), Ph("PT_LOAD", 8, 5, 5)>>),
   File(<<Text(5), Ph("PT_LOAD", 10, 0, 4)>>),
   File(<<Text(7), Ph("PT_LOAD", 10, 0, 3), Ph("PT_LOAD", 16, 0, 4)>>),
   File(<<Text(3), Ph("PT_LOAD", 4, 0, 0)>>),
   [supported |-> FALSE, headers |-> <<Text(3)>>]}

(* Two sectors read, one written, and sectors beyond the disk. *)
MCClientRequests ==
  {[lba |-> 0, count |-> 2, buffer |-> 20, write |-> FALSE],
   [lba |-> 1, count |-> 1, buffer |-> 2, write |-> TRUE],
   [lba |-> 10, count |-> 2, buffer |-> 20, write |-> FALSE]}
MCBootPages == 0 .. 1
=============================================================================
