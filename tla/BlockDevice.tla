---------------------------- MODULE BlockDevice ----------------------------
(***************************************************************************)
(* What a disk driver promises its one client.  A request moves sectors    *)
(* between the disk and the client's buffer, in order, and touches nothing *)
(* else; it succeeds only when all of them have been moved, and may fail   *)
(* at any time.  Of a request for a number of sectors outside Counts       *)
(* nothing is promised but that it leaves the disk alone when it reads.    *)
(***************************************************************************)
EXTENDS Integers

CONSTANTS Unit,             \* the addresses of memory
          SectorUnits,      \* how many of them a sector fills
          Sector,           \* the sectors of the disk
          Counts            \* the numbers of sectors that may be asked for

VARIABLES memory, disk,     \* memory[unit], disk[sector][0 .. SectorUnits - 1]
          request,          \* the request under way, or one of count -1
          moved,            \* how many of its sectors are where they should be
          result            \* what the last request returned

vars == <<memory, disk, request, moved, result>>

None == [lba |-> 0, count |-> -1, buffer |-> 0, write |-> FALSE]

Init == request = None /\ moved = 0

Ask == /\ request = None /\ request' # None
       /\ moved' = 0
       /\ UNCHANGED <<memory, disk, result>>

(* Memory with a sector's data at an address, and the data of an address. *)
Filled(data, address) ==
  [u \in Unit |-> IF u \in address .. address + SectorUnits - 1
                  THEN data[u - address] ELSE memory[u]]
Taken(address) == [k \in 0 .. SectorUnits - 1 |-> memory[address + k]]

Move ==
  LET sector == request.lba + moved
      address == request.buffer + moved * SectorUnits
  IN /\ moved < request.count
     /\ IF request.write
        THEN disk' = [disk EXCEPT ![sector] = Taken(address)] /\ memory' = memory
        ELSE memory' = Filled(disk[sector], address) /\ disk' = disk
     /\ moved' = moved + 1
     /\ UNCHANGED <<request, result>>

Succeed == /\ moved = request.count
           /\ request' = None /\ moved' = 0
           /\ result' = "NO_ERROR"
           /\ UNCHANGED <<memory, disk>>

Fail == /\ request # None
        /\ request' = None /\ moved' = 0
        /\ result' # "NO_ERROR"
        /\ UNCHANGED <<memory, disk>>

Unforeseen == /\ request # None /\ request.count \notin Counts
              /\ ~ request.write => disk' = disk

(* The client uses its memory, and forgets the result, while it waits for  *)
(* nothing.                                                                *)
Compute == request = None /\ UNCHANGED <<disk, request, moved>>

Next == Ask \/ Move \/ Succeed \/ Fail \/ Unforeseen \/ Compute

Spec == Init /\ [][Next]_vars
=============================================================================
