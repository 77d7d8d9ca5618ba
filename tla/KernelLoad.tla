----------------------------- MODULE KernelLoad -----------------------------
(***************************************************************************)
(* core/src/init.c and elfLoader.c: load_entire_kernel, the hook that runs *)
(* after ahci_init.  It reads what the boot sector has left on the disk of *)
(* the kernel's file, and elf_load maps the file's segments.               *)
(*                                                                         *)
(* The file lies at ELF_START_ADDR, which is unit 0 here, and the linker   *)
(* script puts each segment's physical address where its data lies in that *)
(* image, and its virtual address at a fixed distance; so pages are known  *)
(* by their physical numbers.  The disk's units hold their own numbers.    *)
(* is_kernel is TRUE: elf_load has no other caller.                        *)
(***************************************************************************)
EXTENDS Ahci

CONSTANTS Images,           \* the files that may be on the disk
          BootLoadedSectors, NextLba,   \* BOOT_LOADED_SECTORS, NEXT_LBA_TO_LOAD
          PageUnits,        \* PAGE_SIZE
          BootPages,        \* the pages that boot has mapped
          ClientRequests    \* what is read and written later

ASSUME KernelLoadAssumption ==
  /\ BootLoadedSectors \in Nat \ {0} /\ NextLba \in Nat /\ PageUnits \in Nat \ {0}
  /\ \A r \in ClientRequests : r.count \in Nat

(* The segments of a file that is to be loaded fit into memory, and where   *)
(* one of them is to be cleared, none has data.                             *)
ProgramHeader == [type : STRING, offset : Nat, filesz : Nat, memsz : Nat]
SegmentFits(ph) == ph.filesz <= ph.memsz /\ ph.offset + ph.memsz <= MemoryUnits
ClearOf(ph, other) ==
  \/ ph.memsz = ph.filesz \/ other.filesz = 0
  \/ ph.offset + ph.memsz <= other.offset
  \/ other.offset + other.filesz <= ph.offset + ph.filesz

ASSUME ImagesAssumption ==
  \A i \in Images :
    /\ i.headers \in Seq(ProgramHeader)
    /\ \A j, k \in DOMAIN i.headers :
         i.headers[j].type = "PT_LOAD" /\ i.headers[k].type = "PT_LOAD" =>
           SegmentFits(i.headers[j]) /\ ClearOf(i.headers[j], i.headers[k])

VARIABLES image, header,    \* the file; the loop counter of elf_load
          mapped,           \* the pages that are mapped
          stage             \* where load_entire_kernel is

loadVars == <<image, header, mapped, stage>>
vars == <<ahciVars, loadVars>>

Zero == -1
Unwritten == -2
FileLba == NextLba - BootLoadedSectors
FileUnit(u) == FileLba * SectorUnits + u
Loaded == BootLoadedSectors * SectorUnits

Headers == {image.headers[k] : k \in DOMAIN image.headers}
(* elf_get_load_size: of whatever type the headers are. *)
LoadSize == Max({0} \cup {ph.offset + ph.filesz : ph \in Headers})

Init ==
  /\ AhciInit
  /\ image \in Images
  /\ disk = [s \in Sector |-> [k \in 0 .. SectorUnits - 1 |-> s * SectorUnits + k]]
  /\ memory = [u \in Unit |-> IF u < Loaded THEN FileUnit(u) ELSE Unwritten]
  /\ header = 1 /\ mapped = BootPages /\ stage = "ahci_init"

-----------------------------------------------------------------------------
(* The number of sectors is rounded down. *)
ToLoad == [lba |-> NextLba, count |-> (LoadSize - Loaded) \div SectorUnits,
           buffer |-> Loaded, write |-> FALSE]

ReadRest ==
  /\ stage = "ahci_init" /\ LoadSize > Loaded
  /\ Request(ToLoad)
  /\ stage' = "reading"
  /\ UNCHANGED <<image, header, mapped>>

NothingToRead ==
  /\ stage = "ahci_init" /\ LoadSize <= Loaded
  /\ pc = "idle" /\ stage' = "elf_load"
  /\ UNCHANGED <<ahciVars, image, header, mapped>>

RestRead ==
  /\ stage = "reading" /\ pc = "idle"
  /\ IF ret = "NO_ERROR" THEN stage' = "elf_load" /\ UNCHANGED <<pc, ret>>
                         ELSE stage' = "failed" /\ HookFails("idle", ret)
  /\ UNCHANGED <<initVars, deviceVars, table, req, slot, memory, disk, image, header, mapped>>

Fails(err) == /\ stage' = "failed" /\ HookFails("idle", err)
              /\ UNCHANGED <<memory, header, mapped>>

(* elf_load: byte order and machine, or the class, are not those supported. *)
NotSupported == ~ image.supported /\ Fails("NOT_SUPPORTED")

(* One program header.  The number of pages is that of p_memsz, rounded    *)
(* up, from the page of p_vaddr on; mem_map_virt_addr refuses 0 pages, and *)
(* may run out of tables.  Then the rest of the segment is cleared, and    *)
(* the core faults for good if that is not mapped.                         *)
Header == image.headers[header]
(* Mutant of PageCount: it is rounded down. *)
PageCountDown(ph) == ph.memsz \div PageUnits
PageCount(ph) == (ph.memsz + PageUnits - 1) \div PageUnits
MappedBy(ph) == ph.offset \div PageUnits .. ph.offset \div PageUnits + PageCount(ph) - 1
(* Mutant of Cleared: all of the segment is cleared. *)
ClearedAll(ph) == ph.offset .. ph.offset + ph.memsz - 1
Cleared(ph) == ph.offset + ph.filesz .. ph.offset + ph.memsz - 1
PageOf(unit) == unit \div PageUnits

SkipHeader == /\ Header.type # "PT_LOAD"
              /\ header' = header + 1
              /\ UNCHANGED <<pc, ret, memory, mapped, stage>>

MapFails == \/ PageCount(Header) = 0 /\ Fails("BAD_PARAM")
            \/ PageCount(Header) # 0 /\ ~ MappedBy(Header) \subseteq BootPages /\ Fails("NO_MEMORY")

MapSegment ==
  /\ PageCount(Header) # 0
  /\ mapped' = mapped \cup MappedBy(Header)
  /\ \/ /\ \A u \in Cleared(Header) : PageOf(u) \in mapped'
        /\ memory' = [u \in Unit |-> IF u \in Cleared(Header) THEN Zero ELSE memory[u]]
        /\ stage' = stage
     \/ /\ \E u \in Cleared(Header) : PageOf(u) \notin mapped'
        /\ memory' = memory
        /\ stage' = "faulting"
  /\ header' = header + 1
  /\ UNCHANGED <<pc, ret>>

ElfLoad ==
  /\ stage = "elf_load" /\ pc = "idle"
  /\ \/ NotSupported
     \/ /\ image.supported /\ header \in DOMAIN image.headers
        /\ \/ SkipHeader
           \/ Header.type = "PT_LOAD" /\ (MapFails \/ MapSegment)
     \/ /\ image.supported /\ header \notin DOMAIN image.headers
        /\ stage' = "loaded"
        /\ UNCHANGED <<pc, ret, memory, header, mapped>>
  /\ UNCHANGED <<initVars, deviceVars, table, req, slot, disk, image>>

(* Whoever asks for sectors afterwards; twice is enough to see what an     *)
(* error leaves behind.                                                    *)
Later == <<"loaded", "used", "used_again">>
ClientCalls ==
  /\ \E k \in 1 .. 2 : stage = Later[k] /\ stage' = Later[k + 1]
  /\ \E r \in ClientRequests : Request(r)
  /\ UNCHANGED <<image, header, mapped>>

-----------------------------------------------------------------------------
Driver == (FindController \/ InitPorts \/ ReadWrite) /\ UNCHANGED loadVars
Controller == Follow /\ UNCHANGED loadVars
Drive == Device /\ UNCHANGED loadVars
Load == ReadRest \/ NothingToRead \/ RestRead \/ ElfLoad

Next == Driver \/ Load \/ ClientCalls \/ Controller \/ Drive

(* The core runs, and so do the controller and the drive by themselves. *)
Spec == Init /\ [][Next]_vars
             /\ WF_vars(Driver) /\ WF_vars(Controller) /\ WF_vars(Drive)

-----------------------------------------------------------------------------
(* KernelInPlace.  When load_entire_kernel has succeeded, each segment     *)
(* holds its data and then zeros, and no other memory has changed,         *)
(* although part of the file came from the boot sector, the rest from the  *)
(* driver, and elf_load clears memory when later segments are in place     *)
(* already.  Left out is what the code leaves out: the last sector if it   *)
(* is not full, and files that have less than a sector to load, or more    *)
(* than one region holds.                                                  *)
Segments == {ph \in Headers : ph.type = "PT_LOAD"}
Data(ph) == ph.offset .. ph.offset + ph.filesz - 1
All(ph) == ph.offset .. ph.offset + ph.memsz - 1
Read == IF LoadSize <= Loaded THEN 0 ELSE ToLoad.count
Loadable == LoadSize <= Loaded \/ Read \in 1 .. PrdSectors
Present == 0 .. Loaded + Read * SectorUnits - 1
KernelInPlace ==
  stage = "loaded" /\ Loadable =>
    /\ \A ph \in Segments : /\ \A u \in Data(ph) \cap Present : memory[u] = FileUnit(u)
                            /\ \A u \in All(ph) \ Data(ph) : memory[u] = Zero
    /\ \A u \in Unit \ (Present \cup UNION {All(ph) : ph \in Segments}) :
         memory[u] = Unwritten

(* SegmentsMapped.  Every page of the kernel's segments is mapped then,    *)
(* but for the last one of a segment that starts inside a page, which      *)
(* mem_map_virt_addr is not told of; boot's mappings must cover that.      *)
SegmentsMapped ==
  stage = "loaded" => \A ph \in Segments : \A u \in All(ph) :
    \/ PageOf(u) \in mapped
    \/ ph.offset % PageUnits # 0 /\ PageOf(u) = PageOf(ph.offset + ph.memsz - 1)
=============================================================================
