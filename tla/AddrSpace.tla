----------------------------- MODULE AddrSpace -----------------------------
(***************************************************************************)
(* core/src/addrSpace.c: the kernel's virtual address space.  A range is   *)
(* reserved in the first-fit pool virt_addr_space and then entered in the  *)
(* page tables; a forced range is entered first and reserved afterwards,   *)
(* and a range that cannot be entered is given back.                       *)
(*                                                                         *)
(* A call is several steps, those of mmu_map_memory among them.  Addresses *)
(* are counted in units of which a page has PageSize; at least 2, as the   *)
(* pool ends one unit below the end of memory.  What clients were told     *)
(* (promised), what no client has (lost, spoiled), and whether a forced    *)
(* range has broken the pool (misforced), the code does not keep.          *)
(***************************************************************************)
EXTENDS PageTables, Sequences

CONSTANTS PageSize,
          KernelStart,      \* KERNEL_VIRT_ADDR_SPACE_START, as a page
          Headers,          \* block headers the heap can supply
          KernelMappings,   \* the two calls of make_kernel_mappings
          HooksBefore,      \* other hooks of mmu_init map before it
          Calls, MemMapCalls,   \* what clients ask of the two functions
          MaxLost           \* bound: mem_map is not called with more pages lost

IsCall(c) == /\ c.page \in Nat /\ c.frame \in Nat /\ c.count \in Nat
             /\ c.page + c.count < PageCount /\ c.frame + c.count <= FrameCount
ASSUME AddrSpaceAssumption ==
  /\ PageSize \in Nat \ {0, 1} /\ KernelStart \in Page \ {0} /\ Headers \in Nat \ {0}
  /\ MaxLost \in Nat /\ HooksBefore \in BOOLEAN
  /\ \A c \in Calls \cup {KernelMappings[k] : k \in DOMAIN KernelMappings} : IsCall(c)
  /\ \A c \in MemMapCalls : /\ c.frame \in Nat /\ c.count \in Nat
                            /\ c.frame + c.count <= FrameCount

VARIABLES virt,             \* the free ranges of virt_addr_space
          headers, taken, managed, reply,   \* as in FirstFit: heap, held, ...
          mapped,           \* how many calls make_kernel_mappings has made
          job,              \* the function at work and what it has got
          answer,           \* what the last call returned
          promised,         \* promised[page]: the frame a client was told
          lost, spoiled,    \* pages reserved for nobody; pages of failed calls
          misforced         \* a range was forced that the pool does not support

virtVars == <<virt, headers, taken, managed, reply>>
vars == <<mmuVars, virtVars, mapped, job, answer, promised, lost, spoiled,
          misforced>>

Virt == INSTANCE FirstFitForce WITH
  AddrMod <- PageSize * PageCount, Top <- PageSize * PageCount - 1,
  MaxHeaders <- Headers, Starts <- {}, Sizes <- {}, Alignments <- {},
  pool <- virt, heap <- headers, held <- taken

Pages(c) == c.page .. c.page + c.count - 1
Address(c) == PageSize * c.page
Size(c) == PageSize * c.count
Units(pages) == {a \in managed : a \div PageSize \in pages}
Idle == [by |-> "nobody", forced |-> FALSE, reserved |-> FALSE]

(* mem_init_kernel_addr_space, after which mmu_init calls the hooks. *)
SpaceSize == PageSize * PageCount - 1 - PageSize * KernelStart
Init ==
  /\ MmuInit
  /\ virt = <<[start |-> PageSize * KernelStart, size |-> SpaceSize]>>
  /\ headers = Headers - 1
  /\ taken = {} /\ managed = Virt!Interval(PageSize * KernelStart, SpaceSize)
  /\ reply = [op |-> "add", arg |-> 0, size |-> 0, ok |-> TRUE, addr |-> Virt!Null]
  /\ mapped = 0
  /\ job = Idle /\ answer = "NO_ERROR"
  /\ promised = [p \in Page |-> Null] /\ lost = {} /\ spoiled = {}
  /\ misforced = FALSE

-----------------------------------------------------------------------------
Return(err) == /\ answer' = err /\ job' = Idle
               /\ UNCHANGED <<mmuVars, promised, lost, spoiled, misforced>>

(* firstfit_get_first_free_address, which reads the first block of the     *)
(* list; it is there, since the pool's end is no whole page.               *)
FirstFree == virt[1].start
NoRange == ~ reply'.ok /\ FirstFree # Virt!Null

(* map_inner goes on with mmu_map_memory.  A forced call takes its pages   *)
(* away from whoever was promised them.                                    *)
GoOn(c, by, forced, reserved) ==
  /\ MapMemory(c)
  /\ job' = [by |-> by, forced |-> forced, reserved |-> reserved]
  /\ promised' = IF ~ forced THEN promised
                 ELSE [p \in Page |-> IF p \in Pages(c) THEN Null ELSE promised[p]]
  /\ lost' = IF ~ forced THEN lost
             ELSE lost \cup {p \in Pages(c) : promised[p] # Null /\ p >= KernelStart}
  /\ answer' = "NO_ERROR"
  /\ UNCHANGED <<spoiled, misforced>>

(* Mutant of Reserve: the answer of the pool is not looked at. *)
ReserveAnyway(c) ==
  /\ Virt!AllocAt(Address(c), Size(c))
  /\ GoOn(c, "mem_map_virt_addr", FALSE, TRUE)
Reserve(c) ==
  /\ Virt!AllocAt(Address(c), Size(c))
  /\ \/ NoRange /\ Return("NO_MEMORY")
     \/ ~ NoRange /\ GoOn(c, "mem_map_virt_addr", FALSE, TRUE)

MemMapVirtAddr(c, forced) ==
  /\ job = Idle /\ ~ Corrupted
  /\ \/ c.count = 0 /\ Return("BAD_PARAM") /\ UNCHANGED virtVars
     \/ c.count # 0 /\ ~ forced /\ Reserve(c)
     \/ c.count # 0 /\ forced /\ GoOn(c, "mem_map_virt_addr", TRUE, FALSE)
                    /\ UNCHANGED virtVars

(* mem_map: the alignment is that of a page.  FORCE_MAP makes no difference. *)
MemMap(frame, count) ==
  /\ job = Idle /\ ~ Corrupted
  /\ \/ count = 0 /\ Return("BAD_PARAM") /\ UNCHANGED virtVars
     \/ /\ count # 0
        /\ Virt!AllocAligned(PageSize, PageSize * count)
        /\ \/ NoRange /\ Return("NO_MEMORY")
           \/ /\ ~ NoRange
              /\ GoOn([page |-> reply'.addr \div PageSize, frame |-> frame, count |-> count],
                      "mem_map", FALSE, FALSE)

(* make_kernel_mappings, from a hook. *)
MakeKernelMappings ==
  /\ mapped < Len(KernelMappings)
  /\ answer = "NO_ERROR"
  /\ MemMapVirtAddr(KernelMappings[mapped + 1], TRUE)
  /\ mapped' = mapped + 1

Mapping == /\ Step
           /\ UNCHANGED <<virtVars, mapped, job, answer, promised, lost, spoiled, misforced>>

(* mmu_map_memory has returned.  A forced range is reserved now; from an   *)
(* allocator that lacks headers that call does not return.                 *)
TakeForced ==
  IF job.by = "mem_map_virt_addr" /\ job.forced
  THEN /\ Virt!ForceAlloc(Address(call), Size(call))
       /\ misforced' = (misforced \/ ~ Virt!Supported(Address(call), Size(call)))
  ELSE UNCHANGED <<virtVars, misforced>>
Told == /\ promised' = [p \in Page |-> IF p \in Pages(call) THEN call.frame + p - call.page
                                       ELSE promised[p]]
        /\ lost' = lost \ Pages(call) /\ spoiled' = spoiled \ Pages(call)

(* Mutant of Succeed: a forced range is not reserved. *)
SucceedUnreserved ==
  /\ ret = "NO_ERROR"
  /\ UNCHANGED <<virtVars, misforced>>
  /\ Told
Succeed ==
  /\ ret = "NO_ERROR"
  /\ TakeForced /\ ~ Virt!Hung'
  /\ Told
Hang ==
  /\ job # Idle /\ pc = "idle" /\ ~ Virt!Hung
  /\ ret = "NO_ERROR"
  /\ TakeForced /\ Virt!Hung'
  /\ UNCHANGED <<mmuVars, mapped, job, answer, promised, lost, spoiled>>

(* What firstfit_alloc_with_start_addr has given goes back; the range of   *)
(* mem_map stays, and the caller is told of a failure.                     *)
(* Mutants of GivesBack: NULL != ret_virt_addr is not asked for; no range *)
(* is given back.                                                         *)
GivesBackAlways == job.by = "mem_map_virt_addr"
GivesBackNever == FALSE
GivesBack == job.reserved
Fail ==
  /\ ret # "NO_ERROR"
  /\ IF GivesBack THEN Virt!Free(Address(call), Size(call)) ELSE UNCHANGED virtVars
  /\ lost' = IF job.by = "mem_map" THEN lost \cup Pages(call) ELSE lost
  /\ spoiled' = spoiled \cup Pages(call)
  /\ UNCHANGED <<promised, misforced>>

Finish ==
  /\ job # Idle /\ pc = "idle" /\ ~ Virt!Hung
  /\ Succeed \/ Fail
  /\ answer' = ret /\ job' = Idle
  /\ UNCHANGED <<mmuVars, mapped>>

-----------------------------------------------------------------------------
(* No range clients ask for may reach the end of memory, where the sums of *)
(* the pool wrap (a range that does is granted), and those they force are  *)
(* such as firstfit_force_alloc supports (FirstFitForce).                  *)
NoWrap(count) == \A k \in DOMAIN virt :
                   virt[k].start + PageSize * (count + 1) < PageSize * PageCount
Request ==
  \/ \E c \in Calls : MemMapVirtAddr(c, FALSE)
  \/ \E c \in Calls : Virt!Supported(Address(c), Size(c)) /\ MemMapVirtAddr(c, TRUE)
  \/ \E c \in MemMapCalls :
       Cardinality(lost) <= MaxLost /\ NoWrap(c.count) /\ MemMap(c.frame, c.count)

(* make_kernel_mappings expects to be called first (line 140); as linked,   *)
(* hooks that map call before it.  Mutant of ClientCalls: at any time.      *)
ClientCallsAnyTime == UNCHANGED mapped /\ Request
ClientCalls ==
  /\ mapped = Len(KernelMappings) \/ (HooksBefore /\ mapped = 0)
  /\ UNCHANGED mapped
  /\ Request

Next == MakeKernelMappings \/ ClientCalls \/ Mapping \/ Finish \/ Hang

Spec == Init /\ [][Next]_vars

-----------------------------------------------------------------------------
(* PromisesKept.  A page that mem_map or mem_map_virt_addr has mapped for  *)
(* a client leads to the frame it was mapped to until a forced call takes  *)
(* the page: no other call touches it, those that fail half-way included.  *)
PromisesKept ==
  Corrupted \/ \A p \in Page : promised[p] # Null => VirtToPhys(p) = promised[p]

(* RangesAccounted.  The pool and the clients agree: what is reserved was  *)
(* promised to a client, is being mapped, or is lost; and what was         *)
(* promised, forced or not, is reserved.  Pages are lost only by a mem_map *)
(* that fails and by a forced call that fails on pages of others.          *)
InHand == IF job.reserved \/ job.by = "mem_map" THEN Pages(call) ELSE {}
RangesAccounted ==
  taken = Units({p \in Page : promised[p] # Null} \cup lost \cup InHand)

(* RollbackSucceeds.  When map_inner gives a range back the pool takes it: *)
(* "Pool corrupted!" (addrSpace.c:96-99) does not happen.                  *)
RollbackSucceeds == reply.op = "free" => reply.ok

(* LazilyAllocated.  "Lazily allocate virtual address space" (line 84): a  *)
(* range that was forced is reserved when the call returns.                *)
LazilyAllocated ==
  reply.op = "force" =>
    Virt!Interval(reply.arg, reply.size) \cap Virt!FreeAddrs = {}

(* FreeUnmapped.  Whatever is free in the pool is not mapped, unless a     *)
(* call failed on it: what that had entered stays entered.                 *)
FreeUnmapped ==
  mapped = Len(KernelMappings) /\ job = Idle /\ ~ Corrupted =>
    \A p \in KernelStart .. PageCount - 1 :
      PageSize * p \in Virt!FreeAddrs /\ p \notin spoiled => VirtToPhys(p) = Null

-----------------------------------------------------------------------------
(* MisforcedByArea.  firstfit_force_alloc breaks the pool only where one of *)
(* the kernel's mappings reaches beyond the first, as it does with the       *)
(* KERNEL_AREA_SIZE of linker.ld, or where a hook maps before them: the      *)
(* first takes the front of the pool, and the others find nothing free.      *)
First == KernelMappings[1]
Overhangs == \E k \in DOMAIN KernelMappings : ~ (Pages(KernelMappings[k]) \subseteq Pages(First))
MisforcedByArea == misforced => Overhangs \/ HooksBefore

(* Of which machines AddrSpaceProofs proves this.  The kernel's part of the  *)
(* address space is the upper half of memory or less                         *)
(* (KERNEL_VIRT_ADDR_SPACE_START); no page asked for is reached through the  *)
(* mirror of the PML4; there are mappings of the kernel, and the first is    *)
(* from where its part starts.                                               *)
KernelPages == KernelStart .. PageCount - 1
KernelIsUpper == PageCount <= 2 * KernelStart
AsksOwn == /\ KernelPages \subseteq Own
           /\ \A c \in Calls : Pages(c) \subseteq Own
           /\ \A k \in DOMAIN KernelMappings : Pages(KernelMappings[k]) \subseteq Own
SomeMappings == KernelMappings \in Seq([page : Nat, frame : Nat, count : Nat]) \ {<<>>}
CallsOwn == KernelIsUpper /\ AsksOwn /\ SomeMappings
StartsFirst == First.page = KernelStart

(* "These mappings are made in the boot stage": of the kernel's pages those  *)
(* of the first mapping are all that the tables of the boot sector map.      *)
BootMapsFirst == \A p \in KernelPages : WalkIn(BootEntry, p)[-1] # Null => p \in Pages(First)
=============================================================================
