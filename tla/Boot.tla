-------------------------------- MODULE Boot --------------------------------
(***************************************************************************)
(* Start-up of the cores: the end of bootloader.s, boot_main (init.c) with *)
(* the calls it makes, and lapic_start_aps (lapic.c).  Core 0 is the boot  *)
(* core; the others wait until it sends them an INIT and two start-up      *)
(* IPIs.  Every core runs call_main and boot_main, which of the two paths  *)
(* through it is decided by CPU_INDEX.                                     *)
(*                                                                         *)
(* The cores' steps interleave.  An instruction that adds to memory is two *)
(* of them, as it is not locked.  boot_spinlock is the lock of QueueLock,  *)
(* which SpinLock implements.  The memory area is counted in units of      *)
(* KSTACK_SIZE; what is left of it below the first whole unit is smaller   *)
(* than anything that is asked for.  The first stacks are counted too: the *)
(* k-th TEMP_STACK_BASE is 0x7000 + k * 0x280.  ap_start loads 32 bits and *)
(* so CPU_INDEX, which is behind it, as the upper half (bootloader.s:79):  *)
(* whatever that is, stacks of different k are apart.                      *)
(***************************************************************************)
EXTENDS Integers, Sequences, FiniteSetsExt

CONSTANTS CoreCount, AreaSize

ASSUME BootAssumption == CoreCount \in Nat \ {0} /\ AreaSize \in Nat \ {0, 1, 2}

Core == 0 .. CoreCount - 1
Unit == 1 .. AreaSize
Null == 0
Owner == {<<"free">>, <<"heap">>, <<"tables">>} \cup ({"stack"} \X Core)

VARIABLES pc,                           \* where each core is
          temp_base, cpu_index,         \* TEMP_STACK_BASE, CPU_INDEX
          reg, rdi, stack,              \* of each core: what an addition has
                                        \* read, its index, its first stack
          hook, tables,                 \* the hook that is next; whether a
                                        \* table of mmu_mem_pool is in use
          target, sent,                 \* lapic_start_aps: apic_id and i
          queue, taken,                 \* boot_spinlock
          owner, base                   \* the memory area; stack_base

assembly == <<temp_base, cpu_index, reg, rdi, stack>>
memory == <<hook, tables, owner, base>>
ipis == <<target, sent>>
lock == <<queue, taken>>
vars == <<pc, assembly, memory, ipis, lock>>

Lock == INSTANCE QueueLock WITH Cores <- Core

Of(value) == [c \in Core |-> value]

Init == /\ pc = [c \in Core |-> IF c = 0 THEN "load_index" ELSE "off"]
        /\ temp_base = 0 /\ cpu_index = 0
        /\ reg = Of(0) /\ rdi = Of(0) /\ stack = Of(0)
        /\ hook = 0 /\ tables = FALSE
        /\ target = 0 /\ sent = 0
        /\ Lock!Init
        /\ owner = [u \in Unit |-> <<"free">>] /\ base = Of(Null)

Go(c, from, to) == pc[c] = from /\ pc' = [pc EXCEPT ![c] = to]

-----------------------------------------------------------------------------
(* ap_start: add [TEMP_STACK_BASE], ax; mov ebp, [TEMP_STACK_BASE]. *)
ReadBase(c) == /\ Go(c, "read_base", "add_base")
               /\ reg' = [reg EXCEPT ![c] = temp_base]
               /\ UNCHANGED <<temp_base, cpu_index, rdi, stack, memory, ipis, lock>>

AddBase(c) == /\ Go(c, "add_base", "load_base")
              /\ temp_base' = reg[c] + 1
              /\ UNCHANGED <<cpu_index, reg, rdi, stack, memory, ipis, lock>>

(* mov ebp, [TEMP_STACK_BASE]: the lower half tells the stacks apart. *)
LoadBase(c) == /\ Go(c, "load_base", "load_index")
               /\ stack' = [stack EXCEPT ![c] = temp_base]
               /\ UNCHANGED <<temp_base, cpu_index, reg, rdi, memory, ipis, lock>>

(* call_main: mov rdi, [CPU_INDEX]; add [CPU_INDEX], byte 1. *)
LoadIndex(c) == /\ Go(c, "load_index", "read_index")
                /\ rdi' = [rdi EXCEPT ![c] = cpu_index]
                /\ UNCHANGED <<temp_base, cpu_index, reg, stack, memory, ipis, lock>>

ReadIndex(c) == /\ Go(c, "read_index", "add_index")
                /\ reg' = [reg EXCEPT ![c] = cpu_index]
                /\ UNCHANGED <<temp_base, cpu_index, rdi, stack, memory, ipis, lock>>

(* Mutant of AddIndex: nothing is added. *)
AddIndexNothing(c) == /\ Go(c, "add_index", "boot_main")
                      /\ cpu_index' = reg[c]
                      /\ UNCHANGED <<temp_base, reg, rdi, stack, memory, ipis, lock>>
AddIndex(c) == /\ Go(c, "add_index", "boot_main")
               /\ cpu_index' = reg[c] + 1
               /\ UNCHANGED <<temp_base, reg, rdi, stack, memory, ipis, lock>>

(* boot_main(cpu_index) *)
BootMain(c) == /\ Go(c, "boot_main", IF rdi[c] = 0 THEN "core_init" ELSE "ask")
               /\ UNCHANGED <<assembly, memory, ipis, lock>>

-----------------------------------------------------------------------------
(* The boot core.  Whatever fails there stops it for ever. *)
Hang(c) == /\ pc[c] \in {"core_init", "mmu_init", "call_hooks", "lapic_init", "boot_end"}
           /\ pc' = [pc EXCEPT ![c] = "hung"]
           /\ UNCHANGED <<assembly, memory, ipis, lock>>

FreeUnits == {u \in Unit : owner[u] = <<"free">>}

(* init_mem: the heap is at the start of the memory area. *)
CoreInit(c) == /\ Go(c, "core_init", "mmu_init")
               /\ 1 \in FreeUnits
               /\ owner' = [owner EXCEPT ![1] = <<"heap">>]
               /\ UNCHANGED <<assembly, hook, tables, base, ipis, lock>>

(* The hooks of MMU_INIT_END in the order in which the linker puts them:   *)
(* bin/core/src_addrSpace.c.o, bin/core/src_init.c.o,                      *)
(* bin/drivers/src_ahci.c.o.                                               *)
MmuInitEnd == <<"make_kernel_mappings", "load_entire_kernel", "ahci_init">>

(* mmu_init: the pool of tables takes two units. *)
MmuInit(c) == /\ Go(c, "mmu_init", "call_hooks")
              /\ \E u \in FreeUnits :
                   /\ u = Min({v \in FreeUnits : v + 1 \in FreeUnits})
                   /\ owner' = [owner EXCEPT ![u] = <<"tables">>, ![u + 1] = <<"tables">>]
              /\ hook' = Len(MmuInitEnd)
              /\ UNCHANGED <<assembly, tables, base, ipis, lock>>

(* call_static_hook_functions goes through them from the last to the       *)
(* first.  ahci_init maps the controller's registers, and the kernel area  *)
(* is larger than what boot has mapped: both need new tables.              *)
Allocating == {"ahci_init", "make_kernel_mappings"}

CallHook(c) == /\ pc[c] = "call_hooks" /\ hook > 0
               /\ tables' = (tables \/ MmuInitEnd[hook] \in Allocating)
               /\ hook' = hook - 1
               /\ UNCHANGED <<pc, assembly, owner, base, ipis, lock>>

HooksCalled(c) == /\ hook = 0
                  /\ Go(c, "call_hooks", "lapic_init")
                  /\ UNCHANGED <<assembly, memory, ipis, lock>>

LapicInit(c) == /\ Go(c, "lapic_init", "init_lock")
                /\ tables' = TRUE
                /\ UNCHANGED <<assembly, hook, owner, base, ipis, lock>>

InitLock(c) == /\ Go(c, "init_lock", "ask")
               /\ queue' = <<>> /\ taken' = FALSE
               /\ UNCHANGED <<assembly, memory, ipis>>

-----------------------------------------------------------------------------
(* The first section under boot_spinlock: the boot core starts the others, *)
(* which enable their local APICs.                                         *)

(* Mutant of Ask: the application processors do not ask. *)
AskBootCore(c) == /\ Go(c, "ask", IF rdi[c] = 0 THEN "wait" ELSE "lapic_enable")
                  /\ IF rdi[c] = 0 THEN Lock!Ask(c) ELSE UNCHANGED lock
                  /\ UNCHANGED <<assembly, memory, ipis>>
Ask(c) == /\ Go(c, "ask", "wait")
          /\ Lock!Ask(c)
          /\ UNCHANGED <<assembly, memory, ipis>>

Take(c) == /\ Go(c, "wait", IF rdi[c] = 0 THEN "start_aps" ELSE "lapic_enable")
           /\ Lock!Take(c)
           /\ UNCHANGED <<assembly, memory, ipis>>

LapicEnable(c) == /\ Go(c, "lapic_enable", "give")
                  /\ UNCHANGED <<assembly, memory, ipis, lock>>

Give(c) == /\ Go(c, "give", "ask_again")
           /\ Lock!Give(c)
           /\ UNCHANGED <<assembly, memory, ipis>>

(* lapic_start_aps, for each processor in turn: INIT and 10 ms of waiting. *)
SendInit(c) ==
  /\ pc[c] = "start_aps" /\ target < CoreCount - 1
  /\ target' = target + 1 /\ sent' = 0
  /\ pc' = [pc EXCEPT ![c] = "pit_wait", ![target'] = "wait_sipi"]
  /\ UNCHANGED <<assembly, memory, lock>>

(* pit_wait_ms waits for whole ticks of 10 ms.  In one, a processor that   *)
(* has been started gets through ap_start.                                 *)
(* Mutant of Ticks: the frequency is taken for 10 Hz. *)
TicksOfTenHz(ms) == (10 * ms) \div 1000
Ticks(ms) == (100 * ms) \div 1000
Settled == \A c \in Core : pc[c] \notin {"read_base", "add_base", "load_base"}
Waited(ms) == Ticks(ms) > 0 => Settled

PitWait(c) == /\ Waited(10)
              /\ Go(c, "pit_wait", "send_sipi")
              /\ UNCHANGED <<assembly, memory, ipis, lock>>

(* Two start-up IPIs, each with a wait of 1 ms after it.  The processor    *)
(* may miss the first, and ignores one when it runs already.               *)
SipisOne == 1           \* mutant of Sipis
Sipis == 2
SendSipi(c) ==
  /\ pc[c] = "send_sipi" /\ Waited(1)
  /\ sent' = sent + 1
  /\ \E starts \in BOOLEAN :
       /\ starts \/ sent = 0
       /\ pc' = [pc EXCEPT ![c] = IF sent' < Sipis THEN "send_sipi" ELSE "start_aps",
                           ![target] = IF starts /\ @ = "wait_sipi"
                                       THEN "read_base" ELSE @]
  /\ UNCHANGED <<assembly, memory, target, lock>>

ApsStarted(c) == /\ target = CoreCount - 1
                 /\ Go(c, "start_aps", "give")
                 /\ UNCHANGED <<assembly, memory, ipis, lock>>

-----------------------------------------------------------------------------
(* The second section under boot_spinlock: the hooks of BOOT_END on the    *)
(* boot core (there are none), and a stack for each core.                  *)

(* Mutant of AskAgain: the stack is allocated without the lock. *)
AskAgainNever(c) == /\ Go(c, "ask_again", "find_stack")
                    /\ UNCHANGED <<assembly, memory, ipis, lock>>
AskAgain(c) == /\ Go(c, "ask_again", "wait_again")
               /\ Lock!Ask(c)
               /\ UNCHANGED <<assembly, memory, ipis>>

TakeAgain(c) == /\ Go(c, "wait_again", IF c = 0 THEN "boot_end" ELSE "find_stack")
                /\ Lock!Take(c)
                /\ UNCHANGED <<assembly, memory, ipis>>

BootEnd(c) == /\ Go(c, "boot_end", "find_stack")
              /\ UNCHANGED <<assembly, memory, ipis, lock>>

(* mem_area_alloc_with_alignment: the search, and the change to the list. *)
FindStack(c) == /\ Go(c, "find_stack", "take_stack")
                /\ base' = [base EXCEPT ![c] = IF FreeUnits = {} THEN Null
                                               ELSE Min(FreeUnits)]
                /\ UNCHANGED <<assembly, hook, tables, owner, ipis, lock>>

TakeStack(c) == /\ Go(c, "take_stack", "give_again")
                /\ owner' = IF base[c] = Null THEN owner
                            ELSE [owner EXCEPT ![base[c]] = <<"stack", c>>]
                /\ UNCHANGED <<assembly, hook, tables, base, ipis, lock>>

(* smp_unlock; then run_func_with_stack leaves the first stack and enters  *)
(* core_entry, which does not return.                                      *)
GiveAgain(c) == /\ Go(c, "give_again", "core_entry")
                /\ Lock!Give(c)
                /\ UNCHANGED <<assembly, memory, ipis>>

Assembly(c) == \/ ReadBase(c) \/ AddBase(c) \/ LoadBase(c)
               \/ LoadIndex(c) \/ ReadIndex(c) \/ AddIndex(c)
BootCore(c) == \/ CoreInit(c) \/ MmuInit(c) \/ CallHook(c) \/ HooksCalled(c)
               \/ LapicInit(c) \/ InitLock(c)
               \/ SendInit(c) \/ PitWait(c) \/ SendSipi(c) \/ ApsStarted(c)
               \/ BootEnd(c)
EveryCore(c) == \/ BootMain(c) \/ Ask(c) \/ Take(c) \/ LapicEnable(c) \/ Give(c)
                \/ AskAgain(c) \/ TakeAgain(c) \/ FindStack(c) \/ TakeStack(c)
                \/ GiveAgain(c)

Step(c) == Assembly(c) \/ BootCore(c) \/ EveryCore(c)
Next == \E c \in Core : Step(c) \/ Hang(c)

Spec == Init /\ [][Next]_vars

(* A core runs until it hangs or is in core_entry. *)
FairSpec == Spec /\ \A c \in Core : WF_vars(Step(c))

-----------------------------------------------------------------------------
(* FirstStacksApart.  Two cores that run on the stacks of ap_start have    *)
(* different ones, although TEMP_STACK_BASE is added to without a lock:    *)
(* the 10 ms that lapic_start_aps waits between two processors do it.      *)
OnFirstStack == {c \in Core : pc[c] \notin {"off", "wait_sipi", "read_base",
                                            "add_base", "load_base", "core_entry"}}
FirstStacksApart == \A c, d \in OnFirstStack : stack[c] = stack[d] => c = d

(* BootOnce.  Only the boot core takes boot_main's first path, whatever    *)
(* the others read from CPU_INDEX while they increment it without a lock,  *)
(* and smp_init_lock finds boot_spinlock unused.                           *)
BootOnce ==
  /\ \A c \in Core \ {0} : pc[c] \notin {"core_init", "mmu_init", "call_hooks",
                                         "lapic_init", "init_lock", "start_aps"}
  /\ pc[0] = "init_lock" => queue = <<>> /\ ~ taken

(* PitExclusive.  pit_wait_ms programs the one timer and then counts its   *)
(* ticks, in lapic_init, lapic_enable and lapic_start_aps: no two cores    *)
(* are in it at once.                                                      *)
UsesPit == {c \in Core : pc[c] \in {"lapic_init", "lapic_enable", "pit_wait", "send_sipi"}}
PitExclusive == \A c, d \in UsesPit : c = d

(* StacksGiven.  Every core that leaves boot_main has a stack area of its  *)
(* own from mem_area_alloc_with_alignment, although cores look for one and *)
(* take it in two steps.                                                   *)
StacksGiven ==
  \A c \in Core : pc[c] \in {"give_again", "core_entry"} =>
    base[c] # Null /\ owner[base[c]] = <<"stack", c>>

(* AllEnter.  If nothing fails on the boot core, every core comes to       *)
(* core_entry, also when each misses the first of its start-up IPIs.       *)
AllEnter == <>(pc[0] = "hung" \/ \A c \in Core : pc[c] = "core_entry")

(* NoTablesBefore.  "Physical page pool must have no allocations after its *)
(* initialization." (addrSpace.c:141): when call_static_hook_functions     *)
(* comes to make_kernel_mappings, no table has been allocated.             *)
NoTablesBefore ==
  \A c \in Core : pc[c] = "call_hooks" /\ hook > 0 =>
    (MmuInitEnd[hook] = "make_kernel_mappings" => ~ tables)

(* StackIsOwn.  "Switch to new stack" (stack.c:7): the memory core_entry's *)
(* stack grows into, which is below the address run_func_with_stack loads  *)
(* into rsp, is the area that was allocated for it.                        *)
StackIsOwn ==
  \A c \in Core : pc[c] = "core_entry" =>
    base[c] - 1 \in Unit /\ owner[base[c] - 1] = <<"stack", c>>
=============================================================================
