----------------------------- MODULE BootProofs -----------------------------
(***************************************************************************)
(* Proofs about Boot, for any number of cores and any memory area: one     *)
(* core boots the system, and one at a time uses the timer.                *)
(***************************************************************************)
EXTENDS Boot, SequenceTheorems, FiniteSetTheorems, WellFoundedInduction, TLAPS

(* Where only the boot core is, by itself or as it starts the others; where *)
(* CPU_INDEX may still be 0; where a core's index decides its way; and      *)
(* where boot_spinlock is held.                                             *)
BootSteps == {"core_init", "mmu_init", "call_hooks", "lapic_init", "init_lock"}
StartSteps == {"start_aps", "pit_wait", "send_sipi"}
IndexSteps == {"load_index", "read_index", "add_index"}
AloneSteps == IndexSteps \cup {"boot_main"} \cup BootSteps
ApSteps == {"off", "wait_sipi", "read_base", "add_base", "load_base"}
Indexed == {"read_index", "add_index", "boot_main", "ask", "wait"}
Holding == StartSteps \cup {"lapic_enable", "give", "boot_end", "find_stack",
                            "take_stack", "give_again"}

TypeInv ==
  /\ pc = [c \in Core |-> pc[c]]
  /\ temp_base \in Nat /\ cpu_index \in Nat /\ target \in 0 .. CoreCount - 1
  /\ reg \in [Core -> Nat] /\ rdi \in [Core -> Nat]
  /\ queue \in Seq(Core)

Alone ==
  pc[0] \in AloneSteps =>
    /\ \A c \in Core \ {0} : pc[c] = "off"
    /\ queue = <<>> /\ ~ taken
Paths ==
  /\ \A c \in Core \ {0} : pc[c] \notin BootSteps \cup StartSteps
  /\ pc[0] \notin ApSteps
Started ==
  /\ \A c \in Core : c > target => c = 0 \/ pc[c] = "off"
  /\ pc[0] \in {"pit_wait", "send_sipi"} => target > 0
Indices ==
  /\ pc[0] \in IndexSteps \/ cpu_index > 0
  /\ \A c \in Core \ {0} : pc[c] \in Indexed => rdi[c] > 0
HolderFirst ==
  \A c \in Core : pc[c] \in Holding => queue # <<>> /\ Head(queue) = c /\ taken

IInv == TypeInv /\ Alone /\ Paths /\ Started /\ Indices /\ HolderFirst

LEMMA CoreFacts == 0 \in Core /\ Core \subseteq Nat /\ CoreCount \in Nat
BY BootAssumption DEF Core

LEMMA InitIInv == Init => IInv
<1> SUFFICES ASSUME Init PROVE IInv
  OBVIOUS
<1>1. /\ pc = [c \in Core |-> IF c = 0 THEN "load_index" ELSE "off"]
      /\ queue = <<>> /\ taken = FALSE
  BY DEF Init, Lock!Init
<1>2. TypeInv
  <2>1. pc = [c \in Core |-> pc[c]]
    BY <1>1
  <2>2. queue \in Seq(Core)
    BY <1>1
  <2>3. target \in 0 .. CoreCount - 1
    BY BootAssumption DEF Init
  <2> QED
    BY <2>1, <2>2, <2>3 DEF Init, TypeInv, Of
<1>3. pc[0] = "load_index" /\ \A c \in Core \ {0} : pc[c] = "off"
  BY <1>1, CoreFacts
<1>4. Alone /\ Paths /\ HolderFirst
  BY <1>1, <1>3 DEF Alone, Paths, HolderFirst, BootSteps, StartSteps, ApSteps, Holding
<1>5. Started /\ Indices
  BY <1>3 DEF Started, Indices, IndexSteps, Indexed
<1> QED
  BY <1>2, <1>4, <1>5 DEF IInv

(* A core goes from one place to another and leaves what the invariant     *)
(* speaks of alone.                                                        *)
Plain(c, from, to) ==
  /\ Go(c, from, to)
  /\ UNCHANGED <<cpu_index, rdi, target, lock>>
  /\ temp_base' \in Nat /\ reg' \in [Core -> Nat]
  /\ from # "off" /\ to \notin {"off", "wait_sipi", "read_base"}
  /\ to \in Holding => from \in Holding
  /\ c = 0 => /\ to \notin ApSteps
              /\ to \in AloneSteps => from \in AloneSteps
              /\ to \in IndexSteps <=> from \in IndexSteps
              /\ to \in StartSteps => from \in {"pit_wait", "send_sipi"}
  /\ c # 0 => /\ to \notin BootSteps \cup StartSteps
              /\ to \in Indexed => from \in Indexed

LEMMA PlainStep ==
  ASSUME IInv, NEW c \in Core, NEW from, NEW to, Plain(c, from, to)
  PROVE  IInv'
<1> USE CoreFacts DEF Plain, Go, IInv, lock
<1>1. /\ pc[c] = from /\ pc' = [d \in Core |-> pc'[d]] /\ pc'[c] = to
      /\ \A d \in Core : d # c => pc'[d] = pc[d]
  BY DEF TypeInv
<1>2. TypeInv'
  BY <1>1 DEF TypeInv
<1>3. Alone'
  BY <1>1 DEF Alone
<1>4. Paths'
  BY <1>1 DEF Paths
<1>5. Started'
  BY <1>1 DEF Started, StartSteps
<1>6. Indices'
  BY <1>1 DEF Indices, TypeInv
<1>7. HolderFirst'
  BY <1>1 DEF HolderFirst
<1> QED
  BY <1>2, <1>3, <1>4, <1>5, <1>6, <1>7

LEMMA PlainSteps ==
  ASSUME IInv, NEW c \in Core,
         \/ ReadBase(c) \/ AddBase(c) \/ LoadBase(c) \/ ReadIndex(c) \/ BootMain(c)
         \/ CoreInit(c) \/ MmuInit(c) \/ HooksCalled(c) \/ LapicInit(c)
         \/ LapicEnable(c) \/ PitWait(c) \/ ApsStarted(c) \/ BootEnd(c)
         \/ FindStack(c) \/ TakeStack(c) \/ Hang(c)
  PROVE  IInv'
<1> USE DEF assembly, memory, ipis, BootSteps, StartSteps, IndexSteps,
            AloneSteps, ApSteps, Indexed, Holding
<1>1. /\ temp_base \in Nat /\ cpu_index \in Nat
      /\ reg \in [Core -> Nat] /\ reg[c] \in Nat
  BY DEF IInv, TypeInv
<1>2. /\ c = 0 => pc[c] \notin ApSteps
      /\ c # 0 => pc[c] \notin BootSteps \cup StartSteps
      /\ c # 0 /\ pc[c] = "boot_main" => rdi[c] # 0
  BY CoreFacts DEF IInv, Paths, Indices, TypeInv
<1>3. CASE ReadBase(c)
  <2>1. reg' \in [Core -> Nat]
    BY <1>1, <1>3 DEF ReadBase
  <2>2. Plain(c, "read_base", "add_base")
    BY <1>1, <1>2, <1>3, <2>1 DEF ReadBase, Go, Plain
  <2> QED
    BY <2>2, PlainStep
<1>4. CASE ReadIndex(c)
  <2>1. reg' \in [Core -> Nat]
    BY <1>1, <1>4 DEF ReadIndex
  <2>2. Plain(c, "read_index", "add_index")
    BY <1>1, <1>2, <1>4, <2>1 DEF ReadIndex, Go, Plain
  <2> QED
    BY <2>2, PlainStep
<1>5. CASE BootMain(c)
  <2>1. CASE rdi[c] = 0
    <3>1. Plain(c, "boot_main", "core_init")
      BY <1>1, <1>2, <1>5, <2>1 DEF BootMain, Go, Plain
    <3> QED
      BY <3>1, PlainStep
  <2>2. CASE rdi[c] # 0
    <3>1. Plain(c, "boot_main", "ask")
      BY <1>1, <1>2, <1>5, <2>2 DEF BootMain, Go, Plain
    <3> QED
      BY <3>1, PlainStep
  <2> QED
    BY <2>1, <2>2
<1>6. CASE Hang(c)
  <2>1. Plain(c, pc[c], "hung")
    BY <1>1, <1>2, <1>6 DEF Hang, Go, Plain
  <2> QED
    BY <2>1, PlainStep
<1>7. CASE AddBase(c)
  <2>1. Plain(c, "add_base", "load_base")
    BY <1>1, <1>2, <1>7 DEF AddBase, Go, Plain
  <2> QED
    BY <2>1, PlainStep
<1>8. CASE LoadBase(c)
  <2>1. Plain(c, "load_base", "load_index")
    BY <1>1, <1>2, <1>8 DEF LoadBase, Go, Plain
  <2> QED
    BY <2>1, PlainStep
<1>9. CASE CoreInit(c)
  <2>1. Plain(c, "core_init", "mmu_init")
    BY <1>1, <1>2, <1>9 DEF CoreInit, Go, Plain
  <2> QED
    BY <2>1, PlainStep
<1>10. CASE MmuInit(c)
  <2>1. Plain(c, "mmu_init", "call_hooks")
    BY <1>1, <1>2, <1>10 DEF MmuInit, Go, Plain
  <2> QED
    BY <2>1, PlainStep
<1>11. CASE HooksCalled(c)
  <2>1. Plain(c, "call_hooks", "lapic_init")
    BY <1>1, <1>2, <1>11 DEF HooksCalled, Go, Plain
  <2> QED
    BY <2>1, PlainStep
<1>12. CASE LapicInit(c)
  <2>1. Plain(c, "lapic_init", "init_lock")
    BY <1>1, <1>2, <1>12 DEF LapicInit, Go, Plain
  <2> QED
    BY <2>1, PlainStep
<1>13. CASE LapicEnable(c)
  <2>1. Plain(c, "lapic_enable", "give")
    BY <1>1, <1>2, <1>13 DEF LapicEnable, Go, Plain
  <2> QED
    BY <2>1, PlainStep
<1>14. CASE PitWait(c)
  <2>1. Plain(c, "pit_wait", "send_sipi")
    BY <1>1, <1>2, <1>14 DEF PitWait, Go, Plain
  <2> QED
    BY <2>1, PlainStep
<1>15. CASE ApsStarted(c)
  <2>1. Plain(c, "start_aps", "give")
    BY <1>1, <1>2, <1>15 DEF ApsStarted, Go, Plain
  <2> QED
    BY <2>1, PlainStep
<1>16. CASE BootEnd(c)
  <2>1. Plain(c, "boot_end", "find_stack")
    BY <1>1, <1>2, <1>16 DEF BootEnd, Go, Plain
  <2> QED
    BY <2>1, PlainStep
<1>17. CASE FindStack(c)
  <2>1. Plain(c, "find_stack", "take_stack")
    BY <1>1, <1>2, <1>17 DEF FindStack, Go, Plain
  <2> QED
    BY <2>1, PlainStep
<1>18. CASE TakeStack(c)
  <2>1. Plain(c, "take_stack", "give_again")
    BY <1>1, <1>2, <1>18 DEF TakeStack, Go, Plain
  <2> QED
    BY <2>1, PlainStep
<1> QED
  BY <1>3, <1>4, <1>5, <1>6, <1>7, <1>8, <1>9, <1>10,
     <1>11, <1>12, <1>13, <1>14, <1>15, <1>16, <1>17, <1>18

-----------------------------------------------------------------------------
(* CPU_INDEX is not 0 any more when an application processor reads it.      *)
LEMMA LoadIndexStep == ASSUME IInv, NEW c \in Core, LoadIndex(c) PROVE IInv'
<1> USE CoreFacts DEF LoadIndex, Go, IInv, memory, ipis, lock
<1>1. /\ pc[c] = "load_index" /\ pc' = [d \in Core |-> pc'[d]] /\ pc'[c] = "read_index"
      /\ \A d \in Core : d # c => pc'[d] = pc[d] /\ rdi'[d] = rdi[d]
      /\ rdi' \in [Core -> Nat] /\ rdi'[c] = cpu_index
  BY DEF TypeInv
<1>2. c # 0 => cpu_index > 0
  BY <1>1 DEF Alone, Indices, AloneSteps
<1>3. TypeInv'
  BY <1>1 DEF TypeInv
<1>4. Alone' /\ Paths'
  BY <1>1 DEF Alone, Paths, AloneSteps, IndexSteps, BootSteps, StartSteps, ApSteps
<1>5. Started' /\ HolderFirst'
  BY <1>1 DEF Started, HolderFirst, Holding, StartSteps
<1>6. Indices'
  BY <1>1, <1>2 DEF Indices, IndexSteps, Indexed
<1> QED
  BY <1>3, <1>4, <1>5, <1>6

LEMMA AddIndexStep == ASSUME IInv, NEW c \in Core, AddIndex(c) PROVE IInv'
<1> USE CoreFacts DEF AddIndex, Go, IInv, memory, ipis, lock
<1>0. cpu_index' \in Nat /\ cpu_index' > 0
  <2>1. reg[c] \in Nat /\ cpu_index' = reg[c] + 1
    BY DEF TypeInv
  <2> QED
    BY ONLY <2>1
<1>1. /\ pc[c] = "add_index" /\ pc' = [d \in Core |-> pc'[d]] /\ pc'[c] = "boot_main"
      /\ \A d \in Core : d # c => pc'[d] = pc[d]
  BY DEF TypeInv
<1>2. TypeInv'
  BY <1>0, <1>1 DEF TypeInv
<1>3. Alone' /\ Paths'
  BY <1>1 DEF Alone, Paths, AloneSteps, IndexSteps, BootSteps, StartSteps, ApSteps
<1>4. Started' /\ HolderFirst'
  BY <1>1 DEF Started, HolderFirst, Holding, StartSteps
<1>5. Indices'
  BY <1>0, <1>1 DEF Indices, Indexed
<1> QED
  BY <1>2, <1>3, <1>4, <1>5

(* smp_init_lock finds the lock unused, and nobody else there.             *)
LEMMA InitLockStep == ASSUME IInv, NEW c \in Core, InitLock(c) PROVE IInv'
<1> USE CoreFacts DEF InitLock, Go, IInv, assembly, memory, ipis
<1>1. /\ pc[c] = "init_lock" /\ pc' = [d \in Core |-> pc'[d]] /\ pc'[c] = "ask"
      /\ \A d \in Core : d # c => pc'[d] = pc[d]
  BY DEF TypeInv
<1>2. c = 0 /\ \A d \in Core : d # 0 => pc[d] = "off"
  BY <1>1 DEF Paths, Alone, AloneSteps, BootSteps
<1>3. TypeInv'
  BY <1>1 DEF TypeInv
<1>4. Alone' /\ Paths' /\ HolderFirst'
  BY <1>1, <1>2 DEF Alone, Paths, HolderFirst, AloneSteps, IndexSteps, BootSteps,
                    StartSteps, ApSteps, Holding
<1>5. Started' /\ Indices'
  BY <1>1, <1>2 DEF Started, Indices, IndexSteps, Indexed
<1> QED
  BY <1>3, <1>4, <1>5

-----------------------------------------------------------------------------
(* boot_spinlock.  Who asks joins the end of the queue; who takes the lock  *)
(* is its first; who gives it back is the only one that held it.            *)
LEMMA AskStep == ASSUME IInv, NEW c \in Core, Ask(c) \/ AskAgain(c) PROVE IInv'
<1> USE CoreFacts DEF Ask, AskAgain, Go, IInv, assembly, memory, ipis, Lock!Ask
<1>1. /\ pc[c] \in {"ask", "ask_again"} /\ pc' = [d \in Core |-> pc'[d]]
      /\ pc'[c] = IF pc[c] = "ask" THEN "wait" ELSE "wait_again"
      /\ \A d \in Core : d # c => pc'[d] = pc[d]
  BY DEF TypeInv
<1>2. /\ queue \in Seq(Core) /\ queue' = Append(queue, c) /\ taken' = taken
      /\ queue' \in Seq(Core)
      /\ queue # <<>> => queue' # <<>> /\ Head(queue') = Head(queue)
  <2>1. queue \in Seq(Core) /\ queue' = Append(queue, c) /\ taken' = taken
    BY DEF TypeInv
  <2>2. /\ queue' \in Seq(Core) /\ queue' # <<>>
        /\ Len(queue) > 0 => queue'[1] = queue[1]
    BY <2>1, AppendProperties
  <2>3. queue # <<>> => Len(queue) > 0 /\ Head(queue) = queue[1] /\ Head(queue') = queue'[1]
    BY <2>1, <2>2, EmptySeq, HeadTailProperties
  <2> QED
    BY <2>1, <2>2, <2>3
<1>3. c # 0 => pc[0] \notin AloneSteps
  BY <1>1 DEF Alone
<1>4. TypeInv'
  BY <1>1, <1>2 DEF TypeInv
<1>5. Alone' /\ Paths'
  BY <1>1, <1>3 DEF Alone, Paths, AloneSteps, IndexSteps, BootSteps, StartSteps, ApSteps
<1>6. Started' /\ Indices'
  BY <1>1 DEF Started, Indices, IndexSteps, Indexed
<1>7. HolderFirst'
  BY <1>1, <1>2 DEF HolderFirst, Holding, StartSteps
<1> QED
  BY <1>4, <1>5, <1>6, <1>7

LEMMA TakeStep == ASSUME IInv, NEW c \in Core, Take(c) \/ TakeAgain(c) PROVE IInv'
<1> USE CoreFacts DEF Take, TakeAgain, Go, IInv, assembly, memory, ipis, Lock!Take
<1>1. /\ pc[c] \in {"wait", "wait_again"} /\ pc' = [d \in Core |-> pc'[d]]
      /\ pc'[c] \in {"start_aps", "lapic_enable", "boot_end", "find_stack"}
      /\ \A d \in Core : d # c => pc'[d] = pc[d]
      /\ pc'[c] = "start_aps" => pc[c] = "wait" /\ rdi[c] = 0
  BY DEF TypeInv
<1>2. queue # <<>> /\ Head(queue) = c /\ ~ taken /\ taken' /\ queue' = queue
  BY DEF TypeInv
<1>3. pc[0] \notin AloneSteps /\ (c # 0 => pc'[c] # "start_aps")
  BY <1>1, <1>2 DEF Alone, Indices, Indexed
<1>4. TypeInv'
  BY <1>1, <1>2 DEF TypeInv
<1>5. Alone' /\ Paths'
  BY <1>1, <1>3 DEF Alone, Paths, AloneSteps, IndexSteps, BootSteps, StartSteps, ApSteps
<1>6. Started' /\ Indices'
  BY <1>1, <1>3 DEF Started, Indices, IndexSteps, AloneSteps, Indexed
<1>7. HolderFirst'
  BY <1>1, <1>2 DEF HolderFirst
<1> QED
  BY <1>4, <1>5, <1>6, <1>7

LEMMA GiveStep == ASSUME IInv, NEW c \in Core, Give(c) \/ GiveAgain(c) PROVE IInv'
<1> USE CoreFacts DEF Give, GiveAgain, Go, IInv, assembly, memory, ipis, Lock!Give
<1>1. /\ pc[c] \in {"give", "give_again"} /\ pc' = [d \in Core |-> pc'[d]]
      /\ pc'[c] \in {"ask_again", "core_entry"}
      /\ \A d \in Core : d # c => pc'[d] = pc[d]
  BY DEF TypeInv
<1>2. queue # <<>> /\ Head(queue) = c /\ queue' = Tail(queue) /\ queue' \in Seq(Core)
  <2>1. queue \in Seq(Core) /\ queue # <<>> /\ Head(queue) = c /\ queue' = Tail(queue)
    BY DEF TypeInv
  <2> QED
    BY <2>1, HeadTailProperties
<1>3. c # 0 => pc[0] \notin AloneSteps
  BY <1>1 DEF Alone
<1>4. TypeInv'
  BY <1>1, <1>2 DEF TypeInv
<1>5. Alone' /\ Paths'
  BY <1>1, <1>3 DEF Alone, Paths, AloneSteps, IndexSteps, BootSteps, StartSteps, ApSteps
<1>6. Started' /\ Indices'
  BY <1>1 DEF Started, Indices, IndexSteps, Indexed
<1>7. HolderFirst'
  BY <1>1, <1>2 DEF HolderFirst, Holding, StartSteps
<1> QED
  BY <1>4, <1>5, <1>6, <1>7

-----------------------------------------------------------------------------
(* lapic_start_aps: the boot core starts one processor after the other,    *)
(* and never itself.                                                       *)
LEMMA SendInitStep == ASSUME IInv, NEW c \in Core, SendInit(c) PROVE IInv'
<1> USE CoreFacts DEF SendInit, IInv, assembly, memory, lock
<1>1. c = 0 /\ pc[0] = "start_aps"
  BY DEF Paths, StartSteps
<1>2. /\ target' = target + 1 /\ target' \in 0 .. CoreCount - 1 /\ target' \in Core
      /\ target \in Nat /\ target' # 0
  BY BootAssumption DEF TypeInv, Core
<1>3. /\ pc' = [d \in Core |-> pc'[d]] /\ pc'[0] = "pit_wait" /\ pc'[target'] = "wait_sipi"
      /\ \A d \in Core : d # 0 /\ d # target' => pc'[d] = pc[d]
  BY <1>1, <1>2 DEF TypeInv
<1>4. TypeInv'
  BY <1>2, <1>3 DEF TypeInv
<1>5. Alone' /\ Paths'
  BY <1>1, <1>2, <1>3 DEF Alone, Paths, AloneSteps, IndexSteps, BootSteps, StartSteps, ApSteps
<1>6. Started'
  <2>1. target' \in Nat /\ target' > 0 /\ target' > target
    BY <1>2
  <2>2. ASSUME NEW d \in Core, d > target' PROVE d = 0 \/ pc'[d] = "off"
    <3>1. d > target /\ d # target'
      BY <1>2, <2>1, <2>2
    <3> QED
      BY <1>3, <3>1 DEF Started
  <2> QED
    BY <2>1, <2>2 DEF Started
<1>7. Indices'
  BY <1>1, <1>2, <1>3 DEF Indices, IndexSteps, Indexed
<1>8. HolderFirst'
  BY <1>1, <1>2, <1>3 DEF HolderFirst, Holding, StartSteps
<1> QED
  BY <1>4, <1>5, <1>6, <1>7, <1>8

LEMMA SendSipiStep == ASSUME IInv, NEW c \in Core, SendSipi(c) PROVE IInv'
<1> USE CoreFacts DEF SendSipi, IInv, assembly, memory, lock
<1>1. c = 0 /\ pc[0] = "send_sipi" /\ target' = target
  BY DEF Paths, StartSteps
<1>2. target \in Core /\ target \in Nat /\ target # 0
  BY <1>1, BootAssumption DEF TypeInv, Started, Core
<1>3. /\ pc' = [d \in Core |-> pc'[d]] /\ pc'[0] \in {"send_sipi", "start_aps"}
      /\ \/ pc'[target] = pc[target]
         \/ pc'[target] = "read_base" /\ pc[target] = "wait_sipi"
      /\ \A d \in Core : d # 0 /\ d # target => pc'[d] = pc[d]
  <2>1. PICK starts \in BOOLEAN :
          pc' = [pc EXCEPT ![c] = IF sent' < Sipis THEN "send_sipi" ELSE "start_aps",
                           ![target] = IF starts /\ @ = "wait_sipi" THEN "read_base" ELSE @]
    OBVIOUS
  <2> QED
    BY <1>1, <1>2, <2>1 DEF TypeInv
<1>4. TypeInv'
  BY <1>1, <1>3 DEF TypeInv
<1>5. Alone' /\ Paths'
  BY <1>1, <1>2, <1>3 DEF Alone, Paths, AloneSteps, IndexSteps, BootSteps, StartSteps, ApSteps
<1>6. Started'
  BY <1>1, <1>2, <1>3 DEF Started
<1>7. Indices'
  BY <1>1, <1>2, <1>3 DEF Indices, IndexSteps, Indexed
<1>8. HolderFirst'
  BY <1>1, <1>2, <1>3 DEF HolderFirst, Holding, StartSteps
<1> QED
  BY <1>4, <1>5, <1>6, <1>7, <1>8

LEMMA UnchangedStep ==
  ASSUME IInv, UNCHANGED <<pc, assembly, ipis, lock>>
  PROVE  IInv'
BY DEF IInv, assembly, ipis, lock, TypeInv, Alone, Paths, Started, Indices, HolderFirst

LEMMA StepIInv == IInv /\ [Next]_vars => IInv'
<1> SUFFICES ASSUME IInv, [Next]_vars PROVE IInv'
  OBVIOUS
<1>1. CASE UNCHANGED vars
  BY <1>1, UnchangedStep DEF vars
<1>2. ASSUME NEW c \in Core, CallHook(c) PROVE IInv'
  BY <1>2, UnchangedStep DEF CallHook
<1>3. ASSUME NEW c \in Core, Assembly(c) PROVE IInv'
  BY <1>3, PlainSteps, LoadIndexStep, AddIndexStep DEF Assembly
<1>4. ASSUME NEW c \in Core, BootCore(c) PROVE IInv'
  BY <1>2, <1>4, PlainSteps, InitLockStep, SendInitStep, SendSipiStep DEF BootCore
<1>5. ASSUME NEW c \in Core, EveryCore(c) \/ Hang(c) PROVE IInv'
  BY <1>5, PlainSteps, AskStep, TakeStep, GiveStep DEF EveryCore
<1> QED
  BY <1>1, <1>3, <1>4, <1>5 DEF Next, Step

-----------------------------------------------------------------------------
(* However the cores interleave their unlocked additions to CPU_INDEX,     *)
(* only the boot core takes the first path through boot_main, and the lock *)
(* is unused when it is initialised.                                       *)
THEOREM OneBootCore == Spec => []BootOnce
<1>1. IInv => BootOnce
  BY CoreFacts DEF IInv, Paths, Alone, BootOnce, AloneSteps, BootSteps, StartSteps
<1> QED
  BY InitIInv, StepIInv, <1>1, PTL DEF Spec

(* No two cores are in pit_wait_ms at once: the boot core is there before  *)
(* any other runs, and later whoever is has boot_spinlock.                 *)
THEOREM TimerExclusive == Spec => []PitExclusive
<1>1. IInv => PitExclusive
  <2> SUFFICES ASSUME IInv, NEW c \in UsesPit, NEW d \in UsesPit PROVE c = d
    BY DEF PitExclusive
  <2>1. c \in Core /\ d \in Core
    BY DEF UsesPit
  <2>2. ASSUME NEW e \in UsesPit, pc[e] = "lapic_init"
        PROVE  e = 0 /\ \A f \in Core \ {0} : pc[f] = "off"
    BY <2>2, CoreFacts DEF IInv, Paths, Alone, AloneSteps, BootSteps, UsesPit
  <2>3. CASE pc[c] = "lapic_init" \/ pc[d] = "lapic_init"
    BY <2>1, <2>2, <2>3 DEF UsesPit
  <2>4. CASE pc[c] # "lapic_init" /\ pc[d] # "lapic_init"
    <3>1. pc[c] \in Holding /\ pc[d] \in Holding
      BY <2>4 DEF UsesPit, Holding, StartSteps
    <3> QED
      BY <2>1, <3>1 DEF IInv, HolderFirst
  <2> QED
    BY <2>3, <2>4
<1> QED
  BY InitIInv, StepIInv, <1>1, PTL DEF Spec

-----------------------------------------------------------------------------
(* The first stacks.  At most one processor is in ap_start, as the boot    *)
(* core waits before it starts the next; TEMP_STACK_BASE is what that      *)
(* processor has read, and beyond all stacks that are in use when it reads *)
(* it back.                                                                *)
InApStart == {"read_base", "add_base", "load_base"}
Before == {"off", "wait_sipi"} \cup InApStart

OneInApStart ==
  /\ \A c \in Core : pc[c] \in InApStart =>
       c = target \/ (pc[0] = "pit_wait" /\ c = target - 1)
  /\ pc[0] = "pit_wait" => pc[target] = "wait_sipi"
StacksCounted ==
  /\ \A c \in Core : pc[c] = "add_base" => reg[c] = temp_base
  /\ \A c \in Core : pc[c] \notin Before => stack[c] <= temp_base
  /\ \A c, d \in Core : pc[c] = "load_base" /\ pc[d] \notin Before => stack[d] < temp_base
  /\ \A c, d \in Core : pc[c] \notin Before /\ pc[d] \notin Before /\ stack[c] = stack[d] => c = d
Stacks == stack \in [Core -> Nat] /\ OneInApStart /\ StacksCounted

LEMMA InitStacks == Init => Stacks
<1> SUFFICES ASSUME Init PROVE Stacks
  OBVIOUS
<1>1. /\ pc = [c \in Core |-> IF c = 0 THEN "load_index" ELSE "off"]
      /\ stack = [c \in Core |-> 0] /\ temp_base = 0
  BY DEF Init, Of
<1> QED
  BY <1>1, CoreFacts DEF Stacks, OneInApStart, StacksCounted, InApStart, Before

LEMMA NotTwoInApStart ==
  ASSUME IInv, Stacks, NEW c \in Core, NEW d \in Core,
         pc[c] \in InApStart, pc[d] \in InApStart
  PROVE  c = d
<1>1. pc[target] # "wait_sipi" \/ (c # target /\ d # target)
  BY DEF InApStart
<1> QED
  BY <1>1, CoreFacts DEF Stacks, OneInApStart, IInv, TypeInv

(* A core that is not in ap_start does not touch what counts there.        *)
LEMMA ElsewhereStep ==
  ASSUME IInv, Stacks, NEW c \in Core,
         pc[c] \notin Before, pc'[c] \notin Before \cup {"pit_wait"},
         \A d \in Core : d # c => pc'[d] = pc[d] /\ reg'[d] = reg[d],
         UNCHANGED <<temp_base, stack, target>>,
         pc[c] = "pit_wait" => Settled
  PROVE  Stacks'
<1> USE CoreFacts DEF Stacks, Before, InApStart
<1>1. OneInApStart'
  <2>1. CASE pc[c] = "pit_wait"
    <3>1. c = 0
      BY <2>1 DEF IInv, Paths, StartSteps
    <3>2. \A d \in Core : pc'[d] \notin InApStart
      BY <2>1 DEF Settled
    <3>3. pc'[0] # "pit_wait"
      BY <3>1
    <3> QED
      BY <3>2, <3>3 DEF OneInApStart
  <2>2. CASE pc[c] # "pit_wait"
    <3>1. pc'[0] = "pit_wait" <=> pc[0] = "pit_wait"
      BY <2>2
    <3>2. target \in Core
      BY BootAssumption DEF IInv, TypeInv, Core
    <3>3. pc'[0] = "pit_wait" => pc'[target] = "wait_sipi"
      BY <3>1, <3>2 DEF OneInApStart
    <3>4. \A d \in Core : pc'[d] \in InApStart => pc[d] \in InApStart
      OBVIOUS
    <3> QED
      BY <3>1, <3>3, <3>4 DEF OneInApStart
  <2> QED
    BY <2>1, <2>2
<1>2. StacksCounted'
  BY DEF StacksCounted
<1> QED
  BY <1>1, <1>2

LEMMA ReadBaseStacks == ASSUME IInv, Stacks, NEW c \in Core, ReadBase(c) PROVE Stacks'
<1> USE CoreFacts DEF ReadBase, Go, Stacks, ipis, InApStart, Before
<1>1. /\ pc[c] = "read_base" /\ pc'[c] = "add_base" /\ reg'[c] = temp_base
      /\ \A d \in Core : d # c => pc'[d] = pc[d] /\ reg'[d] = reg[d]
  BY DEF IInv, TypeInv
<1>2. OneInApStart'
  <2>1. c # 0 /\ (pc[0] = "pit_wait" => c # target)
    BY <1>1 DEF OneInApStart, IInv, Paths, ApSteps
  <2> QED
    BY <1>1, <2>1 DEF OneInApStart
<1>3. StacksCounted'
  BY <1>1 DEF StacksCounted
<1> QED
  BY <1>2, <1>3

LEMMA AddBaseStacks == ASSUME IInv, Stacks, NEW c \in Core, AddBase(c) PROVE Stacks'
<1> USE CoreFacts DEF AddBase, Go, Stacks, ipis, InApStart, Before
<1>1. /\ pc[c] = "add_base" /\ pc'[c] = "load_base"
      /\ \A d \in Core : d # c => pc'[d] = pc[d] /\ pc[d] \notin InApStart
  BY NotTwoInApStart DEF IInv, TypeInv
<1>2. OneInApStart'
  <2>1. c # 0 /\ (pc[0] = "pit_wait" => c # target)
    BY <1>1 DEF OneInApStart, IInv, Paths, ApSteps
  <2> QED
    BY <1>1, <2>1 DEF OneInApStart
<1>3. temp_base' = temp_base + 1 /\ temp_base \in Nat
  BY <1>1 DEF StacksCounted, IInv, TypeInv
<1>4. ASSUME NEW d \in Core, pc'[d] \notin Before
      PROVE  pc[d] \notin Before /\ stack[d] <= temp_base'  /\ stack[d] < temp_base'
  <2>1. pc[d] \notin Before /\ stack[d] \in Nat /\ stack[d] <= temp_base
    BY <1>1, <1>4 DEF StacksCounted
  <2> QED
    BY <1>3, <2>1
<1>5. StacksCounted'
  BY <1>1, <1>4 DEF StacksCounted
<1> QED
  BY <1>2, <1>5

LEMMA LoadBaseStacks == ASSUME IInv, Stacks, NEW c \in Core, LoadBase(c) PROVE Stacks'
<1> USE CoreFacts DEF LoadBase, Go, Stacks, ipis, InApStart, Before
<1>1. /\ pc[c] = "load_base" /\ pc'[c] = "load_index"
      /\ \A d \in Core : d # c => /\ pc'[d] = pc[d] /\ pc[d] \notin InApStart
                                  /\ stack'[d] = stack[d]
      /\ stack' \in [Core -> Nat] /\ stack'[c] = temp_base /\ temp_base \in Nat
  BY NotTwoInApStart DEF IInv, TypeInv
<1>2. OneInApStart'
  <2>1. c # 0 /\ (pc[0] = "pit_wait" => c # target)
    BY <1>1 DEF OneInApStart, IInv, Paths, ApSteps
  <2> QED
    BY <1>1, <2>1 DEF OneInApStart
<1>3. ASSUME NEW d \in Core, d # c, pc'[d] \notin Before
      PROVE  stack'[d] < temp_base /\ stack'[d] # stack'[c]
  <2>1. stack'[d] \in Nat /\ stack'[d] < temp_base
    BY <1>1, <1>3 DEF StacksCounted
  <2> QED
    BY <1>1, <2>1
<1>4. StacksCounted'
  <2>1. \A d \in Core : pc'[d] # "add_base" /\ pc'[d] # "load_base"
    BY <1>1
  <2>2. \A d \in Core : pc'[d] \notin Before => stack'[d] <= temp_base
    BY <1>1, <1>3
  <2>3. ASSUME NEW d \in Core, NEW e \in Core,
               pc'[d] \notin Before, pc'[e] \notin Before, stack'[d] = stack'[e]
        PROVE  d = e
    BY <1>1, <1>3, <2>3 DEF StacksCounted
  <2> QED
    BY <2>1, <2>2, <2>3 DEF StacksCounted
<1> QED
  BY <1>1, <1>2, <1>4

(* The place a core is in changes, but not to or from ap_start, and to     *)
(* pit_wait only with a new target.                                        *)
LEMMA ElsewhereSteps ==
  ASSUME IInv, Stacks, NEW c \in Core,
         \/ LoadIndex(c) \/ ReadIndex(c) \/ AddIndex(c)
         \/ CoreInit(c) \/ MmuInit(c) \/ HooksCalled(c) \/ LapicInit(c)
         \/ InitLock(c) \/ ApsStarted(c) \/ BootEnd(c)
         \/ EveryCore(c) \/ Hang(c)
  PROVE  Stacks'
<1> USE DEF assembly, memory, ipis, Go, Before, InApStart
<1>1. /\ pc = [d \in Core |-> pc[d]] /\ reg \in [Core -> Nat]
  BY DEF IInv, TypeInv
<1> DEFINE Elsewhere ==
      /\ pc[c] \notin Before \cup {"pit_wait"}
      /\ pc'[c] \notin Before \cup {"pit_wait"}
      /\ \A d \in Core : d # c => pc'[d] = pc[d] /\ reg'[d] = reg[d]
      /\ UNCHANGED <<temp_base, stack, target>>
<1>2. CASE LoadIndex(c) \/ ReadIndex(c) \/ AddIndex(c)
  <2>1. Elsewhere
    BY <1>1, <1>2 DEF LoadIndex, ReadIndex, AddIndex
  <2> QED
    BY <2>1, ElsewhereStep
<1>3. CASE CoreInit(c) \/ MmuInit(c) \/ HooksCalled(c) \/ LapicInit(c) \/ InitLock(c)
  <2>1. Elsewhere
    BY <1>1, <1>3 DEF CoreInit, MmuInit, HooksCalled, LapicInit, InitLock
  <2> QED
    BY <2>1, ElsewhereStep
<1>4. CASE ApsStarted(c) \/ BootEnd(c) \/ Hang(c) \/ BootMain(c) \/ LapicEnable(c)
  <2>1. Elsewhere
    BY <1>1, <1>4 DEF ApsStarted, BootEnd, Hang, BootMain, LapicEnable
  <2> QED
    BY <2>1, ElsewhereStep
<1>5. CASE Ask(c) \/ Take(c) \/ Give(c) \/ AskAgain(c) \/ TakeAgain(c) \/ GiveAgain(c)
  <2>1. Elsewhere
    BY <1>1, <1>5 DEF Ask, Take, Give, AskAgain, TakeAgain, GiveAgain
  <2> QED
    BY <2>1, ElsewhereStep
<1>6. CASE FindStack(c) \/ TakeStack(c)
  <2>1. Elsewhere
    BY <1>1, <1>6 DEF FindStack, TakeStack
  <2> QED
    BY <2>1, ElsewhereStep
<1> QED
  BY <1>2, <1>3, <1>4, <1>5, <1>6 DEF EveryCore

(* In the 10 ms the processor that was started last gets through ap_start. *)
LEMMA PitWaitStacks == ASSUME IInv, Stacks, NEW c \in Core, PitWait(c) PROVE Stacks'
<1>1. Ticks(10) > 0
  BY DEF Ticks
<1>2. Settled
  BY <1>1 DEF PitWait, Waited
<1>3. /\ pc[c] = "pit_wait" /\ pc'[c] = "send_sipi"
      /\ \A d \in Core : d # c => pc'[d] = pc[d] /\ reg'[d] = reg[d]
      /\ UNCHANGED <<temp_base, stack, target>>
  BY DEF PitWait, Go, IInv, TypeInv, assembly, ipis
<1> QED
  BY <1>2, <1>3, ElsewhereStep DEF Before, InApStart

LEMMA SendInitStacks == ASSUME IInv, Stacks, NEW c \in Core, SendInit(c) PROVE Stacks'
<1> USE CoreFacts DEF SendInit, Stacks, assembly, Before, InApStart
<1>1. c = 0 /\ pc[0] = "start_aps"
  BY DEF IInv, Paths, StartSteps
<1>2. /\ target \in Nat /\ target' = target + 1 /\ target' \in Core /\ target' # 0
      /\ target' > target
  BY BootAssumption DEF IInv, TypeInv, Core
<1>3. pc[target'] = "off"
  BY <1>2 DEF IInv, Started
<1>4. /\ pc'[0] = "pit_wait" /\ pc'[target'] = "wait_sipi"
      /\ \A d \in Core : d # 0 /\ d # target' => pc'[d] = pc[d]
  BY <1>1, <1>2 DEF IInv, TypeInv
<1>5. OneInApStart'
  <2>1. ASSUME NEW d \in Core, pc'[d] \in InApStart PROVE d = target' - 1
    <3>1. pc[d] \in InApStart
      BY <1>4, <2>1
    <3>2. d = target
      BY <1>1, <3>1 DEF OneInApStart
    <3> QED
      BY <1>2, <3>2
  <2> QED
    BY <1>4, <2>1 DEF OneInApStart
<1>6. \A d \in Core : /\ pc'[d] \in InApStart => pc'[d] = pc[d]
                      /\ pc'[d] \notin Before => pc[d] \notin Before
  BY <1>1, <1>3, <1>4
<1>7. StacksCounted'
  BY <1>6 DEF StacksCounted
<1> QED
  BY <1>5, <1>7

LEMMA SendSipiStacks == ASSUME IInv, Stacks, NEW c \in Core, SendSipi(c) PROVE Stacks'
<1> USE CoreFacts DEF SendSipi, Stacks, assembly, Before, InApStart
<1>1. c = 0 /\ pc[0] = "send_sipi" /\ target' = target
  BY DEF IInv, Paths, StartSteps
<1>2. target \in Core /\ target # 0
  BY <1>1, BootAssumption DEF IInv, TypeInv, Started, Core
<1>3. /\ pc'[0] \in {"send_sipi", "start_aps"}
      /\ \/ pc'[target] = pc[target]
         \/ pc'[target] = "read_base" /\ pc[target] = "wait_sipi"
      /\ \A d \in Core : d # 0 /\ d # target => pc'[d] = pc[d]
  <2>1. PICK starts \in BOOLEAN :
          pc' = [pc EXCEPT ![c] = IF sent' < Sipis THEN "send_sipi" ELSE "start_aps",
                           ![target] = IF starts /\ @ = "wait_sipi" THEN "read_base" ELSE @]
    OBVIOUS
  <2> QED
    BY <1>1, <1>2, <2>1 DEF IInv, TypeInv
<1>4. OneInApStart'
  <2>1. ASSUME NEW d \in Core, pc'[d] \in InApStart PROVE d = target
    BY <1>1, <1>3, <2>1 DEF OneInApStart
  <2> QED
    BY <1>1, <1>3, <2>1 DEF OneInApStart
<1>5. \A d \in Core : /\ pc'[d] \in {"add_base", "load_base"} => pc'[d] = pc[d]
                      /\ pc'[d] \notin Before => pc[d] \notin Before
  BY <1>1, <1>3
<1>6. StacksCounted'
  BY <1>5 DEF StacksCounted
<1> QED
  BY <1>4, <1>6

LEMMA UnchangedStacks ==
  ASSUME Stacks, UNCHANGED <<pc, assembly, ipis>>
  PROVE  Stacks'
BY DEF Stacks, OneInApStart, StacksCounted, assembly, ipis

LEMMA StepStacks == IInv /\ Stacks /\ [Next]_vars => Stacks'
<1> SUFFICES ASSUME IInv, Stacks, [Next]_vars PROVE Stacks'
  OBVIOUS
<1>1. CASE UNCHANGED vars
  BY <1>1, UnchangedStacks DEF vars
<1>2. ASSUME NEW c \in Core, CallHook(c) PROVE Stacks'
  BY <1>2, UnchangedStacks DEF CallHook
<1>3. ASSUME NEW c \in Core, Assembly(c) PROVE Stacks'
  BY <1>3, ReadBaseStacks, AddBaseStacks, LoadBaseStacks, ElsewhereSteps DEF Assembly
<1>4. ASSUME NEW c \in Core, BootCore(c) PROVE Stacks'
  BY <1>2, <1>4, PitWaitStacks, SendInitStacks, SendSipiStacks, ElsewhereSteps DEF BootCore
<1>5. ASSUME NEW c \in Core, EveryCore(c) \/ Hang(c) PROVE Stacks'
  BY <1>5, ElsewhereSteps
<1> QED
  BY <1>1, <1>3, <1>4, <1>5 DEF Next, Step

(* No two cores run on the same first stack, although TEMP_STACK_BASE is   *)
(* added to without a lock: the wait between two processors keeps all but  *)
(* one of them out of ap_start, for any number of cores.                   *)
THEOREM StacksOwn == Spec => []FirstStacksApart
<1>1. Stacks => FirstStacksApart
  BY DEF Stacks, StacksCounted, FirstStacksApart, OnFirstStack, Before, InApStart
<1> QED
  BY InitIInv, StepIInv, InitStacks, StepStacks, <1>1, PTL DEF Spec

-----------------------------------------------------------------------------
(* The stacks of mem_area_alloc_with_alignment.  Three units are for the    *)
(* heap and the tables; every other unit that is taken is the stack of a    *)
(* core that has finished; and what one core has found stays free until it  *)
(* takes it, as it has boot_spinlock.                                       *)
Early == IndexSteps \cup {"boot_main", "core_init"}
Done == {"give_again", "core_entry"}

Areas ==
  /\ owner \in [Unit -> Owner] /\ base \in [Core -> Unit \cup {Null}]
  /\ \A u \in Unit : owner[u] \in {<<"heap">>, <<"tables">>} => u <= 3
  /\ pc[0] \in Early => FreeUnits = Unit
  /\ pc[0] = "mmu_init" => FreeUnits = Unit \ {1}
  /\ \A u \in Unit, c \in Core : owner[u] = <<"stack", c>> => base[c] = u /\ pc[c] \in Done
  /\ \A c \in Core : pc[c] = "take_stack" => base[c] \in FreeUnits
  /\ \A c \in Core : pc[c] \in Done => base[c] \in Unit /\ owner[base[c]] = <<"stack", c>>

(* A set of units with a member has a least one. *)
LEMMA MinLemma ==
  ASSUME NEW S, S \subseteq Nat, S # {}
  PROVE  Min(S) \in S /\ \A x \in S : Min(S) <= x
<1> DEFINE Less == {p \in Nat \X Nat : p[1] < p[2]}
<1>1. IsWellFoundedOn(Less, Nat)
  <2>1. Less = OpToRel(<, Nat)
    BY DEF OpToRel
  <2> QED
    BY <2>1, NatLessThanWellFounded
<1>2. PICK i \in S : \A j \in S : ~ (<<j, i>> \in Less)
  <2> HIDE DEF Less
  <2>1. S \in SUBSET Nat
    OBVIOUS
  <2> QED
    BY <1>1, <2>1, WFMin
<1>3. ASSUME NEW j \in S PROVE i <= j
  <2>1. i \in Nat /\ j \in Nat
    OBVIOUS
  <2>2. <<j, i>> \in Nat \X Nat /\ <<j, i>>[1] = j /\ <<j, i>>[2] = i
    BY <2>1
  <2>3. ~ (j < i)
    BY <1>2, <2>2
  <2> QED
    BY <2>1, <2>3
<1> QED
  BY <1>3 DEF Min

(* The ways to own a unit are different. *)
LEMMA OwnerFacts ==
  /\ <<"free">> \in Owner /\ <<"heap">> \in Owner /\ <<"tables">> \in Owner
  /\ \A c \in Core : <<"stack", c>> \in Owner
  /\ <<"free">> # <<"heap">> /\ <<"free">> # <<"tables">>
  /\ \A c \in Core : /\ <<"stack", c>> # <<"free">>
                     /\ <<"stack", c>> # <<"heap">> /\ <<"stack", c>> # <<"tables">>
  /\ \A c, d \in Core : <<"stack", c>> = <<"stack", d>> => c = d
  /\ \A o \in Owner : \/ o \in {<<"free">>, <<"heap">>, <<"tables">>}
                      \/ \E c \in Core : o = <<"stack", c>>
BY DEF Owner

LEMMA UnitFacts ==
  /\ Unit \subseteq Nat /\ Null \notin Unit
  /\ 1 \in Unit /\ 2 \in Unit /\ 3 \in Unit
BY BootAssumption DEF Unit, Null

LEMMA InitAreas == Init => Areas
<1> SUFFICES ASSUME Init PROVE Areas
  OBVIOUS
<1>1. /\ owner = [u \in Unit |-> <<"free">>] /\ base = [c \in Core |-> Null]
      /\ pc = [c \in Core |-> IF c = 0 THEN "load_index" ELSE "off"]
  BY DEF Init, Of
<1>2. FreeUnits = Unit /\ pc[0] = "load_index"
  BY <1>1, CoreFacts DEF FreeUnits
<1> QED
  BY <1>1, <1>2, OwnerFacts DEF Areas, Done

(* Cores that neither find nor take a stack. *)
LEMMA QuietAreas ==
  ASSUME Areas, UNCHANGED <<owner, base>>,
         \A d \in Core : \/ pc'[d] = pc[d]
                         \/ pc[d] = "give_again" /\ pc'[d] = "core_entry"
                         \/ /\ pc[d] \notin Done \cup {"take_stack"}
                            /\ pc'[d] \notin Done \cup {"take_stack"},
         pc'[0] \in Early => pc[0] \in Early,
         pc'[0] # "mmu_init" \/ pc[0] = "mmu_init"
  PROVE  Areas'
<1>1. FreeUnits' = FreeUnits
  BY DEF FreeUnits
<1> QED
  BY <1>1 DEF Areas, Done

LEMMA QuietSteps ==
  ASSUME IInv, Areas, NEW c \in Core,
         \/ Assembly(c) \/ Hang(c)
         \/ CallHook(c) \/ HooksCalled(c) \/ LapicInit(c) \/ InitLock(c)
         \/ PitWait(c) \/ ApsStarted(c) \/ BootEnd(c)
         \/ BootMain(c) \/ Ask(c) \/ Take(c) \/ LapicEnable(c) \/ Give(c)
         \/ AskAgain(c) \/ TakeAgain(c) \/ GiveAgain(c)
  PROVE  Areas'
<1> USE CoreFacts DEF assembly, memory, ipis, Go
<1>1. pc = [d \in Core |-> pc[d]]
  BY DEF IInv, TypeInv
<1>2. c = 0 => pc[c] \notin ApSteps
  BY DEF IInv, Paths
<1> DEFINE Quiet ==
      /\ UNCHANGED <<owner, base>>
      /\ \A d \in Core : \/ pc'[d] = pc[d]
                         \/ pc[d] = "give_again" /\ pc'[d] = "core_entry"
                         \/ /\ pc[d] \notin Done \cup {"take_stack"}
                            /\ pc'[d] \notin Done \cup {"take_stack"}
      /\ pc'[0] \in Early => pc[0] \in Early
      /\ pc'[0] # "mmu_init" \/ pc[0] = "mmu_init"
<1>3. CASE Assembly(c)
  <2>1. Quiet
    BY <1>1, <1>2, <1>3 DEF Assembly, ReadBase, AddBase, LoadBase, LoadIndex, ReadIndex,
       AddIndex, Early, IndexSteps, Done, ApSteps
  <2> QED
    BY <2>1, QuietAreas
<1>4. CASE CallHook(c) \/ HooksCalled(c) \/ LapicInit(c) \/ InitLock(c) \/ Hang(c)
  <2>1. Quiet
    BY <1>1, <1>4 DEF CallHook, HooksCalled, LapicInit, InitLock, Hang, Early, IndexSteps, Done
  <2> QED
    BY <2>1, QuietAreas
<1>5. CASE PitWait(c) \/ ApsStarted(c) \/ BootEnd(c) \/ BootMain(c) \/ LapicEnable(c)
  <2>1. Quiet
    BY <1>1, <1>5 DEF PitWait, ApsStarted, BootEnd, BootMain, LapicEnable,
       Early, IndexSteps, Done
  <2> QED
    BY <2>1, QuietAreas
<1>6. CASE Ask(c) \/ Take(c) \/ Give(c) \/ AskAgain(c) \/ TakeAgain(c) \/ GiveAgain(c)
  <2>1. Quiet
    BY <1>1, <1>6 DEF Ask, Take, Give, AskAgain, TakeAgain, GiveAgain,
       Early, IndexSteps, Done
  <2> QED
    BY <2>1, QuietAreas
<1> QED
  BY <1>3, <1>4, <1>5, <1>6

LEMMA StartAreas ==
  ASSUME IInv, Areas, NEW c \in Core, SendInit(c) \/ SendSipi(c)
  PROVE  Areas'
<1> USE CoreFacts DEF assembly, memory
<1>1. c = 0 /\ pc[0] \in {"start_aps", "send_sipi"} /\ UNCHANGED <<owner, base>>
  BY DEF IInv, Paths, StartSteps, SendInit, SendSipi
<1>2. CASE SendInit(c)
  <2>1. target \in Nat /\ target' = target + 1 /\ target' \in Core /\ target' > target
    BY <1>2, BootAssumption DEF SendInit, IInv, TypeInv, Core
  <2>2. pc[target'] = "off" /\ target' # 0
    BY <2>1 DEF IInv, Started
  <2>3. \A d \in Core : \/ pc'[d] = pc[d]
                        \/ d \in {0, target'} /\ pc'[d] \in {"pit_wait", "wait_sipi"}
    BY <1>1, <1>2, <2>1 DEF SendInit, IInv, TypeInv
  <2>4. pc'[0] = "pit_wait"
    BY <1>1, <1>2, <2>1, <2>2 DEF SendInit, IInv, TypeInv
  <2> QED
    BY <1>1, <2>2, <2>3, <2>4, QuietAreas DEF Done, Early, IndexSteps
<1>3. CASE SendSipi(c)
  <2>1. target \in Core /\ target # 0
    BY <1>1, <1>3, BootAssumption DEF SendSipi, IInv, TypeInv, Started, Core
  <2>2. PICK starts \in BOOLEAN :
          pc' = [pc EXCEPT ![c] = IF sent' < Sipis THEN "send_sipi" ELSE "start_aps",
                           ![target] = IF starts /\ @ = "wait_sipi" THEN "read_base" ELSE @]
    BY <1>3 DEF SendSipi
  <2>3. /\ pc'[0] \in {"send_sipi", "start_aps"}
        /\ \A d \in Core : \/ pc'[d] = pc[d]
                           \/ d = 0
                           \/ pc[d] = "wait_sipi" /\ pc'[d] = "read_base"
    BY <1>1, <2>1, <2>2 DEF IInv, TypeInv
  <2> QED
    BY <1>1, <2>3, QuietAreas DEF Done, Early, IndexSteps
<1> QED
  BY <1>2, <1>3

(* The heap and the tables are allocated while the boot core is alone.      *)
LEMMA CoreInitAreas == ASSUME IInv, Areas, NEW c \in Core, CoreInit(c) PROVE Areas'
<1> USE CoreFacts DEF CoreInit, Go, Areas
<1>1. c = 0 /\ pc[0] = "core_init" /\ \A d \in Core \ {0} : pc[d] = "off"
  BY DEF IInv, Paths, Alone, BootSteps, AloneSteps
<1>2. pc'[0] = "mmu_init" /\ \A d \in Core \ {0} : pc'[d] = "off"
  BY <1>1 DEF IInv, TypeInv
<1>3. \A u \in Unit : owner[u] = <<"free">>
  BY <1>1 DEF FreeUnits, Early
<1>4. \A u \in Unit : owner'[u] = IF u = 1 THEN <<"heap">> ELSE <<"free">>
  BY <1>3
<1>5. FreeUnits' = Unit \ {1}
  BY <1>4, OwnerFacts DEF FreeUnits
<1>6. owner' \in [Unit -> Owner] /\ base' = base
  BY OwnerFacts
<1>7. \A d \in Core : pc'[d] \notin Done \cup {"take_stack"}
  BY <1>2 DEF Done
<1>8. pc'[0] \notin Early
  BY <1>2 DEF Early, IndexSteps
<1> QED
  BY <1>2, <1>4, <1>5, <1>6, <1>7, <1>8, OwnerFacts

LEMMA MmuInitAreas == ASSUME IInv, Areas, NEW c \in Core, MmuInit(c) PROVE Areas'
<1> USE CoreFacts DEF MmuInit, Go, Areas
<1>1. c = 0 /\ pc[0] = "mmu_init" /\ \A d \in Core \ {0} : pc[d] = "off"
  BY DEF IInv, Paths, Alone, BootSteps, AloneSteps
<1>2. pc'[0] = "call_hooks" /\ \A d \in Core \ {0} : pc'[d] = "off"
  BY <1>1 DEF IInv, TypeInv
<1>3. FreeUnits = Unit \ {1}
  BY <1>1
<1>4. PICK u \in FreeUnits :
        /\ u = Min({v \in FreeUnits : v + 1 \in FreeUnits})
        /\ owner' = [owner EXCEPT ![u] = <<"tables">>, ![u + 1] = <<"tables">>]
  OBVIOUS
<1>5. u = 2
  <2> DEFINE S == {v \in FreeUnits : v + 1 \in FreeUnits}
  <2>1. 2 \in S
    BY <1>3, UnitFacts
  <2>2. S \subseteq Nat
    BY <1>3, UnitFacts
  <2>3. Min(S) \in S /\ Min(S) <= 2
    <3> HIDE DEF S
    <3> QED
      BY <2>1, <2>2, MinLemma
  <2>4. u = Min(S)
    BY <1>4
  <2> HIDE DEF S
  <2>5. u \in Nat /\ u <= 2 /\ u # 1 /\ u # 0
    BY <1>3, <2>2, <2>3, <2>4, UnitFacts DEF Null
  <2> QED
    BY <2>5
<1>6. owner \in [Unit -> Owner] /\ base' = base
  OBVIOUS
<1> HIDE DEF MmuInit, Go, Areas
<1>7. owner' = [owner EXCEPT ![2] = <<"tables">>, ![3] = <<"tables">>]
  <2>1. u + 1 = 3
    BY <1>5
  <2> QED
    BY <1>4, <1>5, <2>1
<1>8. owner'[2] = <<"tables">> /\ owner'[3] = <<"tables">>
  BY <1>6, <1>7, UnitFacts
<1>9. \A v \in Unit : v \notin {2, 3} => owner'[v] = owner[v]
  BY <1>6, <1>7
<1>10. owner' \in [Unit -> Owner]
  BY <1>6, <1>7, OwnerFacts
<1>11. \A v \in Unit, d \in Core : owner'[v] # <<"stack", d>>
  BY <1>1, <1>8, <1>9, OwnerFacts DEF Areas, Done
<1>12. \A d \in Core : pc'[d] \notin Done \cup {"take_stack"}
  BY <1>2 DEF Done
<1>13. pc'[0] \notin Early \cup {"mmu_init"}
  BY <1>2 DEF Early, IndexSteps
<1>14. ASSUME NEW v \in Unit, owner'[v] \in {<<"heap">>, <<"tables">>} PROVE v <= 3
  <2>1. CASE v \in {2, 3}
    BY <2>1
  <2>2. CASE v \notin {2, 3}
    BY <1>9, <1>14, <2>2 DEF Areas
  <2> QED
    BY <2>1, <2>2
<1> QED
  BY <1>6, <1>10, <1>11, <1>12, <1>13, <1>14 DEF Areas

(* Not all units are taken while a core has no stack: there are fewer other *)
(* cores than units besides those of the heap and the tables.               *)
LEMMA UnitLeft ==
  ASSUME AreaSize >= CoreCount + 3, Areas, NEW c \in Core, pc[c] \notin Done
  PROVE  FreeUnits # {}
<1> SUFFICES ASSUME FreeUnits = {} PROVE FALSE
  OBVIOUS
<1> DEFINE rest == 4 .. AreaSize
           others == Core \ {c}
<1>1. ASSUME NEW u \in rest PROVE \E d \in others : base[d] = u
  <2>1. u \in Unit /\ ~ (u <= 3)
    BY BootAssumption DEF Unit
  <2>2. owner[u] \in Owner /\ owner[u] \notin {<<"free">>, <<"heap">>, <<"tables">>}
    BY <2>1 DEF Areas, FreeUnits
  <2>3. PICK d \in Core : owner[u] = <<"stack", d>>
    BY <2>2, OwnerFacts
  <2> QED
    BY <2>1, <2>3 DEF Areas
<1>2. rest \subseteq {base[d] : d \in others}
  BY <1>1
<1>3. IsFiniteSet(Core) /\ Cardinality(Core) = CoreCount
  <2>1. CoreCount \in Nat \ {0} /\ 0 \in Int /\ CoreCount - 1 \in Int
    BY BootAssumption
  <2>2. /\ IsFiniteSet(0 .. CoreCount - 1)
        /\ Cardinality(0 .. CoreCount - 1) = IF 0 > CoreCount - 1 THEN 0 ELSE CoreCount - 1 - 0 + 1
    BY <2>1, FS_Interval
  <2> QED
    BY <2>1, <2>2 DEF Core
<1>4. IsFiniteSet(others) /\ Cardinality(others) = CoreCount - 1
  BY <1>3, FS_RemoveElement
<1>5. /\ IsFiniteSet({base[d] : d \in others})
      /\ Cardinality({base[d] : d \in others}) <= CoreCount - 1
  <2> DEFINE f == [d \in others |-> base[d]]
             T == {base[d] : d \in others}
  <2>1. f \in Surjection(others, T)
    BY DEF Surjection
  <2> HIDE DEF f, T
  <2>2. IsFiniteSet(T) /\ Cardinality(T) <= Cardinality(others)
    BY <1>4, <2>1, FS_Surjection
  <2> QED
    BY <1>4, <2>2 DEF T
<1>6. Cardinality(rest) = AreaSize - 3 /\ IsFiniteSet(rest)
  <2>1. AreaSize \in Nat /\ AreaSize >= 4
    BY BootAssumption
  <2>2. /\ IsFiniteSet(4 .. AreaSize)
        /\ Cardinality(4 .. AreaSize) = IF 4 > AreaSize THEN 0 ELSE AreaSize - 4 + 1
    BY <2>1, FS_Interval
  <2> QED
    BY <2>1, <2>2
<1>7. Cardinality(rest) <= Cardinality({base[d] : d \in others})
  BY <1>2, <1>5, FS_Subset
<1>8. Cardinality({base[d] : d \in others}) \in Nat
  BY <1>5, FS_CardinalityType
<1> QED
  BY <1>5, <1>6, <1>7, <1>8, BootAssumption

LEMMA FindStackAreas ==
  ASSUME AreaSize >= CoreCount + 3, IInv, Areas, NEW c \in Core, FindStack(c)
  PROVE  Areas'
<1> USE CoreFacts DEF FindStack, Go
<1>1. pc[c] = "find_stack" /\ pc'[c] = "take_stack" /\ \A d \in Core : d # c => pc'[d] = pc[d]
  BY DEF IInv, TypeInv
<1>2. FreeUnits # {} /\ FreeUnits \subseteq Unit
  BY <1>1, UnitLeft DEF Done, FreeUnits
<1>3. Min(FreeUnits) \in FreeUnits
  BY <1>2, UnitFacts, MinLemma
<1>4. base' = [base EXCEPT ![c] = Min(FreeUnits)] /\ owner' = owner /\ FreeUnits' = FreeUnits
  BY <1>2 DEF FreeUnits
<1>5. base' \in [Core -> Unit \cup {Null}]
  BY <1>2, <1>3, <1>4 DEF Areas
<1>6. base'[c] \in FreeUnits /\ \A d \in Core : d # c => base'[d] = base[d]
  BY <1>3, <1>4 DEF Areas
<1> QED
  BY <1>1, <1>4, <1>5, <1>6 DEF Areas, Done, Early, IndexSteps

LEMMA TakeStackAreas ==
  ASSUME IInv, Areas, NEW c \in Core, TakeStack(c)
  PROVE  Areas'
<1> USE CoreFacts DEF TakeStack, Go
<1>1. pc[c] = "take_stack" /\ pc'[c] = "give_again" /\ \A d \in Core : d # c => pc'[d] = pc[d]
  BY DEF IInv, TypeInv
<1>2. base[c] \in FreeUnits /\ base[c] \in Unit /\ owner[base[c]] = <<"free">>
  BY <1>1 DEF Areas, FreeUnits
<1>3. /\ owner' = [owner EXCEPT ![base[c]] = <<"stack", c>>] /\ base' = base
  BY <1>2, UnitFacts
<1>4. owner' \in [Unit -> Owner]
  BY <1>3, OwnerFacts DEF Areas
<1>5. /\ owner'[base[c]] = <<"stack", c>>
      /\ \A u \in Unit : u # base[c] => owner'[u] = owner[u]
  BY <1>2, <1>3 DEF Areas
<1>6. pc[0] \notin Early \cup {"mmu_init"} /\ pc'[0] \notin Early \cup {"mmu_init"}
  <2>1. Early \cup {"mmu_init"} \subseteq AloneSteps
    BY DEF Early, AloneSteps, BootSteps
  <2> QED
    BY <1>1, <2>1 DEF IInv, Alone, Early, IndexSteps
<1>7. \A d \in Core : pc'[d] # "take_stack"
  BY <1>1 DEF IInv, HolderFirst, Holding
<1>8. \A u \in Unit : owner'[u] \in {<<"heap">>, <<"tables">>} => u <= 3
  BY <1>5, OwnerFacts DEF Areas
<1>9. \A u \in Unit, d \in Core : owner'[u] = <<"stack", d>> => base'[d] = u /\ pc'[d] \in Done
  BY <1>1, <1>3, <1>5, OwnerFacts DEF Areas, Done
<1>10. \A d \in Core : pc'[d] \in Done => base'[d] \in Unit /\ owner'[base'[d]] = <<"stack", d>>
  BY <1>1, <1>2, <1>3, <1>5, OwnerFacts DEF Areas, Done
<1> QED
  BY <1>3, <1>4, <1>6, <1>7, <1>8, <1>9, <1>10 DEF Areas

LEMMA StepAreas ==
  ASSUME AreaSize >= CoreCount + 3, IInv, Areas, [Next]_vars
  PROVE  Areas'
<1>1. CASE UNCHANGED vars
  BY <1>1, QuietAreas DEF vars, memory
<1>2. ASSUME NEW c \in Core, Assembly(c) \/ Hang(c) PROVE Areas'
  BY <1>2, QuietSteps
<1>3. ASSUME NEW c \in Core, BootCore(c) PROVE Areas'
  BY <1>3, QuietSteps, StartAreas, CoreInitAreas, MmuInitAreas DEF BootCore
<1>4. ASSUME NEW c \in Core, EveryCore(c) PROVE Areas'
  BY <1>4, QuietSteps, FindStackAreas, TakeStackAreas DEF EveryCore
<1> QED
  BY <1>1, <1>2, <1>3, <1>4 DEF Next, Step

(* Every core gets a stack area that no other has, although it is found and *)
(* taken in two steps, in any memory area with a unit for each core besides *)
(* the three of the heap and the tables.                                    *)
THEOREM StackForEach ==
  ASSUME AreaSize >= CoreCount + 3
  PROVE  Spec => []StacksGiven
<1>1. Areas => StacksGiven
  BY UnitFacts DEF Areas, StacksGiven, Done
<1>2. IInv /\ Areas /\ [Next]_vars => Areas'
  BY StepAreas
<1> QED
  BY InitIInv, StepIInv, InitAreas, <1>1, <1>2, PTL DEF Spec
=============================================================================
