----------------------------- MODULE PageTables -----------------------------
(***************************************************************************)
(* arch/x86/src/mmu.c: the page tables of an address space, and            *)
(* mmu_map_memory, which enters pages in them one after the other.         *)
(*                                                                         *)
(* Tables are known by their frames, and lie on levels 0 (the page tables) *)
(* to Root (the PML4); a page is known by its index on each level.  The    *)
(* code has the same statements once per level: here one step goes down    *)
(* one level, and the code's variables are functions of the level.  New    *)
(* tables come from mmu_mem_pool, whose first fit is the lowest free one.  *)
(* The pool lies where boot maps memory (otherwise alloc_table would fault *)
(* on clearing a table), so virt_to_phys finds every table.                *)
(*                                                                         *)
(* The error path may free tables that are linked.  What a walk then reads *)
(* is no table any more, and the model stops there.  Callers are           *)
(* serialised; they are in AddrSpace, which extends this module.  Flags    *)
(* are left out.                                                           *)
(***************************************************************************)
EXTENDS Integers, FiniteSetsExt

CONSTANTS Root,         \* the highest level: 3 in the code
          Slot,         \* the indices of a table
          PageCount,    \* the virtual pages are 0 .. PageCount - 1
          Index,        \* Index[page][level]: PML4_INDEX, PDPT_INDEX, ...
          FrameCount,   \* the frames are 0 .. FrameCount - 1
          Pml4,         \* the frame of the PML4
          BootEntry,    \* the tables that boot made, and what is in them
          Pool,         \* the frames of mmu_mem_pool
          Rubbish,      \* what a table holds that was never cleared
          Mirror        \* the slot of the PML4 that leads where another one does

Level == 0 .. Root
Below == 0 .. Root - 1
Page == 0 .. PageCount - 1
Frame == 0 .. FrameCount - 1
Null == -1
Table == DOMAIN BootEntry \cup Pool
Entry == Frame \cup {Null}

(* The tables that a walk through the entries e can reach, level by level. *)
ReachedIn(e) ==
  LET reached[n \in Level] ==
        IF n = 0 THEN {Pml4}
        ELSE {e[t][s] : t \in reached[n - 1], s \in Slot} \ {Null}
  IN [l \in Level |-> reached[Root - l]]

(* What the walk of a page finds on each level; on the last, its frame. *)
WalkIn(e, page) ==
  LET down[l \in -1 .. Root] ==
        IF l = Root THEN Pml4
        ELSE IF down[l + 1] = Null THEN Null
        ELSE e[down[l + 1]][Index[page][l + 1]]
  IN down

(* The slots that lead to a table, but for the mirror. *)
InnerIn(e) == UNION {ReachedIn(e)[l] : l \in Level \ {0}}
LinksIn(e, t) == {p \in (InnerIn(e) \X Slot) \ {<<Pml4, Mirror>>} : e[p[1]][p[2]] = t}

(* The tables make a tree: each lies on one level only, and is linked in   *)
(* one slot only.  The mirror is in use.                                   *)
TreeIn(e) ==
  /\ \A l \in Level : ReachedIn(e)[l] \subseteq DOMAIN e
  /\ \A l, m \in Level : l # m => ReachedIn(e)[l] \cap ReachedIn(e)[m] = {}
  /\ \A l \in Below : \A t \in ReachedIn(e)[l] : \E p \in LinksIn(e, t) : LinksIn(e, t) = {p}
  /\ e[Pml4][Mirror] # Null

ASSUME PageTablesAssumption ==
  /\ Root \in Nat \ {0} /\ PageCount \in Nat /\ FrameCount \in Nat
  /\ Index \in [Page -> [Level -> Slot]]
  /\ \A p, q \in Page : Index[p] = Index[q] => p = q
  /\ Table \subseteq Frame
  /\ Pml4 \in DOMAIN BootEntry /\ Pool \cap DOMAIN BootEntry = {}
  /\ BootEntry \in [DOMAIN BootEntry -> [Slot -> Entry]]
  /\ Rubbish \in [Slot -> Entry] /\ Mirror \in Slot

(* What boot has made is such a tree, and there are no other tables. *)
ASSUME BootTablesAssumption ==
  /\ TreeIn(BootEntry)
  /\ DOMAIN BootEntry = UNION {ReachedIn(BootEntry)[l] : l \in Level}

VARIABLES entry,        \* entry[t][s]: where slot s of table t leads
          pool,         \* the free tables of mmu_mem_pool
          pc,           \* "idle", or where in mmu_map_memory
          call,         \* the arguments of the call under way, or of the last
          i, level,     \* its loop counter, and the level it looks at
          at, got,      \* pml4, pdpt, pd, pt; allocated_pdpt, allocated_pd, allocated_pt
          ret, free_ret

mmuVars == <<entry, pool, pc, call, i, level, at, got, ret, free_ret>>

-----------------------------------------------------------------------------
NoEntry == [s \in Slot |-> Null]
NoCall == [page |-> 0, frame |-> 0, count |-> 0]
AtPml4 == [l \in Level |-> IF l = Root THEN Pml4 ELSE Null]
NothingGot == [l \in Below |-> FALSE]

(* mmu_init, over the tables as paging.s has filled them. *)
MmuInit ==
  /\ entry = [t \in Table |-> IF t \in Pool THEN Rubbish ELSE BootEntry[t]]
  /\ pool = Pool
  /\ pc = "idle"
  /\ call = NoCall
  /\ i = 0 /\ level = Root
  /\ at = AtPml4
  /\ got = NothingGot
  /\ ret = "NO_ERROR" /\ free_ret = TRUE

(* The tables that are linked now, and whether one of them is free. *)
Reached == ReachedIn(entry)
Linked == UNION {Reached[l] : l \in Level}
Corrupted == pool \cap Linked # {}

(* virt_to_phys: the frame a page is mapped to, or Null. *)
VirtToPhys(page) == WalkIn(entry, page)[-1]

(* mmu_map_memory is called.  A call for no page is refused at once. *)
MapMemory(c) ==
  /\ pc = "idle" /\ ~ Corrupted
  /\ call' = c
  /\ i' = 0 /\ level' = Root
  /\ at' = AtPml4 /\ got' = NothingGot
  /\ pc' = IF c.count = 0 THEN "idle" ELSE "walking"
  /\ ret' = IF c.count = 0 THEN "BAD_PARAM" ELSE "NO_ERROR"
  /\ free_ret' = TRUE
  /\ UNCHANGED <<entry, pool>>

-----------------------------------------------------------------------------
(* The walk of one page, from the PML4 down. *)
Here == Index[call.page + i][level]
Found == entry[at[level]][Here]

Descend ==
  /\ pc = "walking" /\ level > 0 /\ Found # Null
  /\ at' = [at EXCEPT ![level - 1] = Found]
  /\ level' = level - 1
  /\ UNCHANGED <<entry, pool, pc, call, i, got, ret, free_ret>>

(* alloc_table, and the new table is linked. *)
(* Mutant of WithTable: the table is not cleared. *)
WithTableUncleared(new) == [entry EXCEPT ![at[level]][Here] = new]
(* Mutant of WithTable: the table is not linked. *)
WithTableUnlinked(new) == [entry EXCEPT ![new] = NoEntry]
WithTable(new) == [entry EXCEPT ![new] = NoEntry, ![at[level]][Here] = new]

AllocTable ==
  /\ pc = "walking" /\ level > 0 /\ Found = Null /\ pool # {}
  /\ LET new == Min(pool)
     IN /\ pool' = pool \ {new}
        /\ entry' = WithTable(new)
        /\ at' = [at EXCEPT ![level - 1] = new]
  /\ got' = [got EXCEPT ![level - 1] = TRUE]
  /\ level' = level - 1
  /\ UNCHANGED <<pc, call, i, ret, free_ret>>

NoTable ==
  /\ pc = "walking" /\ level > 0 /\ Found = Null /\ pool = {}
  /\ at' = [at EXCEPT ![level - 1] = Null]
  /\ ret' = "NO_MEMORY"
  /\ pc' = "failing"
  /\ UNCHANGED <<entry, pool, call, i, level, got, free_ret>>

(* The page is entered, and the loop goes on to the next one. *)
PhysicalAddr == call.frame + i
NextPage == i + 1
LastPage == NextPage >= call.count

EnterPage ==
  /\ pc = "walking" /\ level = 0
  /\ entry' = [entry EXCEPT ![at[0]][Here] = PhysicalAddr]
  /\ i' = NextPage /\ level' = Root
  /\ pc' = IF LastPage THEN "idle" ELSE "walking"
  /\ UNCHANGED <<pool, call, at, got, ret, free_ret>>

(* The error path frees what the variables hold now on the levels where a  *)
(* table was allocated, for this page or for an earlier one.  NULL is      *)
(* refused; that firstfit_free may also lack a header is left to FirstFit. *)
(* Mutant of Freed: the flags are not looked at. *)
FreedAll == {at[l] : l \in Below}
Freed == {at[l] : l \in {b \in Below : got[b]}}
ErrorPath ==
  /\ pc = "failing"
  /\ pool' = pool \cup (Freed \ {Null})
  /\ free_ret' = (Null \notin Freed)
  /\ pc' = "idle"
  /\ UNCHANGED <<entry, call, i, level, at, got, ret>>

Step == Descend \/ AllocTable \/ NoTable \/ EnterPage \/ ErrorPath

-----------------------------------------------------------------------------
(* TablesAccounted.  No table of mmu_mem_pool is ever lost, and a table    *)
(* that mmu_map_memory has linked is linked in one slot only, so that what *)
(* is entered in it shows up nowhere else; the PML4's mirror is the        *)
(* exception that boot makes.                                              *)
TablesAccounted ==
  /\ Linked \cup pool = Table
  /\ \A t \in Linked \ {Pml4} : \E p \in LinksIn(entry, t) : LinksIn(entry, t) = {p}

(* CorruptedOnlyByFailure.  A free table can be linked only after a call   *)
(* of mmu_map_memory that ran out of tables when it had allocated some: a  *)
(* call that fails at its first alloc_table does no harm.                  *)
CorruptedOnlyByFailure ==
  Corrupted => pc = "idle" /\ ret = "NO_MEMORY" /\ \E l \in Below : got[l]

(* ImplementsAddressMap.  mmu_map_memory maps the pages asked for to the   *)
(* frames asked for, one at a time, and changes the mapping of no other    *)
(* page, whatever tables it has to make for that; what it had mapped when  *)
(* it fails stays.  A call may corrupt the pool as it fails, and only the  *)
(* calls before are then vouched for.                                      *)
Own == {p \in Page : Index[p][Root] # Mirror}
Asked == IF pc = "walking"
         THEN {[page |-> call.page + k, frame |-> call.frame + k] :
                 k \in i .. call.count - 1}
         ELSE {}
AddressSpace == INSTANCE AddressMap WITH
  Page <- Own, map <- [p \in Own |-> VirtToPhys(p)],
  asked <- Asked, broken <- Corrupted
ImplementsAddressMap == AddressSpace!Spec

-----------------------------------------------------------------------------
(* mmu_map_memory for any callers, one call after the other: for any pages   *)
(* and frames that there are, but for pages that the mirror leads to, until  *)
(* a call has corrupted the pool.                                            *)
GoodCall(c) == /\ c.page \in Nat /\ c.frame \in Nat /\ c.count \in Nat
               /\ c.page + c.count <= PageCount /\ c.frame + c.count <= FrameCount
OwnPages(c) == \A k \in 0 .. c.count - 1 : c.page + k \in Own
AnyCall == [page : Page, frame : Frame, count : 0 .. PageCount]

MmuNext == Step \/ \E c \in AnyCall : GoodCall(c) /\ OwnPages(c) /\ MapMemory(c)
MmuSpec == MmuInit /\ [][MmuNext]_mmuVars
=============================================================================
