------------------------------ MODULE FirstFit ------------------------------
(***************************************************************************)
(* core/src/ffAllocator.c: the first-fit range allocator behind the kernel *)
(* memory area, the page-table pool and the virtual address spaces.        *)
(*                                                                         *)
(* A firstfit_pool is a linked list of free blocks in address order; the   *)
(* sequence "pool" is that list.  Block headers come from pool->xmalloc    *)
(* (kmalloc), which may fail: "heap" counts the headers it can still       *)
(* supply.  Callers are serialised (boot runs on one core, or under        *)
(* boot_spinlock), so every call is one step.  The addresses clients hold  *)
(* ("held"), those ever given to the pool ("managed") and the outcome of   *)
(* the last call ("reply") are what an observer knows; the code keeps none *)
(* of them.  firstfit_force_alloc is in FirstFitForce.                     *)
(***************************************************************************)
EXTENDS Integers, SequencesExt

CONSTANTS AddrMod,      \* 2^64 in the code: addresses and sizes are below it
          MaxHeaders,   \* block headers the heap can supply
          Top,          \* no range given to the pool reaches beyond Top
          Starts, Sizes, Alignments     \* the arguments callers pass

ASSUME FirstFitAssumption ==
  /\ AddrMod \in Nat /\ Top \in Nat /\ MaxHeaders \in Nat
  /\ Top < AddrMod
  /\ Starts \subseteq 0 .. AddrMod - 1
  /\ Sizes \subseteq 0 .. AddrMod - 1
  /\ Alignments \subseteq 0 .. AddrMod - 1

VARIABLES pool, heap, held, managed, reply

vars == <<pool, heap, held, managed, reply>>

-----------------------------------------------------------------------------
(* Pointer arithmetic, modulo AddrMod; both arguments are below AddrMod. *)
Plus(a, b) == IF a + b < AddrMod THEN a + b ELSE a + b - AddrMod
Minus(a, b) == IF b <= a THEN a - b ELSE a - b + AddrMod

Null == 0
Addr == 0 .. AddrMod - 1
Block == [start : Addr, size : Addr]
End(b) == Plus(b.start, b.size)

(* The macros of bits.h mask with n - 1, for n a power of two: that is a
   remainder, taken after the addition has wrapped. *)
IsAligned(a, n) == a % n = 0
AlignUp(a, n) == Plus(a, n - 1) - (Plus(a, n - 1) % n)

WithSize(b, size) == [start |-> b.start, size |-> size]

IsBetween(value, low, high) == low < value /\ value < high

(* The lowest index in S, 0 (the null pointer) if there is none. *)
FirstOf(S) == IF S = {} THEN 0 ELSE CHOOSE i \in S : \A j \in S : i <= j

(* The addresses of a range, of a list of blocks, and the free ones. *)
Interval(start, size) == start .. start + size - 1
AddrsOf(list) == UNION {Interval(list[i].start, list[i].size) : i \in DOMAIN list}
FreeAddrs == AddrsOf(pool)

-----------------------------------------------------------------------------
(* firstfit_add_block: curr_block and prev_block when its loop stops. *)
CurrIndex(start) == FirstOf({i \in DOMAIN pool : End(pool[i]) > start})
PrevIndex(start) == IF CurrIndex(start) = 0 THEN Len(pool) ELSE CurrIndex(start) - 1

OverlapsBlock(b, start, end) ==
  \/ start = b.start
  \/ end = End(b)
  \/ IsBetween(start, b.start, End(b))
  \/ IsBetween(end, b.start, End(b))
  \/ IsBetween(b.start, start, end)
  \/ IsBetween(End(b), start, end)

(* Mutant of Acceptable: no comparison with the block found. *)
AcceptableUnchecked(start, size) == size # 0

Acceptable(start, size) ==
  /\ size # 0
  /\ CurrIndex(start) # 0 =>
       ~ OverlapsBlock(pool[CurrIndex(start)], start, Plus(start, size))

JoinsRightNever(start, size) == FALSE             \* mutant of JoinsRight

JoinsRight(start, size) == /\ CurrIndex(start) # 0
                           /\ Plus(start, size) = pool[CurrIndex(start)].start
JoinsLeft(start) == /\ PrevIndex(start) # 0
                    /\ End(pool[PrevIndex(start)]) = start

(* Mutants of JoinBoth: the right block's size, or its header, is forgotten. *)
JoinBothShort(start, size) ==
  /\ JoinsLeft(start) /\ JoinsRight(start, size)
  /\ pool' = [RemoveAt(pool, CurrIndex(start)) EXCEPT
                ![PrevIndex(start)] = WithSize(@, Plus(@.size, size))]
  /\ heap' = heap + 1
JoinBothLeaking(start, size) ==
  LET curr == CurrIndex(start)
      prev == PrevIndex(start)
  IN /\ JoinsLeft(start) /\ JoinsRight(start, size)
     /\ pool' = [RemoveAt(pool, curr) EXCEPT
                   ![prev] = WithSize(@, Plus(@.size, Plus(pool[curr].size, size)))]
     /\ heap' = heap

(* The four ways to enter an acceptable range, by the neighbours it touches. *)
JoinBoth(start, size) ==
  LET curr == CurrIndex(start)
      prev == PrevIndex(start)
  IN /\ JoinsLeft(start) /\ JoinsRight(start, size)
     /\ pool' = [RemoveAt(pool, curr) EXCEPT
                   ![prev] = WithSize(@, Plus(@.size, Plus(pool[curr].size, size)))]
     /\ heap' = heap + 1

JoinLeft(start, size) ==
  /\ JoinsLeft(start) /\ ~ JoinsRight(start, size)
  /\ pool' = [pool EXCEPT ![PrevIndex(start)] = WithSize(@, Plus(@.size, size))]
  /\ heap' = heap

JoinRight(start, size) ==
  LET curr == CurrIndex(start)
  IN /\ ~ JoinsLeft(start) /\ JoinsRight(start, size)
     /\ pool' = [pool EXCEPT ![curr] = [start |-> start, size |-> Plus(@.size, size)]]
     /\ heap' = heap

NewBlock(start, size) ==
  /\ ~ JoinsLeft(start) /\ ~ JoinsRight(start, size)
  /\ heap > 0
  /\ pool' = InsertAt(pool, PrevIndex(start) + 1, [start |-> start, size |-> size])
  /\ heap' = heap - 1

NoHeader(start, size) == ~ JoinsLeft(start) /\ ~ JoinsRight(start, size) /\ heap = 0

(* firstfit_add_block returns TRUE or FALSE. *)
AddAccepted(start, size) ==
  /\ Acceptable(start, size)
  /\ \/ JoinBoth(start, size)
     \/ JoinLeft(start, size)
     \/ JoinRight(start, size)
     \/ NewBlock(start, size)

AddRefused(start, size) == ~ Acceptable(start, size) \/ NoHeader(start, size)

-----------------------------------------------------------------------------
(* alloc_common.  A request names its constraint (op), the size and, in    *)
(* arg, the start address or the alignment asked for.                      *)
MeetsConstraint(req, b) ==
  \/ req.op = "alloc"
  \/ req.op = "alloc_at" /\ b.start = req.arg
  \/ req.op = "alloc_aligned" /\ IsAligned(b.start, req.arg)

(* Mutant of Fitting: a block of the very size is passed over. *)
FittingLarger(req) == FirstOf({i \in DOMAIN pool : /\ pool[i].size > req.size
                                                   /\ MeetsConstraint(req, pool[i])})

Fitting(req) == FirstOf({i \in DOMAIN pool : /\ pool[i].size >= req.size
                                             /\ MeetsConstraint(req, pool[i])})

WantedStart(req, b) ==
  IF req.op = "alloc_aligned" THEN AlignUp(b.start, req.arg) ELSE req.arg

RightOffset(req, b) == Minus(End(b), Plus(WantedStart(req, b), req.size))

(* max_right_offset_if_split starts at 0 and only a larger offset replaces it. *)
Splittable(req, b) ==
  /\ req.op # "alloc"
  /\ WantedStart(req, b) >= b.start
  /\ Plus(WantedStart(req, b), req.size) <= End(b)
  /\ RightOffset(req, b) > 0

BlockToSplit(req) ==
  FirstOf({i \in DOMAIN pool :
             /\ Splittable(req, pool[i])
             /\ \A j \in DOMAIN pool : Splittable(req, pool[j]) =>
                  RightOffset(req, pool[j]) <= RightOffset(req, pool[i])})

TakeFront(req) ==
  LET i == Fitting(req)
  IN /\ i # 0
     /\ pool[i].size > req.size
     /\ pool' = [pool EXCEPT ![i] = [start |-> Plus(@.start, req.size),
                                     size |-> @.size - req.size]]
     /\ heap' = heap

TakeWhole(req) ==
  LET i == Fitting(req)
  IN /\ i # 0
     /\ pool[i].size = req.size
     /\ pool' = RemoveAt(pool, i)
     /\ heap' = heap + 1

Split(req) ==
  LET i == BlockToSplit(req)
      at == WantedStart(req, pool[i])
  IN /\ Fitting(req) = 0 /\ i # 0
     /\ heap > 0
     /\ pool' = InsertAt([pool EXCEPT ![i] = WithSize(@, Minus(at, @.start))], i + 1,
                         [start |-> Plus(at, req.size), size |-> RightOffset(req, pool[i])])
     /\ heap' = heap - 1

(* found_block is TRUE: a fitting block gives its front, or all of it, *)
(* or a block is split in two around the range.                        *)
Granted(req) == TakeFront(req) \/ TakeWhole(req) \/ Split(req)

(* ret_addr, when a block is found. *)
GrantedAddr(req) == IF Fitting(req) # 0 THEN pool[Fitting(req)].start
                    ELSE WantedStart(req, pool[BlockToSplit(req)])

(* No block fits, or create_block fails for the right part of the split. *)
Refused(req) == /\ Fitting(req) = 0
                /\ BlockToSplit(req) = 0 \/ heap = 0

-----------------------------------------------------------------------------
Ops == {"init", "add", "free", "alloc", "alloc_at", "alloc_aligned"}

Init ==
  /\ pool = <<>>
  /\ heap = MaxHeaders
  /\ held = {}
  /\ managed = {}
  /\ reply = [op |-> "init", arg |-> 0, size |-> 0, ok |-> TRUE, addr |-> Null]

Answer(op, arg, size, ok, addr) ==
  reply' = [op |-> op, arg |-> arg, size |-> size, ok |-> ok, addr |-> addr]

(* firstfit_add_block, called to put a range under management: callers pass
   one that no client of the pool holds. *)
AddBlock(start, size) ==
  /\ Interval(start, size) \cap held = {}
  /\ held' = held
  /\ \/ /\ AddAccepted(start, size)
        /\ managed' = managed \cup Interval(start, size)
        /\ Answer("add", 0, 0, TRUE, Null)
     \/ /\ AddRefused(start, size)
        /\ UNCHANGED <<pool, heap, managed>>
        /\ Answer("add", 0, 0, FALSE, Null)

(* firstfit_free, called with a range that is held (which may be a part of
   what one call granted) or, by mistake, with one that reaches free addresses. *)
Free(start, size) ==
  /\ \/ Interval(start, size) \subseteq held
     \/ Interval(start, size) \cap FreeAddrs # {}
  /\ managed' = managed
  /\ \/ /\ start # Null /\ AddAccepted(start, size)
        /\ held' = held \ Interval(start, size)
        /\ Answer("free", 0, 0, TRUE, Null)
     \/ /\ start # Null => AddRefused(start, size)
        /\ UNCHANGED <<pool, heap, held>>
        /\ Answer("free", 0, 0, FALSE, Null)

(* alloc_common under its three entry points, which answer NULL themselves to
   a size, or an alignment, of 0. *)
Allocate(op, arg, size) ==
  LET req == [op |-> op, arg |-> arg, size |-> size]
      valid == size # 0 /\ (op = "alloc_aligned" => arg # 0)
  IN /\ managed' = managed
     /\ \/ /\ valid
           /\ Granted(req)
           /\ held' = held \cup Interval(GrantedAddr(req), size)
           /\ Answer(op, arg, size, TRUE, GrantedAddr(req))
        \/ /\ valid => Refused(req)
           /\ UNCHANGED <<pool, heap, held>>
           /\ Answer(op, arg, size, FALSE, Null)

Alloc(size) == Allocate("alloc", 0, size)
AllocAt(start, size) == Allocate("alloc_at", start, size)
AllocAligned(alignment, size) == Allocate("alloc_aligned", alignment, size)

(* Callers keep what they name inside the address space: no sum wraps. *)
Next ==
  \E size \in Sizes :
    \/ \E start \in Starts : start + size <= Top /\ AddBlock(start, size)
    \/ \E start \in Starts : start + size <= Top /\ Free(start, size)
    \/ Alloc(size)
    \/ \E start \in Starts : start + size < AddrMod /\ AllocAt(start, size)
    \/ \E alignment \in Alignments :
         Top + alignment + size < AddrMod /\ AllocAligned(alignment, size)

Spec == Init /\ [][Next]_vars

-----------------------------------------------------------------------------
TypeOK ==
  /\ pool \in Seq(Block)
  /\ heap \in Nat
  /\ held \subseteq 0 .. Top
  /\ managed \subseteq 0 .. Top
  /\ reply \in [op : Ops, arg : Addr, size : Addr, ok : BOOLEAN, addr : Addr]

(* The list is in address order and as short as it can be: no empty block,  *)
(* none that overlaps another, none left beside another it could be merged  *)
(* with.  firstfit_add_block decides all this from the two blocks around    *)
(* the insertion point alone.                                               *)
WellFormed(list) ==
  /\ \A i \in DOMAIN list : list[i].size > 0 /\ list[i].start + list[i].size <= Top
  /\ \A i, j \in DOMAIN list : i < j => list[i].start + list[i].size < list[j].start
Coalesced == WellFormed(pool)

(* No address is both free and held, and none is ever lost: whatever the    *)
(* order of splits, merges, double frees and header failures, an address    *)
(* given to the pool is free or held.                                       *)
Isolated == held \cap FreeAddrs = {}
Conserved == held \cup FreeAddrs = managed

(* Every header taken from the heap is in the list: none leaks.             *)
HeadersBalanced == heap + Len(pool) = MaxHeaders

(* A request is refused only for cause.  firstfit_alloc: no run of free     *)
(* addresses is as long as asked.  With an alignment or a start address:    *)
(* no such run may start there, except that the code overlooks one that     *)
(* ends where its block ends, and may lack the header that a split needs.   *)
Run(addr, size, free) == addr .. addr + size - 1 \subseteq free
Proper(addr) ==
  /\ reply.op = "alloc_at" => addr = reply.arg
  /\ reply.op = "alloc_aligned" => IsAligned(addr, reply.arg)
RefusalJustified ==
  LET free == FreeAddrs
  IN /\ reply.op \in {"alloc", "alloc_at", "alloc_aligned"}
     /\ reply.size > 0 /\ (reply.op = "alloc_aligned" => reply.arg > 0)
     /\ ~ reply.ok
     => \A addr \in free : Proper(addr) =>
           /\ ~ Run(addr, reply.size, free) \/ addr - 1 \in free
           /\ ~ Run(addr, reply.size + 1, free) \/ (reply.op # "alloc" /\ heap = 0)

(* "Should get exactly the requested address" (tests/src/ffit.c:100): a     *)
(* range that is free is granted when it is asked for by its start address, *)
(* if there is a header to split a block with.                              *)
StartAddrHonoured ==
  reply.op = "alloc_at" /\ reply.size > 0 /\ ~ reply.ok /\ heap > 0
    => ~ Run(reply.arg, reply.size, FreeAddrs)

(* The list implements the abstract allocator.                              *)
Abstract == INSTANCE RangeAllocator WITH Addresses <- 0 .. Top, free <- FreeAddrs
ImplementsRangeAllocator == Abstract!Spec
=============================================================================
