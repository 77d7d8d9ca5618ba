--------------------------- MODULE FirstFitForce ---------------------------
(***************************************************************************)
(* core/src/ffAllocator.c: firstfit_force_alloc, with which addrSpace.c    *)
(* takes out of a virtual address space the ranges that a FORCE_MAP has    *)
(* mapped, whether they are free, in part free, or taken already.  It goes *)
(* with the other operations of the pool, whose module this one extends.   *)
(***************************************************************************)
EXTENDS FirstFit

(* The condition under which the loop goes on to a block. *)
Reaches(b, start, end) ==
  /\ b.start < end
  /\ \/ start = b.start
     \/ end = End(b)
     \/ IsBetween(start, b.start, End(b))
     \/ IsBetween(b.start, start, end)

(* rhs_size of the first block: signed, so half the values are negative. *)
RightSize(end) == Minus(End(pool[1]), end)
SplitsFirst(start, end) ==
  /\ pool # <<>> /\ Reaches(pool[1], start, end)
  /\ start # pool[1].start
  /\ 0 < RightSize(end) /\ 2 * RightSize(end) < AddrMod

(* The blocks the loop visits: it stops at the first that is not reached,   *)
(* and behind a split, whose right part starts at the end of the range.     *)
Visited(start, end) ==
  {i \in DOMAIN pool : /\ \A j \in 1 .. i : Reaches(pool[j], start, end)
                       /\ SplitsFirst(start, end) => i = 1}

(* Mutants of KeepBehind, which leaves an empty block, and of KeepAround, *)
(* which links no right part.                                             *)
KeepBehindEmpty(b, end) ==
  IF b.size < Minus(end, b.start) THEN <<>>
  ELSE <<[start |-> end, size |-> b.size - Minus(end, b.start)]>>
KeepAroundLosing(b, start, end) ==
  << WithSize(b, Minus(b.size, Plus(Minus(end, start), RightSize(end)))) >>

(* What stays of a block: curr_addr is the start of the range in the first  *)
(* block visited, and the start of the block itself in the later ones.      *)
KeepBehind(b, end) ==
  IF b.size <= Minus(end, b.start) THEN <<>>
  ELSE <<[start |-> end, size |-> b.size - Minus(end, b.start)]>>
KeepBefore(b, start) == <<WithSize(b, Minus(start, b.start))>>
KeepAround(b, start, end) ==
  << WithSize(b, Minus(b.size, Plus(Minus(end, start), RightSize(end)))),
     [start |-> end, size |-> RightSize(end)] >>

Kept(i, start, end) ==
  IF i \notin Visited(start, end) THEN <<pool[i]>>
  ELSE IF i > 1 \/ start = pool[i].start THEN KeepBehind(pool[i], end)
  ELSE IF SplitsFirst(start, end) THEN KeepAround(pool[i], start, end)
  ELSE KeepBefore(pool[i], start)

HeadersForSplitNone == 0      \* mutant of HeadersForSplit: no header is asked for
(* The header of the right part is asked for twice, and the first is lost. *)
HeadersForSplit == 2

(* The client holds the range from now on, what of it is under management. *)
Claim(start, size) == held' = held \cup (Interval(start, size) \cap managed)

ForceAlloc(start, size) ==
  LET end == Plus(start, size)
  IN /\ managed' = managed
     /\ \/ /\ size = 0
           /\ UNCHANGED <<pool, heap, held>>
           /\ Answer("force", start, size, TRUE, Null)
        \/ /\ size # 0 /\ ~ SplitsFirst(start, end)
           /\ pool' = FlattenSeq([i \in DOMAIN pool |-> Kept(i, start, end)])
           /\ heap' = heap + Len(pool) - Len(pool')
           /\ Claim(start, size)
           /\ Answer("force", start, size, TRUE, Null)
        \/ /\ size # 0 /\ SplitsFirst(start, end) /\ heap >= HeadersForSplit
           /\ pool' = FlattenSeq([i \in DOMAIN pool |-> Kept(i, start, end)])
           /\ heap' = heap - HeadersForSplit
           /\ Claim(start, size)
           /\ Answer("force", start, size, TRUE, Null)
        \/ /\ size # 0 /\ SplitsFirst(start, end) /\ heap < HeadersForSplit
           /\ pool' = [pool EXCEPT ![1] = Head(KeepAround(@, start, end))]
           /\ heap' = 0
           /\ held' = held
           /\ Answer("hung", start, size, FALSE, Null)

(* "Firstfit pool corrupted!": the core spins for ever. *)
Hung == reply.op = "hung"
Spin == Hung /\ UNCHANGED vars

(* The calls that the function is made for: no free block lies              *)
(* before the range, and the range starts in a free block or has none.      *)
Supported(start, size) ==
  LET range == Interval(start, size)
  IN /\ \A i \in DOMAIN pool : End(pool[i]) > start
     /\ start \in FreeAddrs \/ range \cap FreeAddrs = {}

ForceSupported == \E size \in Sizes, start \in Starts :
                    /\ start + size <= Top
                    /\ Supported(start, size)
                    /\ ForceAlloc(start, size)

SupportedNext == (~ Hung /\ (Next \/ ForceSupported)) \/ Spin
SupportedSpec == Init /\ [][SupportedNext]_vars

-----------------------------------------------------------------------------
(* A forced range is taken whole, whatever of it was free before, and not   *)
(* one address more; so none of it can be granted to another client.  That  *)
(* is in ForceConserved, which a run checks; FirstFitProofs proves both.    *)
ForceTakesRange ==
  [][reply'.op = "force" =>
       FreeAddrs' = FreeAddrs \ Interval(reply'.arg, reply'.size)]_vars

(* Unless the core spins, no address is lost between the list and the       *)
(* clients, whichever way the range lay across the blocks.                  *)
ForceConserved == ~ Hung => Isolated /\ Conserved

(* A header is never in the list and the heap both: forced ranges may lose  *)
(* one for good but never give one back twice.                              *)
HeadersNotGained == heap + Len(pool) <= MaxHeaders
=============================================================================
