------------------------------- MODULE Buddy -------------------------------
(***************************************************************************)
(* core/src/buddyAllocator.c, the buddy allocator of the kernel heap, with *)
(* the entry points of core/src/kernelHeap.c.                              *)
(*                                                                         *)
(* Memory is modelled at the blocks' headers: mem[a] is the buddy_block at *)
(* address a, counted in smallest blocks from the start of the pool, its   *)
(* size field being an order and the in-use flag.  A free block's list     *)
(* pointers and everything inside a block that is handed out are client    *)
(* data, which clients overwrite; the header of a block from               *)
(* kmalloc_without_header is client data too.  mem[Null] is what the code  *)
(* reaches through a NULL pointer: page 0 stays mapped after boot.         *)
(*                                                                         *)
(* The two loops, which split and which merge, take one step per iteration *)
(* ("phase", "job").  Callers are serialised, so nothing else runs         *)
(* meanwhile.  The blocks clients hold ("held") are an observer's record.  *)
(*                                                                         *)
(* A client returns a block that has no header with the size it asked for. *)
(* That size goes into the header, so it should be that of a block; after  *)
(* a return with another size the pool is not followed ("misfreed").       *)
(***************************************************************************)
EXTENDS BuddyOrders, FiniteSets, FiniteSetsExt

CONSTANTS MinBlock,     \* BUDDY_MIN_BLOCK_SIZE, in bytes
          Header,       \* the size of a block's header, in bytes
          Narrow,       \* 2^32: the values of a u32_ct
          Requests,     \* the sizes clients ask for, in bytes
          ClientData    \* what data that clients write reads as, taken for a header

ASSUME BuddyAssumption ==
  /\ Size[0] = 1
  /\ MinBlock \in Nat \ {0} /\ Header \in Nat /\ Header < MinBlock
  /\ Narrow \in Nat /\ MinBlock * Size[MaxOrder] < Narrow
  /\ Requests \subseteq Nat
  /\ ClientData \subseteq [order : 0 .. MaxOrder + 1, used : BOOLEAN]

VARIABLES mem, free_lists,
          total_used,           \* in bytes
          phase, job, held, reply

vars == <<mem, free_lists, total_used, phase, job, held, reply>>

Null == -1
Pointer == Unit \cup {Null}
Order == 0 .. MaxOrder
Other == MaxOrder + 1           \* the size of no block: what client data reads as

(* Mutant of BuddyOf: the neighbour above, be it the other half or not. *)
BuddyOfNext(addr, k) == IF addr + Size[k] \in Unit THEN addr + Size[k] ELSE addr - Size[k]

(* The buddy: the address with the bit of the block's size flipped. *)
BuddyOf(addr, k) == IF addr % (2 * Size[k]) = 0 THEN addr + Size[k] ELSE addr - Size[k]

Bytes(order) == MinBlock * Size[order]        \* ORDER_TO_SIZE

(* size_to_order, Other standing for all orders that are too large. *)
SizeToOrder(size) ==
  LET fit == {k \in Order : Bytes(k) >= size}
  IN IF fit = {} THEN Other ELSE Min(fit)

-----------------------------------------------------------------------------
NoJob == [order |-> 0, level |-> 0, block |-> Null, headed |-> TRUE]

Init ==
  /\ mem = [a \in Pointer |-> [order |-> Other, used |-> TRUE, prev |-> Null, next |-> Null]]
  /\ free_lists = [k \in Order |-> Null]
  /\ total_used = 0
  /\ phase = "uninit"
  /\ job = NoJob
  /\ held = {}
  /\ reply = [op |-> "none", size |-> 0, addr |-> Null]

(* buddy_init, with a start that is aligned. *)
BuddyInit ==
  /\ phase = "uninit"
  /\ mem' = [mem EXCEPT ![0] = [order |-> MaxOrder, used |-> FALSE,
                                prev |-> Null, next |-> Null]]
  /\ free_lists' = [k \in Order |-> IF k = MaxOrder THEN 0 ELSE Null]
  /\ total_used' = 0
  /\ phase' = "idle"
  /\ UNCHANGED <<job, held, reply>>

(* buddy_alloc up to its loop: the order wanted, with the header, and the   *)
(* lowest order from it on whose list has a block.                          *)
WantedOrder(size) == SizeToOrder((size + Header) % Narrow)
LevelsBelowTop(size) ==         \* mutant of Levels: the top order is not looked at
  {k \in Order : k >= WantedOrder(size) /\ free_lists[k] # Null /\ k < MaxOrder}
Levels(size) == {k \in Order : k >= WantedOrder(size) /\ free_lists[k] # Null}

Alloc(size, headed) ==
  /\ phase = "idle"
  /\ UNCHANGED <<mem, free_lists, total_used, held>>
  /\ \/ /\ size # 0 /\ Levels(size) # {}
        /\ phase' = "splitting"
        /\ job' = [order |-> WantedOrder(size), level |-> Min(Levels(size)),
                   block |-> Null, headed |-> headed]
        /\ reply' = [op |-> "allocating", size |-> size, addr |-> Null]
     \/ /\ size = 0 \/ Levels(size) = {}
        /\ UNCHANGED <<phase, job>>
        /\ reply' = [op |-> "alloc", size |-> size, addr |-> Null]

(* kmalloc, and kmalloc_without_header, which asks for a header less. *)
Kmalloc == \E size \in Requests : Alloc(size, TRUE)
KmallocWithoutHeader == \E size \in Requests : size >= Header /\ Alloc(size - Header, FALSE)

(* split_block_at_order *)
SplitBlock ==
  LET k == job.level
      block == free_lists[k]
      rest == mem[block].next
      buddy == block + Size[k - 1]
      head == free_lists[k - 1]
  IN /\ phase = "splitting" /\ job.level > job.order
     /\ free_lists' = [free_lists EXCEPT ![k] = rest, ![k - 1] = block]
     /\ mem' = [mem EXCEPT ![rest].prev = IF rest = Null THEN @ ELSE Null,
                           ![head].prev = IF head = Null THEN @ ELSE buddy,
                           ![block].next = buddy,
                           ![block].order = k - 1,
                           ![buddy] = [order |-> k - 1, used |-> FALSE,
                                       prev |-> block, next |-> head]]
     /\ job' = [job EXCEPT !.level = k - 1]
     /\ UNCHANGED <<total_used, phase, held, reply>>

(* What the client holds now.  It remembers the size it asked for if it has *)
(* to give that back.                                                       *)
Handed(block) ==
  [addr |-> block, order |-> job.order, headed |-> job.headed,
   size |-> IF job.headed THEN 0 ELSE reply.size + Header]

(* Mutant of HandOut: total_used is left alone. *)
HandOutUncounted ==
  LET block == free_lists[job.order]
      rest == mem[block].next
  IN /\ phase = "splitting" /\ job.level = job.order
     /\ mem' = [mem EXCEPT ![block].used = TRUE,
                           ![rest].prev = IF rest = Null THEN @ ELSE Null]
     /\ free_lists' = [free_lists EXCEPT ![job.order] = rest]
     /\ held' = held \cup {Handed(block)}
     /\ reply' = [op |-> "alloc", size |-> reply.size, addr |-> block]
     /\ phase' = "idle"
     /\ job' = NoJob
     /\ UNCHANGED total_used

(* The rest of buddy_alloc: the head of the list is the block handed out. *)
HandOut ==
  LET block == free_lists[job.order]
      rest == mem[block].next
  IN /\ phase = "splitting" /\ job.level = job.order
     /\ mem' = [mem EXCEPT ![block].used = TRUE,
                           ![rest].prev = IF rest = Null THEN @ ELSE Null]
     /\ free_lists' = [free_lists EXCEPT ![job.order] = rest]
     /\ total_used' = total_used + Bytes(job.order)
     /\ held' = held \cup {Handed(block)}
     /\ reply' = [op |-> "alloc", size |-> reply.size, addr |-> block]
     /\ phase' = "idle"
     /\ job' = NoJob

(* Mutant of Free: the in-use flag is not cleared. *)
FreeKeepingFlag(addr, header) ==
  /\ phase = "idle"
  /\ reply' = [op |-> "free", size |-> 0, addr |-> addr]
  /\ UNCHANGED <<free_lists, mem>>
  /\ \/ /\ header.used
        /\ total_used' = total_used - Bytes(header.order)
        /\ phase' = "merging"
        /\ job' = [order |-> header.order, level |-> 0, block |-> addr, headed |-> TRUE]
     \/ /\ ~ header.used
        /\ UNCHANGED <<total_used, phase, job>>

(* buddy_free up to merge_blocks.  Clients free what they hold, or, by      *)
(* mistake, what they have just freed.  kfree_without_header first writes   *)
(* the header, from the size it is given.                                   *)
Free(addr, header) ==
  /\ phase = "idle"
  /\ reply' = [op |-> "free", size |-> 0, addr |-> addr]
  /\ free_lists' = free_lists
  /\ \/ /\ header.used
        /\ mem' = [mem EXCEPT ![addr].used = FALSE, ![addr].order = header.order]
        /\ total_used' = total_used - Bytes(header.order)
        /\ phase' = "merging"
        /\ job' = [order |-> header.order, level |-> 0, block |-> addr, headed |-> TRUE]
     \/ /\ ~ header.used
        /\ UNCHANGED <<mem, total_used, phase, job>>

Kfree == \E b \in held : /\ b.headed
                         /\ Free(b.addr, mem[b.addr])
                         /\ held' = held \ {b}
KfreeAgain == /\ reply.op = "free"
              /\ Free(reply.addr, mem[reply.addr])
              /\ held' = held

KfreeWithoutHeader ==
  \E b \in held : /\ ~ b.headed /\ b.size = Bytes(b.order)
                  /\ Free(b.addr, [order |-> SizeToOrder(b.size), used |-> TRUE])
                  /\ held' = held \ {b}

(* With a size that is not the block's, total_used is reduced by that size, *)
(* its lowest bit cleared.  merge_blocks would then take the size for the bit   *)
(* in which the buddy's address differs, and read a header from what the    *)
(* client has left inside the block: the model ends before that.            *)
Cleared(size) == size - (size % 2)      \* ~ BUDDY_IN_USE_FLAG
Misfree ==
  \E b \in held :
    /\ phase = "idle" /\ ~ b.headed /\ b.size # Bytes(b.order)
    /\ phase' = "misfreed"
    /\ total_used' = total_used - Cleared(b.size)
    /\ reply' = [op |-> "misfree", size |-> Cleared(b.size), addr |-> b.addr]
    /\ UNCHANGED <<mem, free_lists, job, held>>
NotFollowed == phase = "misfreed" /\ UNCHANGED vars

(* Mutant of BuddyIsFree: only a buddy below the block is merged with. *)
BuddyBelowIsFree ==
  /\ job.order # MaxOrder
  /\ LET buddy == mem[BuddyOf(job.block, job.order)]
     IN ~ buddy.used /\ buddy.order = job.order
  /\ BuddyOf(job.block, job.order) < job.block

(* merge_blocks, one iteration: the buddy is in use or split or there is    *)
(* none, so that the block goes to the head of its list ...                 *)
BuddyIsFree == /\ job.order # MaxOrder
               /\ LET buddy == mem[BuddyOf(job.block, job.order)]
                  IN ~ buddy.used /\ buddy.order = job.order

AddIntoList ==
  LET head == free_lists[job.order]
  IN /\ phase = "merging" /\ ~ BuddyIsFree
     /\ mem' = [mem EXCEPT ![job.block].prev = Null,
                           ![job.block].next = head,
                           ![head].prev = job.block,
                           ![job.block].order = job.order]
     /\ free_lists' = [free_lists EXCEPT ![job.order] = job.block]
     /\ phase' = "idle"
     /\ job' = NoJob
     /\ UNCHANGED <<total_used, held, reply>>

(* Mutant of JoinBuddy: the successor keeps pointing back at the buddy. *)
JoinBuddyDangling ==
  LET buddy == BuddyOf(job.block, job.order)
      prev == mem[buddy].prev
      next == mem[buddy].next
  IN /\ phase = "merging" /\ BuddyIsFree
     /\ free_lists' = [free_lists EXCEPT ![job.order] = IF prev = Null THEN next ELSE @]
     /\ mem' = [mem EXCEPT ![prev].next = IF prev = Null THEN @ ELSE next]
     /\ job' = [job EXCEPT !.block = Min({job.block, buddy}), !.order = @ + 1]
     /\ UNCHANGED <<total_used, phase, held, reply>>

(* ... or the buddy leaves its list and the two go on as one block.         *)
JoinBuddy ==
  LET buddy == BuddyOf(job.block, job.order)
      prev == mem[buddy].prev
      next == mem[buddy].next
  IN /\ phase = "merging" /\ BuddyIsFree
     /\ free_lists' = [free_lists EXCEPT ![job.order] = IF prev = Null THEN next ELSE @]
     /\ mem' = [mem EXCEPT ![prev].next = IF prev = Null THEN @ ELSE next,
                           ![next].prev = IF next = Null THEN @ ELSE prev]
     /\ job' = [job EXCEPT !.block = Min({job.block, buddy}), !.order = @ + 1]
     /\ UNCHANGED <<total_used, phase, held, reply>>

(* A client writes over what it holds.  Inside the block anything may come  *)
(* to look like a header; what stands where the header of a headerless      *)
(* block would be looks like no block size (see the README).                *)
Written(data) == [order |-> data.order, used |-> data.used, prev |-> Null, next |-> Null]
ClientWrites ==
  \E b \in held, data \in ClientData :
    /\ phase = "idle"
    /\ mem' = [a \in Pointer |->
         IF a \in b.addr + 1 .. b.addr + Size[b.order] - 1 THEN Written(data)
         ELSE IF a # b.addr THEN mem[a]
         ELSE IF b.headed THEN [mem[a] EXCEPT !.prev = Null, !.next = Null]
         ELSE Written([data EXCEPT !.order = Other])]
    /\ UNCHANGED <<free_lists, total_used, phase, job, held, reply>>

Next == \/ BuddyInit \/ Kmalloc \/ KmallocWithoutHeader \/ SplitBlock \/ HandOut
        \/ Kfree \/ KfreeAgain \/ KfreeWithoutHeader \/ AddIntoList \/ JoinBuddy
        \/ ClientWrites \/ Misfree \/ NotFollowed

Spec == Init /\ [][Next]_vars
-----------------------------------------------------------------------------
(* The blocks that list k leads to, at most as many as the pool has units. *)
Chain(k) ==
  LET node[n \in Unit] == IF n = 0 THEN free_lists[k]
                          ELSE LET last == node[n - 1]
                               IN IF last = Null THEN Null ELSE mem[last].next
  IN {node[n] : n \in Unit} \ {Null}

(* The lists are doubly linked and never broken, whatever clients write in  *)
(* the blocks they hold: a head has no predecessor, and a node's successor  *)
(* leads back to it; the header of every node tells its list.               *)
ListsLinked ==
  \A k \in Order :
    /\ free_lists[k] # Null => mem[free_lists[k]].prev = Null
    /\ \A a \in Chain(k) : /\ mem[a].order = k /\ ~ mem[a].used
                           /\ mem[a].next # Null => mem[mem[a].next].prev = a

(* Between calls no block and its buddy are both free: the pool is as       *)
(* little fragmented as what clients hold allows.                           *)
FullyMerged ==
  phase = "idle" =>
    \A k \in Order \ {MaxOrder} : \A a \in Chain(k) : BuddyOf(a, k) \notin Chain(k)

(* buddy_get_free_space answers the size of all free blocks together.  A    *)
(* size that is no block's is added as it is, and not as the size of the    *)
(* block that was returned with it.                                         *)
FreeUnits == UNION {UNION {a .. a + Size[k] - 1 : a \in Chain(k)} : k \in Order}
FreeSpace == Bytes(MaxOrder) - total_used
Accounted ==
  /\ phase = "idle" => FreeSpace = MinBlock * Cardinality(FreeUnits)
  /\ phase = "misfreed" => FreeSpace = MinBlock * Cardinality(FreeUnits) + reply.size

(* A request is refused only if it fits in no free block: the search of the *)
(* lists misses none, and no run of free blocks that could have been merged *)
(* is left apart.                                                           *)
RefusalJustified ==
  phase = "idle" /\ reply.op = "alloc" /\ reply.addr = Null /\ reply.size > 0
      /\ WantedOrder(reply.size) # Other
    => LET size == Size[WantedOrder(reply.size)]
       IN \A a \in Unit : a % size = 0 => ~ (a .. a + size - 1 \subseteq FreeUnits)

(* Freeing what was just freed does nothing: the header still says that the *)
(* block is free, although it may be a part of a larger block by now.       *)
DoubleFreeIgnored ==
  [][KfreeAgain => UNCHANGED <<mem, free_lists, total_used, phase>>]_vars

(* Lists and headers implement the abstract blocks: a block that is being   *)
(* merged counts as free.                                                   *)
FreeBlocks ==
  (UNION {{[addr |-> a, order |-> k] : a \in Chain(k)} : k \in Order})
    \cup (IF phase = "merging" THEN {[addr |-> job.block, order |-> job.order]} ELSE {})
Abstract == INSTANCE BuddyBlocks
              WITH free <- FreeBlocks,
                   held <- {[addr |-> b.addr, order |-> b.order] : b \in held}
ImplementsBlocks == Abstract!Spec
=============================================================================
