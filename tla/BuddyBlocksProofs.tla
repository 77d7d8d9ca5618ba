------------------------- MODULE BuddyBlocksProofs -------------------------
(***************************************************************************)
(* Proofs about BuddyBlocks, for any number of orders and any size of the  *)
(* smallest block.                                                         *)
(***************************************************************************)
EXTENDS BuddyBlocks, TLAPS

(* A block covers at least its own address. *)
LEMMA CoversType ==
  ASSUME NEW b \in Block
  PROVE  /\ b.addr \in Nat /\ b.order \in 0 .. MaxOrder
         /\ Size[b.order] \in Nat /\ Size[b.order] > 0
         /\ b.addr \in Covers(b)
BY BlocksAssumption DEF Block, Unit, Covers

(* The halves of a block cover what it covers, each a part of its own. *)
LEMMA Halves ==
  ASSUME NEW b, b.addr \in Nat, b.order \in 1 .. MaxOrder, Covers(b) \subseteq Unit
  PROVE  /\ Lower(b) \in Block /\ Upper(b) \in Block
         /\ Covers(Lower(b)) \cup Covers(Upper(b)) = Covers(b)
         /\ Covers(Lower(b)) \cap Covers(Upper(b)) = {}
         /\ Lower(b) # Upper(b)
<1> DEFINE k == b.order - 1
           a == b.addr
<1>1. k \in 0 .. MaxOrder - 1 /\ k \in 0 .. MaxOrder /\ k + 1 = b.order /\ MaxOrder \in Nat
  BY BlocksAssumption
<1>2. Size[k] \in Nat /\ Size[k] > 0 /\ Size[b.order] = 2 * Size[k]
  BY <1>1, BlocksAssumption
<1>3. Covers(b) = a .. a + 2 * Size[k] - 1
  BY <1>2 DEF Covers
<1>4. /\ Lower(b).addr = a /\ Lower(b).order = k
      /\ Upper(b).addr = a + Size[k] /\ Upper(b).order = k
      /\ Lower(b) = [addr |-> a, order |-> k]
      /\ Upper(b) = [addr |-> a + Size[k], order |-> k]
  BY DEF Lower, Upper, BlockAt
<1>5. Covers(Lower(b)) = a .. a + Size[k] - 1
  BY <1>4 DEF Covers
<1>6. Covers(Upper(b)) = a + Size[k] .. a + Size[k] + Size[k] - 1
  BY <1>4 DEF Covers
<1>7. a \in Covers(b) /\ a + Size[k] \in Covers(b)
  BY <1>2, <1>3
<1>8. Lower(b) \in Block /\ Upper(b) \in Block
  BY <1>1, <1>4, <1>7 DEF Block
<1>9. Lower(b) # Upper(b)
  BY <1>2, <1>4
<1>10. /\ Covers(Lower(b)) \cup Covers(Upper(b)) = Covers(b)
       /\ Covers(Lower(b)) \cap Covers(Upper(b)) = {}
  <2> DEFINE s == Size[k]
  <2>1. s \in Nat /\ a \in Nat
    BY <1>2
  <2> HIDE DEF s, k, a
  <2>2. /\ (a .. a + s - 1) \cup (a + s .. a + s + s - 1) = a .. a + 2 * s - 1
        /\ (a .. a + s - 1) \cap (a + s .. a + s + s - 1) = {}
    BY <2>1
  <2> QED
    BY <1>3, <1>5, <1>6, <2>2 DEF s
<1> QED
  BY <1>8, <1>9, <1>10

(* The blocks there are; blocks none of which has an address of another. *)
All == free \cup held
Separate(S) == \A b, c \in S : b # c => Covers(b) \cap Covers(c) = {}

(* Exchanging some blocks for others that cover the same addresses, each    *)
(* one its own, keeps a tiling a tiling.                                    *)
LEMMA Exchange ==
  ASSUME NEW S, NEW X, NEW Y, X \subseteq S,
         Separate(S), Separate(Y),
         UNION {Covers(b) : b \in X} = UNION {Covers(b) : b \in Y},
         \A b \in Y : Covers(b) # {}
  PROVE  /\ Separate((S \ X) \cup Y)
         /\ UNION {Covers(b) : b \in (S \ X) \cup Y} = UNION {Covers(b) : b \in S}
         /\ Y \cap (S \ X) = {}
<1>1. ASSUME NEW b \in S \ X, NEW c \in Y PROVE Covers(b) \cap Covers(c) = {}
  <2>1. ASSUME NEW u \in Covers(b), u \in Covers(c) PROVE FALSE
    <3>1. PICK d \in X : u \in Covers(d)
      BY <2>1
    <3> QED
      BY <2>1, <3>1 DEF Separate
  <2> QED
    BY <2>1
<1>2. Separate((S \ X) \cup Y)
  BY <1>1 DEF Separate
<1>3. UNION {Covers(b) : b \in (S \ X) \cup Y} = UNION {Covers(b) : b \in S}
  OBVIOUS
<1>4. Y \cap (S \ X) = {}
  BY <1>1
<1> QED
  BY <1>2, <1>3, <1>4

(* The tiling is inductive with the types: what a step exchanges covers the *)
(* same addresses, and so is apart from the blocks that stay.               *)
IInv == TypeOK /\ Tiled

(* What a block of the tiling covers lies in the pool. *)
LEMMA InPool ==
  ASSUME IInv, NEW b \in All
  PROVE  b \in Block /\ Covers(b) \subseteq Unit /\ Covers(b) # {}
<1>1. b \in Block
  BY DEF IInv, TypeOK, All
<1>2. Covers(b) \subseteq Unit
  BY DEF IInv, Tiled, All
<1> QED
  BY <1>1, <1>2, CoversType

(* Before buddy_init there is no block. *)
LEMMA InitIInv == Init => IInv
BY DEF Init, IInv, TypeOK, Tiled, Disjoint

(* buddy_init: one block covers the pool. *)
LEMMA ProvideStep ==
  ASSUME IInv, Provide
  PROVE  IInv' /\ FreeUnits = {} /\ FreeUnits' = Unit /\ HeldUnits' = HeldUnits
               /\ HeldUnits = {} /\ Unit # {}
<1> DEFINE p == BlockAt(0, MaxOrder)
<1>1. Size[MaxOrder] \in Nat /\ Size[MaxOrder] > 0 /\ MaxOrder \in 0 .. MaxOrder
  BY BlocksAssumption
<1>2. 0 \in Unit
  BY <1>1 DEF Unit
<1>3. p \in Block /\ Covers(p) = Unit
  BY <1>1, <1>2 DEF BlockAt, Block, Covers, Unit
<1>4. free' = {p} /\ held' = {} /\ free = {} /\ held = {}
  BY DEF Provide
<1>5. TypeOK'
  BY <1>3, <1>4 DEF TypeOK
<1> HIDE DEF p
<1>6. UNION {Covers(b) : b \in free' \cup held'} = Unit /\ UNION {Covers(b) : b \in free'} = Unit
  BY <1>3, <1>4
<1>7. Tiled'
  BY <1>4, <1>6 DEF Tiled, Disjoint
<1> QED
  BY <1>2, <1>4, <1>5, <1>6, <1>7 DEF IInv, FreeUnits, HeldUnits

(* Free blocks exchanged for others that cover the same addresses. *)
LEMMA ExchangeStep ==
  ASSUME IInv, NEW X, NEW Y,
         X \subseteq free, X # {}, Y # {}, Y \subseteq Block,
         free' = (free \ X) \cup Y, held' = held,
         Separate(Y), UNION {Covers(b) : b \in X} = UNION {Covers(b) : b \in Y}
  PROVE  IInv' /\ UNCHANGED <<FreeUnits, HeldUnits>>
<1>1. TypeOK'
  BY DEF IInv, TypeOK
<1>2. \A b \in Y : Covers(b) # {}
  BY CoversType
<1>3. Separate(All) /\ Separate(free) /\ free \cap held = {}
  BY DEF IInv, Tiled, Disjoint, Separate, All
<1>4. UNION {Covers(b) : b \in All} = Unit
  BY DEF IInv, Tiled, All
<1>5. X \subseteq All
  BY DEF All
<1>6. /\ Separate((All \ X) \cup Y)
      /\ UNION {Covers(b) : b \in (All \ X) \cup Y} = Unit
      /\ Y \cap (All \ X) = {}
  <2>1. Separate(All)
    BY <1>3
  <2>2. /\ Separate((All \ X) \cup Y)
        /\ UNION {Covers(b) : b \in (All \ X) \cup Y} = UNION {Covers(b) : b \in All}
        /\ Y \cap (All \ X) = {}
    BY <1>2, <1>5, <2>1, Exchange, ZenonT(30)
  <2> QED
    BY <1>4, <2>2
<1>7. /\ UNION {Covers(b) : b \in (free \ X) \cup Y} = UNION {Covers(b) : b \in free}
  BY <1>2, <1>3, Exchange
<1>8. free' \cup held' = (All \ X) \cup Y /\ free' \cap held' = {}
  BY <1>3, <1>6 DEF All
<1>9. Tiled'
  BY <1>6, <1>8 DEF Tiled, Disjoint, Separate
<1> QED
  BY <1>1, <1>7, <1>9 DEF IInv, FreeUnits, HeldUnits

(* A block is split into halves that cover what it covered. *)
LEMMA SplitStep ==
  ASSUME IInv, NEW b \in Block, Split(b)
  PROVE  IInv' /\ UNCHANGED <<FreeUnits, HeldUnits>>
<1> DEFINE Y == {Lower(b), Upper(b)}
<1>1. b.addr \in Nat /\ b.order \in 1 .. MaxOrder /\ Covers(b) \subseteq Unit
  BY CoversType, InPool, BlocksAssumption DEF Split, All
<1>2. /\ Lower(b) \in Block /\ Upper(b) \in Block
      /\ Covers(Lower(b)) \cup Covers(Upper(b)) = Covers(b)
      /\ Covers(Lower(b)) \cap Covers(Upper(b)) = {}
  BY <1>1, Halves
<1>3. Separate(Y) /\ Y \subseteq Block /\ Y # {}
  BY <1>2 DEF Separate
<1>4. UNION {Covers(c) : c \in {b}} = UNION {Covers(c) : c \in Y}
  BY <1>2
<1>5. {b} \subseteq free /\ free' = (free \ {b}) \cup Y /\ held' = held
  BY DEF Split
<1> HIDE DEF Y
<1> QED
  BY <1>3, <1>4, <1>5, ExchangeStep

(* Two halves become the block that covers what they covered. *)
LEMMA MergeStep ==
  ASSUME IInv, NEW b \in Block, Merge(b)
  PROVE  IInv' /\ UNCHANGED <<FreeUnits, HeldUnits>>
<1> DEFINE X == {Lower(b), Upper(b)}
<1>1. b.addr \in Nat /\ b.order \in 1 .. MaxOrder
  BY CoversType, BlocksAssumption DEF Merge
<1>2. Covers(Lower(b)) \cup Covers(Upper(b)) = Covers(b)
  <2> DEFINE k == b.order - 1
             a == b.addr
             s == Size[k]
  <2>1. k \in 0 .. MaxOrder - 1 /\ k \in 0 .. MaxOrder /\ k + 1 = b.order
    BY <1>1, BlocksAssumption
  <2>2. s \in Nat /\ s > 0 /\ Size[b.order] = 2 * s /\ a \in Nat
    BY <1>1, <2>1, BlocksAssumption
  <2>3. /\ Covers(Lower(b)) = a .. a + s - 1
        /\ Covers(Upper(b)) = a + s .. a + s + s - 1
        /\ Covers(b) = a .. a + 2 * s - 1
    BY <2>2 DEF Lower, Upper, BlockAt, Covers
  <2> HIDE DEF s, a, k
  <2>4. (a .. a + s - 1) \cup (a + s .. a + s + s - 1) = a .. a + 2 * s - 1
    BY <2>2
  <2> QED
    BY <2>3, <2>4
<1>3. UNION {Covers(c) : c \in X} = UNION {Covers(c) : c \in {b}}
  BY <1>2
<1>4. X \subseteq free /\ X # {} /\ free' = (free \ X) \cup {b} /\ held' = held
  BY DEF Merge
<1>5. Separate({b}) /\ {b} \subseteq Block /\ {b} # {}
  BY DEF Separate
<1> HIDE DEF X
<1> QED
  BY <1>3, <1>4, <1>5, ExchangeStep

(* A block handed out, or given back, is the same block, with its addresses. *)
LEMMA MoveStep ==
  ASSUME IInv, NEW b \in Block, Take(b) \/ Give(b)
  PROVE  /\ IInv'
         /\ Take(b) => /\ Covers(b) \subseteq FreeUnits
                       /\ FreeUnits' = FreeUnits \ Covers(b)
                       /\ HeldUnits' = HeldUnits \cup Covers(b)
         /\ Give(b) => /\ Covers(b) \subseteq HeldUnits
                       /\ FreeUnits' = FreeUnits \cup Covers(b)
                       /\ HeldUnits' = HeldUnits \ Covers(b)
<1>1. free' \cup held' = free \cup held /\ TypeOK'
  BY DEF Take, Give, IInv, TypeOK
<1>2. Tiled'
  BY <1>1 DEF IInv, Tiled, Disjoint, Take, Give
<1>3. \A c \in (free \cup held) \ {b} : Covers(c) \cap Covers(b) = {}
  BY DEF IInv, Tiled, Disjoint, Take, Give
<1>4. CASE Take(b)
  <2>1. UNION {Covers(c) : c \in free \ {b}} = (UNION {Covers(c) : c \in free}) \ Covers(b)
    BY <1>3, <1>4 DEF Take
  <2> QED
    BY <1>1, <1>2, <1>4, <2>1 DEF Take, Give, IInv, Tiled, Disjoint, FreeUnits, HeldUnits
<1>5. CASE Give(b)
  <2>1. UNION {Covers(c) : c \in held \ {b}} = (UNION {Covers(c) : c \in held}) \ Covers(b)
    BY <1>3, <1>5 DEF Give
  <2> QED
    BY <1>1, <1>2, <1>5, <2>1 DEF Take, Give, IInv, Tiled, Disjoint, FreeUnits, HeldUnits
<1> QED
  BY <1>4, <1>5

(* Every step preserves the invariant. *)
LEMMA StepIInv == IInv /\ [Next]_vars => IInv'
<1> SUFFICES ASSUME IInv, [Next]_vars PROVE IInv'
  OBVIOUS
<1>1. CASE Next
  BY <1>1, ProvideStep, SplitStep, MergeStep, MoveStep DEF Next
<1>2. CASE UNCHANGED vars
  BY <1>2 DEF vars, IInv, TypeOK, Tiled, Disjoint
<1> QED
  BY <1>1, <1>2

(* Once there is a block, there is always one. *)
LEMMA StepSome == All # {} /\ [Next]_vars => All' # {}
BY DEF All, Next, vars, Provide, Split, Merge, Take, Give

(* However blocks are split, handed out, given back and merged, they tile   *)
(* the pool: no address is in two blocks and none is lost.                  *)
THEOREM Safety == Spec => [](TypeOK /\ Tiled)
<1>1. IInv => TypeOK /\ Tiled
  BY DEF IInv
<1> QED
  BY InitIInv, StepIInv, <1>1, PTL DEF Spec

-----------------------------------------------------------------------------
(* A multiple of a number leaves no remainder.                              *)
LEMMA MultipleOf ==
  ASSUME NEW n \in Nat \ {0}, NEW k \in Nat
  PROVE  (n * k) % n = 0
<1> DEFINE a == n * k
           q == a \div n
           r == a % n
<1>1. a \in Nat
  OBVIOUS
<1>2. q \in Nat /\ r \in 0 .. n - 1 /\ a = n * q + r
  BY <1>1
<1>3. r = n * (k - q)
  <2> HIDE DEF q, r
  <2> QED
    BY <1>2
<1> DEFINE d == k - q
<1>4. d \in Int /\ r = n * d
  BY <1>2, <1>3
<1> HIDE DEF d, r
<1>5. /\ d >= 1 => n * d >= n
      /\ d <= -1 => n * d <= -n
      /\ d = 0 => n * d = 0
  BY <1>4
<1> QED
  BY <1>2, <1>4, <1>5 DEF r

(* The halves of an aligned block are aligned to their own size.            *)
LEMMA HalvesAligned ==
  ASSUME NEW b \in Block, b.order > 0, b.addr % Size[b.order] = 0
  PROVE  /\ Lower(b).addr % Size[b.order - 1] = 0
         /\ Upper(b).addr % Size[b.order - 1] = 0
<1> DEFINE a == b.addr
           k == b.order - 1
           s == Size[k]
           q == a \div (2 * s)
<1>0. b.addr \in Nat /\ b.order \in 1 .. MaxOrder /\ MaxOrder \in Nat
  BY CoversType, BlocksAssumption
<1>1. k \in 0 .. MaxOrder - 1 /\ k \in 0 .. MaxOrder /\ k + 1 = b.order
  BY <1>0
<1>2. s \in Nat \ {0} /\ Size[b.order] = 2 * s /\ a \in Nat
  BY <1>0, <1>1, BlocksAssumption
<1>3. /\ q \in Nat
      /\ a = s * (2 * q)
      /\ a + s = s * (2 * q + 1)
  <2> HIDE DEF s, a
  <2>1. a % (2 * s) = 0
    BY <1>2 DEF a
  <2>2. 2 * s \in Nat \ {0}
    BY <1>2
  <2>3. q \in Nat /\ a = (2 * s) * q + (a % (2 * s))
    BY <1>2, <2>2
  <2> HIDE DEF q
  <2> QED
    BY <1>2, <2>1, <2>3
<1>4. (s * (2 * q)) % s = 0 /\ (s * (2 * q + 1)) % s = 0
  <2>1. 2 * q \in Nat /\ 2 * q + 1 \in Nat
    BY <1>3
  <2> HIDE DEF s, q
  <2> QED
    BY <1>2, <2>1, MultipleOf
<1>5. Lower(b).addr = a /\ Upper(b).addr = a + s
  BY DEF Lower, Upper, BlockAt
<1>6. a % s = 0 /\ (a + s) % s = 0
  <2> HIDE DEF s, q, a
  <2> QED
    BY <1>3, <1>4
<1> QED
  BY <1>5, <1>6

(* Every step keeps the blocks aligned. *)
LEMMA StepAligned == IInv /\ Aligned /\ [Next]_vars => Aligned'
<1> SUFFICES ASSUME IInv, Aligned, [Next]_vars PROVE Aligned'
  OBVIOUS
<1>1. CASE Provide
  <2>1. BlockAt(0, MaxOrder).addr % Size[BlockAt(0, MaxOrder).order] = 0
    BY BlocksAssumption DEF BlockAt
  <2> QED
    BY <1>1, <2>1 DEF Provide, Aligned
<1>2. ASSUME NEW b \in Block, Split(b) PROVE Aligned'
  <2>1. /\ Lower(b).addr % Size[Lower(b).order] = 0
        /\ Upper(b).addr % Size[Upper(b).order] = 0
    BY <1>2, HalvesAligned DEF Split, Aligned, Lower, Upper, BlockAt
  <2> QED
    BY <1>2, <2>1 DEF Split, Aligned
<1>3. ASSUME NEW b \in Block, Merge(b) \/ Take(b) \/ Give(b) PROVE Aligned'
  BY <1>3 DEF Merge, Take, Give, Aligned
<1>4. CASE UNCHANGED vars
  BY <1>4 DEF vars, Aligned
<1> QED
  BY <1>1, <1>2, <1>3, <1>4 DEF Next

(* Whatever is split and merged, each block starts at a multiple of its    *)
(* size, which is why buddy_free finds the buddy of a block by flipping    *)
(* one bit of its address.                                                 *)
THEOREM Alignment == Spec => []Aligned
<1>1. Init => Aligned
  BY DEF Init, Aligned
<1> QED
  BY InitIInv, StepIInv, StepAligned, <1>1, PTL DEF Spec

-----------------------------------------------------------------------------
(* A block's addresses are a range of the pool. *)
LEMMA CoversRange ==
  ASSUME IInv, NEW b \in All
  PROVE  \E first, last \in Unit : first <= last /\ Covers(b) = Abstract!Range(first, last)
<1> DEFINE first == b.addr
           last == b.addr + Size[b.order] - 1
<1>1. b \in Block /\ Covers(b) \subseteq Unit
  BY InPool
<1>2. first \in Nat /\ Size[b.order] \in Nat /\ Size[b.order] > 0 /\ Covers(b) = first .. last
  BY <1>1, CoversType DEF Covers
<1>3. first \in Covers(b) /\ last \in Covers(b) /\ first <= last
  BY <1>2
<1>4. Covers(b) = {a \in Unit : first <= a /\ a <= last}
  BY <1>1, <1>2, BlocksAssumption DEF Unit
<1> QED
  BY <1>1, <1>3, <1>4 DEF Abstract!Range

(* Splitting and merging are invisible to clients: as far as addresses go,  *)
(* the blocks implement the allocator of ranges.                            *)
THEOREM Refinement == Spec => ImplementsRangeAllocator
<1>1. Init => Abstract!Init
  BY DEF Init, Abstract!Init, FreeUnits, HeldUnits
<1>2. IInv /\ [Next]_vars => [Abstract!Next]_(Abstract!vars)
  <2> SUFFICES ASSUME IInv, [Next]_vars PROVE [Abstract!Next]_(Abstract!vars)
    OBVIOUS
  <2>1. CASE Provide
    <3>1. Unit = 0 .. Size[MaxOrder] - 1 /\ Size[MaxOrder] - 1 \in Unit /\ 0 \in Unit
            /\ 0 <= Size[MaxOrder] - 1
      BY BlocksAssumption DEF Unit
    <3>2. Unit = Abstract!Range(0, Size[MaxOrder] - 1)
      BY <3>1, BlocksAssumption DEF Abstract!Range
    <3>3. Abstract!Donate(Unit)
      BY <2>1, ProvideStep DEF Abstract!Donate
    <3> QED
      BY <3>1, <3>2, <3>3 DEF Abstract!Next
  <2>2. ASSUME NEW b \in Block, Split(b) \/ Merge(b) PROVE UNCHANGED <<FreeUnits, HeldUnits>>
    BY <2>2, SplitStep, MergeStep
  <2>3. ASSUME NEW b \in Block, Take(b) \/ Give(b) PROVE Abstract!Next
    <3>1. b \in All
      BY <2>3 DEF Take, Give, All
    <3>2. PICK first \in Unit, last \in Unit :
            first <= last /\ Covers(b) = Abstract!Range(first, last)
      BY <3>1, CoversRange
    <3>3. Abstract!Allocate(Covers(b)) \/ Abstract!Release(Covers(b))
      BY <2>3, MoveStep DEF Abstract!Allocate, Abstract!Release
    <3> QED
      BY <3>2, <3>3 DEF Abstract!Next
  <2>4. CASE UNCHANGED vars
    BY <2>4 DEF vars, FreeUnits, HeldUnits, Abstract!vars
  <2> QED
    BY <2>1, <2>2, <2>3, <2>4 DEF Next, Abstract!vars
<1> QED
  BY InitIInv, StepIInv, <1>1, <1>2, PTL DEF Spec, ImplementsRangeAllocator, Abstract!Spec
=============================================================================
