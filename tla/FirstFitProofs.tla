--------------------------- MODULE FirstFitProofs ---------------------------
(***************************************************************************)
(* Proofs about FirstFit, for every value of its constants; and then about *)
(* firstfit_force_alloc among the other operations of a pool, for any pool *)
(* that is smaller than half of the addresses.  The last part is about     *)
(* calls that firstfit_force_alloc does not support, and what is left of a *)
(* pool after them.                                                        *)
(***************************************************************************)
EXTENDS FirstFitForce, SequenceTheorems, WellFoundedInduction, TLAPS

-----------------------------------------------------------------------------
(* What removing from, and inserting into, a sequence yields. *)
LEMMA RemoveAtLemma ==
  ASSUME NEW S, NEW s \in Seq(S), NEW i \in 1 .. Len(s)
  PROVE  /\ RemoveAt(s, i) \in Seq(S)
         /\ Len(RemoveAt(s, i)) = Len(s) - 1
         /\ \A k \in 1 .. Len(s) - 1 :
              RemoveAt(s, i)[k] = IF k < i THEN s[k] ELSE s[k + 1]
<1> DEFINE l == SubSeq(s, 1, i - 1)
           r == SubSeq(s, i + 1, Len(s))
<1>0. Len(s) \in Nat /\ i \in Nat
  OBVIOUS
<1>1. l \in Seq(S) /\ Len(l) = i - 1 /\ \A k \in 1 .. i - 1 : l[k] = s[k]
  BY <1>0, SubSeqProperties
<1>2. r \in Seq(S) /\ Len(r) = Len(s) - i /\ \A k \in 1 .. Len(s) - i : r[k] = s[i + k]
  BY <1>0, SubSeqProperties
<1> HIDE DEF l, r
<1>3. /\ l \o r \in Seq(S) /\ Len(l \o r) = Len(l) + Len(r)
      /\ \A k \in 1 .. Len(l) + Len(r) :
           (l \o r)[k] = IF k <= Len(l) THEN l[k] ELSE r[k - Len(l)]
  BY <1>1, <1>2, ConcatProperties
<1>4. \A k \in 1 .. Len(s) - 1 : (l \o r)[k] = IF k < i THEN s[k] ELSE s[k + 1]
  BY <1>0, <1>1, <1>2, <1>3
<1>5. RemoveAt(s, i) = l \o r
  BY DEF RemoveAt, l, r
<1>6. Len(l \o r) = Len(s) - 1
  BY <1>0, <1>1, <1>2, <1>3
<1> QED
  BY <1>3, <1>4, <1>5, <1>6

(* The elements before the insertion point stay, the others move up by one. *)
LEMMA InsertAtLemma ==
  ASSUME NEW S, NEW s \in Seq(S), NEW i \in 1 .. Len(s) + 1, NEW e \in S
  PROVE  /\ InsertAt(s, i, e) \in Seq(S)
         /\ Len(InsertAt(s, i, e)) = Len(s) + 1
         /\ \A k \in 1 .. Len(s) + 1 :
              InsertAt(s, i, e)[k] = IF k < i THEN s[k] ELSE IF k = i THEN e ELSE s[k - 1]
<1> DEFINE l == SubSeq(s, 1, i - 1)
           r == SubSeq(s, i, Len(s))
<1>0. Len(s) \in Nat /\ i \in Nat
  OBVIOUS
<1>1. l \in Seq(S) /\ Len(l) = i - 1 /\ \A k \in 1 .. i - 1 : l[k] = s[k]
  BY <1>0, SubSeqProperties
<1>2. r \in Seq(S) /\ Len(r) = Len(s) - i + 1 /\ \A k \in 1 .. Len(s) - i + 1 : r[k] = s[i + k - 1]
  BY <1>0, SubSeqProperties
<1> HIDE DEF l, r
<1>e. <<e>> \in Seq(S) /\ Len(<<e>>) = 1 /\ <<e>>[1] = e
  OBVIOUS
<1>3. /\ l \o <<e>> \in Seq(S) /\ Len(l \o <<e>>) = i
      /\ \A k \in 1 .. i : (l \o <<e>>)[k] = IF k < i THEN s[k] ELSE e
  BY <1>0, <1>1, <1>e, ConcatProperties
<1>4. /\ (l \o <<e>>) \o r \in Seq(S)
      /\ Len((l \o <<e>>) \o r) = Len(s) + 1
      /\ \A k \in 1 .. Len(s) + 1 :
           ((l \o <<e>>) \o r)[k] = IF k <= i THEN (l \o <<e>>)[k] ELSE r[k - i]
  BY <1>0, <1>2, <1>3, ConcatProperties
<1>5. \A k \in 1 .. Len(s) + 1 : ((l \o <<e>>) \o r)[k]
         = IF k < i THEN s[k] ELSE IF k = i THEN e ELSE s[k - 1]
  BY <1>0, <1>2, <1>3, <1>4
<1>6. InsertAt(s, i, e) = (l \o <<e>>) \o r
  BY DEF InsertAt, l, r
<1> QED
  BY <1>4, <1>5, <1>6

(* FirstOf yields the least index of a set of indices, and 0 for none. *)
LEMMA FirstOfLemma ==
  ASSUME NEW S, S \subseteq Nat \ {0}
  PROVE  /\ FirstOf(S) = 0 <=> S = {}
         /\ S # {} => FirstOf(S) \in S /\ \A j \in S : FirstOf(S) <= j
<1>1. CASE S = {}
  BY <1>1 DEF FirstOf
<1>2. CASE S # {}
  <2> DEFINE Less == {p \in Nat \X Nat : p[1] < p[2]}
  <2>1. IsWellFoundedOn(Less, Nat)
    <3>1. Less = OpToRel(<, Nat)
      BY DEF OpToRel
    <3> QED
      BY <3>1, NatLessThanWellFounded
  <2>2. PICK i \in S : \A j \in S : ~ (<<j, i>> \in Less)
    <3> HIDE DEF Less
    <3>1. S \in SUBSET Nat
      OBVIOUS
    <3> QED
      BY <1>2, <2>1, <3>1, WFMin
  <2>3. ASSUME NEW j \in S PROVE i <= j
    <3>1. i \in Nat /\ j \in Nat
      OBVIOUS
    <3>2. <<j, i>> \in Nat \X Nat /\ <<j, i>>[1] = j /\ <<j, i>>[2] = i
      BY <3>1
    <3>3. ~ (j < i)
      BY <2>2, <3>2
    <3> QED
      BY <3>1, <3>3
  <2> QED
    BY <1>2, <2>3 DEF FirstOf
<1> QED
  BY <1>1, <1>2

-----------------------------------------------------------------------------
(* Lists of blocks: what one edit does to the order and to the addresses. *)
LEMMA AddrsOfMember ==
  ASSUME NEW list \in Seq(Block), NEW a
  PROVE  a \in AddrsOf(list) <=>
           /\ a \in Int
           /\ \E i \in 1 .. Len(list) :
                list[i].start <= a /\ a < list[i].start + list[i].size
<1>1. DOMAIN list = 1 .. Len(list)
  BY LenProperties
<1>2. ASSUME NEW i \in 1 .. Len(list)
      PROVE  list[i].start \in Int /\ list[i].size \in Int
  <2>1. list[i] \in Block
    BY ElementOfSeq
  <2> QED
    BY <2>1, FirstFitAssumption DEF Block, Addr
<1>3. a \in AddrsOf(list) <=>
        \E i \in 1 .. Len(list) : a \in list[i].start .. list[i].start + list[i].size - 1
  BY <1>1 DEF AddrsOf, Interval
<1>4. ASSUME NEW i \in 1 .. Len(list)
      PROVE  a \in list[i].start .. list[i].start + list[i].size - 1 <=>
               a \in Int /\ list[i].start <= a /\ a < list[i].start + list[i].size
  BY <1>2
<1> QED
  BY <1>3, <1>4

(* Two ranges side by side are one range, and they have no address in common:
   the arithmetic of merging and of splitting. *)
LEMMA IntervalFacts ==
  ASSUME NEW x \in Nat, NEW y \in Nat, NEW z \in Nat
  PROVE  /\ Interval(x, y + z) = Interval(x, y) \cup Interval(x + y, z)
         /\ Interval(x, y) \cap Interval(x + y, z) = {}
         /\ \A a : a \in Interval(x, y) <=> a \in Int /\ x <= a /\ a < x + y
BY DEF Interval

(* Bounds and types of the blocks of a well-formed list, none of which wraps. *)
LEMMA ListFacts ==
  ASSUME NEW list \in Seq(Block), WellFormed(list)
  PROVE  /\ Len(list) \in Nat
         /\ \A i \in 1 .. Len(list) :
              /\ list[i] \in Block
              /\ list[i].start \in Nat /\ list[i].size \in Nat /\ list[i].size > 0
              /\ list[i].start + list[i].size <= Top
         /\ \A i, j \in 1 .. Len(list) :
              i < j => list[i].start + list[i].size < list[j].start
<1>1. Len(list) \in Nat /\ DOMAIN list = 1 .. Len(list)
  BY LenProperties
<1>2. ASSUME NEW i \in 1 .. Len(list)
      PROVE  /\ list[i] \in Block
             /\ list[i].start \in Nat /\ list[i].size \in Nat
  <2>1. list[i] \in Block
    BY ElementOfSeq
  <2> QED
    BY <2>1, FirstFitAssumption DEF Block, Addr
<1> QED
  BY <1>1, <1>2 DEF WellFormed

(* A block's addresses are among those of its list. *)
LEMMA BlockOf ==
  ASSUME NEW list \in Seq(Block), WellFormed(list), NEW i \in 1 .. Len(list)
  PROVE  Interval(list[i].start, list[i].size) \subseteq AddrsOf(list)
<1>1. list[i].start \in Nat /\ list[i].size \in Nat
  BY ListFacts
<1>2. ASSUME NEW a \in Interval(list[i].start, list[i].size)
      PROVE  a \in AddrsOf(list)
  <2>1. a \in Int /\ list[i].start <= a /\ a < list[i].start + list[i].size
    BY <1>1 DEF Interval
  <2> QED
    BY <2>1, AddrsOfMember
<1> QED
  BY <1>2

(* The block b fits between the blocks before index i and those from j on. *)
Between(list, i, b, j) ==
  /\ b \in Block
  /\ b.size > 0
  /\ b.start + b.size <= Top
  /\ \A k \in 1 .. Len(list) : k < i => list[k].start + list[k].size < b.start
  /\ \A k \in 1 .. Len(list) : k >= j => b.start + b.size < list[k].start

(* Replacing block i by one that fits between its neighbours: how a block
   grows when a range is merged into it, or shrinks when its front is taken. *)
LEMMA ReplaceLemma ==
  ASSUME NEW list \in Seq(Block), WellFormed(list),
         NEW i \in 1 .. Len(list), NEW b, Between(list, i, b, i + 1)
  PROVE  LET q == [list EXCEPT ![i] = b]
         IN /\ q \in Seq(Block)
            /\ Len(q) = Len(list)
            /\ WellFormed(q)
            /\ AddrsOf(q) = (AddrsOf(list) \ Interval(list[i].start, list[i].size))
                               \cup Interval(b.start, b.size)
<1> DEFINE q == [list EXCEPT ![i] = b]
           n == Len(list)
<1>1. /\ q \in Seq(Block)
      /\ Len(q) = n
      /\ \A k \in 1 .. n : q[k] = IF k = i THEN b ELSE list[k]
  BY ExceptSeq DEF Between
<1>2. /\ n \in Nat
      /\ \A k \in 1 .. n : /\ list[k].start \in Nat /\ list[k].size \in Nat /\ list[k].size > 0
                           /\ list[k].start + list[k].size <= Top
      /\ \A j, k \in 1 .. n : j < k => list[j].start + list[j].size < list[k].start
  BY ListFacts
<1>3. /\ b.start \in Nat /\ b.size \in Nat /\ b.size > 0
      /\ b.start + b.size <= Top
      /\ \A k \in 1 .. n : k < i => list[k].start + list[k].size < b.start
      /\ \A k \in 1 .. n : k > i => b.start + b.size < list[k].start
  BY <1>2, FirstFitAssumption DEF Between, Block, Addr
<1>4. DOMAIN q = 1 .. n
  BY <1>1, LenProperties
<1> HIDE DEF q
<1>5. ASSUME NEW k \in 1 .. n
      PROVE  q[k].size > 0 /\ q[k].start + q[k].size <= Top
  BY <1>1, <1>2, <1>3
<1>6. ASSUME NEW j \in 1 .. n, NEW k \in 1 .. n, j < k
      PROVE  q[j].start + q[j].size < q[k].start
  <2>1. CASE j = i
    BY <1>1, <1>3, <1>6, <2>1
  <2>2. CASE k = i
    BY <1>1, <1>3, <1>6, <2>2
  <2>3. CASE j # i /\ k # i
    BY <1>1, <1>2, <1>6, <2>3
  <2> QED
    BY <2>1, <2>2, <2>3
<1>7. WellFormed(q)
  BY <1>4, <1>5, <1>6 DEF WellFormed
<1>8. ASSUME NEW a
      PROVE  a \in AddrsOf(q) <=>
               \/ a \in AddrsOf(list) /\ a \notin Interval(list[i].start, list[i].size)
               \/ a \in Interval(b.start, b.size)
  <2>1. CASE a \notin Int
    BY <1>1, <1>2, <1>3, <2>1, AddrsOfMember DEF Interval
  <2>2. CASE a \in Int
    <3>1. a \in AddrsOf(q) <=> \E k \in 1 .. n : q[k].start <= a /\ a < q[k].start + q[k].size
      BY <1>1, <2>2, AddrsOfMember
    <3>2. a \in AddrsOf(list) <=>
            \E k \in 1 .. n : list[k].start <= a /\ a < list[k].start + list[k].size
      BY <2>2, AddrsOfMember
    <3>3. a \in Interval(b.start, b.size) <=> b.start <= a /\ a < b.start + b.size
      BY <1>3, <2>2 DEF Interval
    <3>4. a \in Interval(list[i].start, list[i].size) <=>
            list[i].start <= a /\ a < list[i].start + list[i].size
      BY <1>2, <2>2 DEF Interval
    <3>5. ASSUME NEW k \in 1 .. n, k # i, list[k].start <= a, a < list[k].start + list[k].size
          PROVE  ~ (list[i].start <= a /\ a < list[i].start + list[i].size)
      <4>1. CASE k < i
        BY <1>2, <2>2, <3>5, <4>1
      <4>2. CASE k > i
        BY <1>2, <2>2, <3>5, <4>2
      <4> QED
        BY <1>2, <3>5, <4>1, <4>2
    <3> QED
      BY <1>1, <3>1, <3>2, <3>3, <3>4, <3>5
  <2> QED
    BY <2>1, <2>2
<1>9. AddrsOf(q) = (AddrsOf(list) \ Interval(list[i].start, list[i].size))
                     \cup Interval(b.start, b.size)
  BY <1>8
<1> QED
  BY <1>1, <1>7, <1>9 DEF q

(* Removing a block takes away its addresses and no other. *)
LEMMA RemoveLemma ==
  ASSUME NEW list \in Seq(Block), WellFormed(list), NEW i \in 1 .. Len(list)
  PROVE  LET q == RemoveAt(list, i)
         IN /\ q \in Seq(Block)
            /\ Len(q) = Len(list) - 1
            /\ \A k \in 1 .. Len(list) - 1 : q[k] = IF k < i THEN list[k] ELSE list[k + 1]
            /\ WellFormed(q)
            /\ AddrsOf(q) = AddrsOf(list) \ Interval(list[i].start, list[i].size)
<1> DEFINE q == RemoveAt(list, i)
           n == Len(list)
<1>1. /\ q \in Seq(Block)
      /\ Len(q) = n - 1
      /\ \A k \in 1 .. n - 1 : q[k] = IF k < i THEN list[k] ELSE list[k + 1]
  BY RemoveAtLemma
<1>2. /\ n \in Nat
      /\ \A k \in 1 .. n : /\ list[k].start \in Nat /\ list[k].size \in Nat /\ list[k].size > 0
                           /\ list[k].start + list[k].size <= Top
      /\ \A j, k \in 1 .. n : j < k => list[j].start + list[j].size < list[k].start
  BY ListFacts
<1>3. DOMAIN q = 1 .. n - 1
  BY <1>1, LenProperties
<1>i. i \in 1 .. n
  OBVIOUS
<1> HIDE DEF q, n
<1>4. ASSUME NEW k \in 1 .. n - 1
      PROVE  q[k].size > 0 /\ q[k].start + q[k].size <= Top
  <2>1. k \in 1 .. n /\ k + 1 \in 1 .. n /\ (q[k] = list[k] \/ q[k] = list[k + 1])
    BY <1>1, <1>2
  <2> QED
    BY <1>2, <2>1
<1>5. ASSUME NEW j \in 1 .. n - 1, NEW k \in 1 .. n - 1, j < k
      PROVE  q[j].start + q[j].size < q[k].start
  <2>1. /\ j \in 1 .. n /\ j + 1 \in 1 .. n /\ k \in 1 .. n /\ k + 1 \in 1 .. n
        /\ j < k + 1 /\ j + 1 < k + 1
    BY <1>2, <1>5
  <2>2. CASE k < i
    <3>1. q[j] = list[j] /\ q[k] = list[k]
      BY <1>1, <1>5, <1>i, <2>1, <2>2
    <3> QED
      BY <1>2, <1>5, <2>1, <3>1
  <2>3. CASE j < i /\ ~ (k < i)
    <3>1. q[j] = list[j] /\ q[k] = list[k + 1]
      BY <1>1, <2>3
    <3> QED
      BY <1>2, <2>1, <3>1
  <2>4. CASE ~ (j < i) /\ ~ (k < i)
    <3>1. q[j] = list[j + 1] /\ q[k] = list[k + 1]
      BY <1>1, <2>4
    <3> QED
      BY <1>2, <2>1, <3>1
  <2> QED
    BY <1>5, <1>i, <1>2, <2>2, <2>3, <2>4
<1>6. WellFormed(q)
  BY <1>3, <1>4, <1>5 DEF WellFormed
<1>7. ASSUME NEW a
      PROVE  a \in AddrsOf(q) <=>
               a \in AddrsOf(list) /\ a \notin Interval(list[i].start, list[i].size)
  <2>1. CASE a \notin Int
    BY <1>1, <2>1, AddrsOfMember
  <2>2. CASE a \in Int
    <3>1. a \in AddrsOf(q) <=>
            \E k \in 1 .. n - 1 : q[k].start <= a /\ a < q[k].start + q[k].size
      BY <1>1, <2>2, AddrsOfMember
    <3>2. a \in AddrsOf(list) <=>
            \E k \in 1 .. n : list[k].start <= a /\ a < list[k].start + list[k].size
      BY <2>2, AddrsOfMember DEF n
    <3>3. a \in Interval(list[i].start, list[i].size) <=>
            list[i].start <= a /\ a < list[i].start + list[i].size
      BY <1>i, <1>2, <2>2 DEF Interval
    <3>4. ASSUME NEW k \in 1 .. n, k # i, list[k].start <= a, a < list[k].start + list[k].size
          PROVE  ~ (list[i].start <= a /\ a < list[i].start + list[i].size)
      <4>1. CASE k < i
        BY <1>i, <1>2, <2>2, <3>4, <4>1
      <4>2. CASE k > i
        BY <1>i, <1>2, <2>2, <3>4, <4>2
      <4> QED
        BY <1>i, <1>2, <3>4, <4>1, <4>2
    <3>5. ASSUME NEW k \in 1 .. n, k # i
          PROVE  \E m \in 1 .. n - 1 : q[m] = list[k]
      <4>1. CASE k < i
        <5>1. k \in 1 .. n - 1 /\ q[k] = list[k]
          BY <1>i, <1>1, <1>2, <4>1
        <5> QED
          BY <5>1
      <4>2. CASE k > i
        <5>1. k - 1 \in 1 .. n - 1 /\ ~ (k - 1 < i) /\ (k - 1) + 1 = k
          BY <1>i, <1>2, <4>2
        <5>2. q[k - 1] = list[k]
          BY <1>1, <5>1
        <5> QED
          BY <5>1, <5>2
      <4> QED
        BY <1>i, <1>2, <3>5, <4>1, <4>2
    <3>6. ASSUME NEW m \in 1 .. n - 1
          PROVE  \E k \in 1 .. n : k # i /\ q[m] = list[k]
      <4>1. CASE m < i
        BY <1>i, <1>1, <1>2, <4>1
      <4>2. CASE ~ (m < i)
        <5>1. m + 1 \in 1 .. n /\ m + 1 # i /\ q[m] = list[m + 1]
          BY <1>i, <1>1, <1>2, <4>2
        <5> QED
          BY <5>1
      <4> QED
        BY <4>1, <4>2
    <3> QED
      BY <3>1, <3>2, <3>3, <3>4, <3>5, <3>6
  <2> QED
    BY <2>1, <2>2
<1>8. AddrsOf(q) = AddrsOf(list) \ Interval(list[i].start, list[i].size)
  BY <1>7
<1> QED
  BY <1>1, <1>6, <1>8 DEF q, n

(* Entering a block strictly between two others adds its addresses. *)
LEMMA InsertLemma ==
  ASSUME NEW list \in Seq(Block), WellFormed(list),
         NEW i \in 1 .. Len(list) + 1, NEW b, Between(list, i, b, i)
  PROVE  LET q == InsertAt(list, i, b)
         IN /\ q \in Seq(Block)
            /\ Len(q) = Len(list) + 1
            /\ WellFormed(q)
            /\ AddrsOf(q) = AddrsOf(list) \cup Interval(b.start, b.size)
<1> DEFINE q == InsertAt(list, i, b)
           n == Len(list)
<1>1. /\ q \in Seq(Block)
      /\ Len(q) = n + 1
      /\ \A k \in 1 .. n + 1 : q[k] = IF k < i THEN list[k] ELSE IF k = i THEN b ELSE list[k - 1]
  BY InsertAtLemma DEF Between
<1>2. /\ n \in Nat
      /\ \A k \in 1 .. n : /\ list[k].start \in Nat /\ list[k].size \in Nat /\ list[k].size > 0
                           /\ list[k].start + list[k].size <= Top
      /\ \A j, k \in 1 .. n : j < k => list[j].start + list[j].size < list[k].start
  BY ListFacts
<1>3. /\ b.start \in Nat /\ b.size \in Nat /\ b.size > 0
      /\ b.start + b.size <= Top
      /\ \A k \in 1 .. n : k < i => list[k].start + list[k].size < b.start
      /\ \A k \in 1 .. n : k >= i => b.start + b.size < list[k].start
  BY <1>2, FirstFitAssumption DEF Between, Block, Addr
<1>4. DOMAIN q = 1 .. n + 1
  BY <1>1, LenProperties
<1>i. i \in 1 .. n + 1
  OBVIOUS
<1> HIDE DEF q, n
(* Each block of q is b or an old one, and the old ones keep their order. *)
<1>5. ASSUME NEW k \in 1 .. n + 1
      PROVE  \/ k < i /\ k \in 1 .. n /\ q[k] = list[k]
             \/ k = i /\ q[k] = b
             \/ k > i /\ k - 1 \in 1 .. n /\ k - 1 >= i /\ q[k] = list[k - 1]
  <2>1. CASE k < i
    BY <1>i, <1>1, <1>2, <2>1
  <2>2. CASE k = i
    BY <1>i, <1>1, <1>2, <2>2
  <2>3. CASE k > i
    BY <1>i, <1>1, <1>2, <2>3
  <2> QED
    BY <1>i, <1>2, <2>1, <2>2, <2>3
<1>6. ASSUME NEW k \in 1 .. n + 1
      PROVE  q[k].size > 0 /\ q[k].start + q[k].size <= Top
  BY <1>2, <1>3, <1>5
<1>7. ASSUME NEW j \in 1 .. n + 1, NEW k \in 1 .. n + 1, j < k
      PROVE  q[j].start + q[j].size < q[k].start
  <2>1. CASE k < i
    <3>1. j \in 1 .. n /\ k \in 1 .. n /\ q[j] = list[j] /\ q[k] = list[k]
      BY <1>i, <1>2, <1>5, <1>7, <2>1
    <3> QED
      BY <1>2, <1>7, <3>1
  <2>2. CASE k = i
    <3>1. j < i /\ j \in 1 .. n /\ q[j] = list[j] /\ q[k] = b
      BY <1>i, <1>2, <1>5, <1>7, <2>2
    <3> QED
      BY <1>3, <3>1
  <2>3. CASE k > i
    <3>1. k - 1 \in 1 .. n /\ k - 1 >= i /\ q[k] = list[k - 1]
      BY <1>i, <1>2, <1>5, <2>3
    <3>2. CASE j < i
      <4>1. j \in 1 .. n /\ q[j] = list[j] /\ j < k - 1
        BY <1>i, <1>2, <1>5, <1>7, <3>1, <3>2
      <4> QED
        BY <1>2, <3>1, <4>1
    <3>3. CASE j = i
      <4>1. q[j] = b
        BY <1>i, <1>2, <1>5, <3>3
      <4> QED
        BY <1>3, <3>1, <4>1
    <3>4. CASE j > i
      <4>1. j - 1 \in 1 .. n /\ q[j] = list[j - 1] /\ j - 1 < k - 1
        BY <1>i, <1>2, <1>5, <1>7, <3>1, <3>4
      <4> QED
        BY <1>2, <3>1, <4>1
    <3> QED
      BY <1>i, <1>2, <3>2, <3>3, <3>4
  <2> QED
    BY <1>i, <1>2, <2>1, <2>2, <2>3
<1>8. WellFormed(q)
  BY <1>4, <1>6, <1>7 DEF WellFormed
<1>9. ASSUME NEW a
      PROVE  a \in AddrsOf(q) <=> a \in AddrsOf(list) \/ a \in Interval(b.start, b.size)
  <2>1. CASE a \notin Int
    BY <1>1, <2>1, <1>3, AddrsOfMember DEF Interval
  <2>2. CASE a \in Int
    <3>1. a \in AddrsOf(q) <=>
            \E k \in 1 .. n + 1 : q[k].start <= a /\ a < q[k].start + q[k].size
      BY <1>1, <2>2, AddrsOfMember
    <3>2. a \in AddrsOf(list) <=>
            \E k \in 1 .. n : list[k].start <= a /\ a < list[k].start + list[k].size
      BY <2>2, AddrsOfMember DEF n
    <3>3. a \in Interval(b.start, b.size) <=> b.start <= a /\ a < b.start + b.size
      BY <1>3, <2>2 DEF Interval
    <3>4. ASSUME NEW k \in 1 .. n
          PROVE  \E m \in 1 .. n + 1 : q[m] = list[k]
      <4>1. CASE k < i
        <5>1. k \in 1 .. n + 1 /\ q[k] = list[k]
          BY <1>i, <1>1, <1>2, <4>1
        <5> QED
          BY <5>1
      <4>2. CASE ~ (k < i)
        <5>1. k + 1 \in 1 .. n + 1 /\ ~ (k + 1 < i) /\ k + 1 # i /\ (k + 1) - 1 = k
          BY <1>i, <1>2, <4>2
        <5>2. q[k + 1] = list[k]
          BY <1>1, <5>1
        <5> QED
          BY <5>1, <5>2
      <4> QED
        BY <4>1, <4>2
    <3>5. \E m \in 1 .. n + 1 : q[m] = b
      BY <1>i, <1>1, <1>2
    <3>6. \A m \in 1 .. n + 1 : q[m] = b \/ \E k \in 1 .. n : q[m] = list[k]
      BY <1>5
    <3> QED
      BY <3>1, <3>2, <3>3, <3>4, <3>5, <3>6
  <2> QED
    BY <2>1, <2>2
<1>10. AddrsOf(q) = AddrsOf(list) \cup Interval(b.start, b.size)
  BY <1>9
<1> QED
  BY <1>1, <1>8, <1>10 DEF q, n

-----------------------------------------------------------------------------
(* Under the invariant no block wraps, so that End is a plain sum. *)
LEMMA PoolFacts ==
  ASSUME pool \in Seq(Block), Coalesced
  PROVE  /\ Len(pool) \in Nat /\ DOMAIN pool = 1 .. Len(pool)
         /\ \A i \in 1 .. Len(pool) :
              /\ pool[i] \in Block
              /\ pool[i].start \in Nat /\ pool[i].size \in Nat /\ pool[i].size > 0
              /\ End(pool[i]) = pool[i].start + pool[i].size
              /\ End(pool[i]) <= Top
         /\ \A i, j \in 1 .. Len(pool) : i < j => End(pool[i]) < pool[j].start
<1>1. Len(pool) \in Nat /\ DOMAIN pool = 1 .. Len(pool)
  BY LenProperties
<1>2. ASSUME NEW i \in 1 .. Len(pool)
      PROVE  /\ pool[i] \in Block
             /\ pool[i].start \in Nat /\ pool[i].size \in Nat /\ pool[i].size > 0
             /\ End(pool[i]) = pool[i].start + pool[i].size
             /\ End(pool[i]) <= Top
  <2>1. pool[i] \in Block
    BY ElementOfSeq
  <2>2. pool[i].size > 0 /\ pool[i].start + pool[i].size <= Top
    BY <1>1 DEF Coalesced, WellFormed
  <2> QED
    BY <2>1, <2>2, FirstFitAssumption DEF Block, Addr, End, Plus
<1> QED
  BY <1>1, <1>2 DEF Coalesced, WellFormed

-----------------------------------------------------------------------------
(* firstfit_add_block.  An acceptable range lies in the gap after block p:  *)
(* the blocks up to p end before it, those after p start behind it.         *)
LEMMA Gap ==
  ASSUME pool \in Seq(Block), Coalesced,
         NEW start \in Nat, NEW size \in Nat, start + size <= Top,
         Acceptable(start, size)
  PROVE  LET p == PrevIndex(start)
         IN /\ p \in 0 .. Len(pool)
            /\ size > 0
            /\ Plus(start, size) = start + size
            /\ \A i \in 1 .. Len(pool) : i <= p => End(pool[i]) <= start
            /\ \A i \in 1 .. Len(pool) : i > p => start + size <= pool[i].start
            /\ CurrIndex(start) = IF p = Len(pool) THEN 0 ELSE p + 1
<1> DEFINE S == {i \in DOMAIN pool : End(pool[i]) > start}
           c == CurrIndex(start)
           p == PrevIndex(start)
<1>0. size > 0 /\ Plus(start, size) = start + size
  BY FirstFitAssumption DEF Acceptable, Plus
<1>a. DOMAIN pool = 1 .. Len(pool) /\ Len(pool) \in Nat
  BY PoolFacts
<1>b. \A i \in 1 .. Len(pool) : End(pool[i]) \in Int
  BY PoolFacts
<1>1. S \subseteq Nat \ {0}
  BY PoolFacts
<1>2. /\ c = 0 <=> S = {}
      /\ S # {} => c \in S /\ \A j \in S : c <= j
  BY <1>1, FirstOfLemma DEF CurrIndex
<1>3. CASE S = {}
  <2>1. c = 0 /\ p = Len(pool)
    BY <1>2, <1>3 DEF PrevIndex
  <2>2. \A i \in 1 .. Len(pool) : End(pool[i]) <= start
    BY <1>3, <1>a, <1>b
  <2> QED
    BY <1>0, <2>1, <2>2, PoolFacts
<1>4. CASE S # {}
  <2>1. c \in 1 .. Len(pool) /\ End(pool[c]) > start /\ p = c - 1
    BY <1>2, <1>4, PoolFacts DEF PrevIndex
  <2>2. ASSUME NEW i \in 1 .. Len(pool), i < c
        PROVE  End(pool[i]) <= start
    <3>1. i \notin S
      <4>1. \A j \in S : c <= j
        BY <1>2, <1>4
      <4>2. c \in Int /\ i \in Int
        BY <2>1, <1>a
      <4> HIDE DEF S, c
      <4> QED
        BY <2>2, <4>1, <4>2
    <3> QED
      BY <3>1, <1>a, <1>b
  <2>3. ~ OverlapsBlock(pool[c], start, start + size)
    BY <1>0, <2>1 DEF Acceptable
  <2>4. start + size <= pool[c].start
    BY <2>1, <2>3, <1>0, PoolFacts DEF OverlapsBlock, IsBetween
  <2>5. ASSUME NEW i \in 1 .. Len(pool), i >= c
        PROVE  start + size <= pool[i].start
    <3>1. CASE i = c
      BY <3>1, <2>4
    <3>2. CASE c < i
      <4>1. End(pool[c]) < pool[i].start
        BY <3>2, <2>1, PoolFacts
      <4>2. /\ End(pool[c]) \in Int /\ pool[c].start \in Int /\ pool[i].start \in Int
            /\ pool[c].start <= End(pool[c])
        BY <2>1, PoolFacts
      <4> QED
        BY <2>4, <4>1, <4>2
    <3> QED
      BY <3>1, <3>2, <2>1, <2>5, <1>a
  <2> QED
    BY <1>0, <2>1, <2>2, <2>5, PoolFacts
<1> QED
  BY <1>3, <1>4

(* Which neighbours the range touches decides how strict the gap is. *)
LEMMA Neighbours ==
  ASSUME pool \in Seq(Block), Coalesced,
         NEW start \in Nat, NEW size \in Nat, start + size <= Top,
         Acceptable(start, size)
  PROVE  LET p == PrevIndex(start)
         IN /\ JoinsLeft(start) <=> p > 0 /\ pool[p].start + pool[p].size = start
            /\ JoinsRight(start, size) <=> p < Len(pool) /\ start + size = pool[p + 1].start
            /\ ~ JoinsLeft(start) =>
                 \A i \in 1 .. Len(pool) : i <= p => pool[i].start + pool[i].size < start
            /\ ~ JoinsRight(start, size) =>
                 \A i \in 1 .. Len(pool) : i > p => start + size < pool[i].start
<1> DEFINE n == Len(pool)
           p == PrevIndex(start)
           e(i) == pool[i].start + pool[i].size
<1>1. /\ n \in Nat
      /\ \A i \in 1 .. n : /\ pool[i].start \in Nat /\ pool[i].size \in Nat /\ pool[i].size > 0
                           /\ End(pool[i]) = e(i)
      /\ \A i, j \in 1 .. n : i < j => End(pool[i]) < pool[j].start
  BY PoolFacts
<1>2. /\ p \in 0 .. n
      /\ \A i \in 1 .. n : i <= p => End(pool[i]) <= start
      /\ \A i \in 1 .. n : i > p => start + size <= pool[i].start
      /\ CurrIndex(start) = IF p = n THEN 0 ELSE p + 1
      /\ Plus(start, size) = start + size
  BY Gap
<1>3. JoinsLeft(start) <=> p > 0 /\ e(p) = start
  BY <1>1, <1>2 DEF JoinsLeft
<1>4. JoinsRight(start, size) <=> p < n /\ start + size = pool[p + 1].start
  BY <1>1, <1>2 DEF JoinsRight
<1> HIDE DEF p, n
<1>5. ASSUME ~ JoinsLeft(start), NEW i \in 1 .. n, i <= p
      PROVE  e(i) < start
  <2>0. p \in Nat /\ i \in Nat /\ e(i) \in Nat /\ End(pool[i]) = e(i)
    BY <1>1, <1>2
  <2>1. CASE i = p
    <3>1. e(i) <= start
      BY <1>2, <1>5, <2>0
    <3>2. e(i) # start
      BY <1>3, <1>5, <2>0, <2>1
    <3> QED
      BY <2>0, <3>1, <3>2
  <2>2. CASE i < p
    <3>1. p \in 1 .. n /\ End(pool[p]) <= start
      BY <1>1, <1>2, <2>2
    <3>2. e(i) < pool[p].start
      BY <1>1, <2>2, <3>1
    <3>3. pool[p].start \in Nat /\ pool[p].size \in Nat /\ End(pool[p]) = e(p)
      BY <1>1, <3>1
    <3> QED
      BY <2>0, <3>1, <3>2, <3>3
  <2> QED
    BY <1>5, <2>0, <2>1, <2>2
<1>6. ASSUME ~ JoinsRight(start, size), NEW i \in 1 .. n, i > p
      PROVE  start + size < pool[i].start
  <2>0. p \in Nat /\ i \in Nat /\ n \in Nat /\ pool[i].start \in Nat
    BY <1>1, <1>2
  <2>1. CASE i = p + 1
    <3>1. start + size <= pool[i].start
      BY <1>2, <1>6
    <3>2. start + size # pool[i].start
      BY <1>4, <1>6, <2>0, <2>1
    <3> QED
      BY <2>0, <3>1, <3>2
  <2>2. CASE i > p + 1
    <3>1. p + 1 \in 1 .. n /\ start + size <= pool[p + 1].start
      BY <1>1, <1>2, <2>2
    <3>2. e(p + 1) < pool[i].start
      BY <1>1, <2>2, <3>1
    <3> QED
      BY <1>1, <3>1, <3>2
  <2> QED
    BY <1>6, <2>0, <2>1, <2>2
<1> QED
  BY <1>3, <1>4, <1>5, <1>6 DEF p, n

(* What the list looks like once a range has been accepted. *)
AddedRange(start, size) ==
  /\ pool' \in Seq(Block)
  /\ heap' \in Nat
  /\ heap' + Len(pool') = heap + Len(pool)
  /\ WellFormed(pool')
  /\ AddrsOf(pool') = AddrsOf(pool) \cup Interval(start, size)

(* firstfit_add_block, when it answers TRUE, adds exactly the range, which
   was not free, and keeps the list coalesced and the headers balanced. *)
LEMMA AddPreserves ==
  ASSUME pool \in Seq(Block), heap \in Nat, Coalesced,
         NEW start \in Nat, NEW size \in Nat, start + size <= Top,
         AddAccepted(start, size)
  PROVE  AddedRange(start, size) /\ AddrsOf(pool) \cap Interval(start, size) = {}
<1> DEFINE n == Len(pool)
           p == PrevIndex(start)
<1>a. Acceptable(start, size) /\ WellFormed(pool)
  BY DEF AddAccepted, Coalesced
<1>1. /\ n \in Nat
      /\ \A i \in 1 .. n : /\ pool[i] \in Block
                           /\ pool[i].start \in Nat /\ pool[i].size \in Nat /\ pool[i].size > 0
                           /\ pool[i].start + pool[i].size <= Top
      /\ \A i, j \in 1 .. n : i < j => pool[i].start + pool[i].size < pool[j].start
  BY <1>a, ListFacts
<1>2. /\ p \in 0 .. n /\ size > 0
      /\ \A i \in 1 .. n : i <= p => pool[i].start + pool[i].size <= start
      /\ \A i \in 1 .. n : i > p => start + size <= pool[i].start
      /\ CurrIndex(start) = IF p = n THEN 0 ELSE p + 1
  <2>1. \A i \in 1 .. n : End(pool[i]) = pool[i].start + pool[i].size
    BY PoolFacts
  <2> QED
    BY <1>a, <2>1, Gap
<1>3. /\ JoinsLeft(start) <=> p > 0 /\ pool[p].start + pool[p].size = start
      /\ JoinsRight(start, size) <=> p < n /\ start + size = pool[p + 1].start
      /\ ~ JoinsLeft(start) =>
           \A i \in 1 .. n : i <= p => pool[i].start + pool[i].size < start
      /\ ~ JoinsRight(start, size) =>
           \A i \in 1 .. n : i > p => start + size < pool[i].start
  BY <1>a, Neighbours
<1>l. n \in Nat
  BY <1>1
<1>n. ASSUME NEW i \in 1 .. n
      PROVE  pool[i].start \in Nat /\ pool[i].size \in Nat /\ pool[i].size > 0
             /\ pool[i].start + pool[i].size <= Top
  BY <1>1
<1>4. AddrsOf(pool) \cap Interval(start, size) = {}
  <2> SUFFICES ASSUME NEW a \in Int, NEW i \in 1 .. n,
                      pool[i].start <= a, a < pool[i].start + pool[i].size,
                      start <= a, a < start + size
               PROVE  FALSE
    BY AddrsOfMember DEF Interval
  <2>1. pool[i].start + pool[i].size <= start \/ start + size <= pool[i].start
    BY <1>1, <1>2
  <2> QED
    BY <2>1, <1>n
<1> HIDE DEF p
<1>5. CASE NewBlock(start, size)
  <2> DEFINE b == [start |-> start, size |-> size]
  <2>1. p + 1 \in 1 .. n + 1
    BY <1>1, <1>2
  <2>2. Between(pool, p + 1, b, p + 1)
    BY <1>1, <1>2, <1>3, <1>5, FirstFitAssumption DEF Between, NewBlock, Block, Addr
  <2>3. pool' = InsertAt(pool, p + 1, b) /\ heap' \in Nat /\ heap' = heap - 1
    BY <1>5 DEF NewBlock, p
  <2> HIDE DEF b
  <2>4. /\ pool' \in Seq(Block) /\ WellFormed(pool') /\ Len(pool') = n + 1
        /\ AddrsOf(pool') = AddrsOf(pool) \cup Interval(b.start, b.size)
    BY <1>a, <2>1, <2>2, <2>3, InsertLemma
  <2>5. heap' + Len(pool') = heap + n
    <3> HIDE DEF n
    <3> QED
      BY <1>l, <2>3, <2>4
  <2> QED
    BY <1>4, <2>3, <2>4, <2>5 DEF AddedRange, b
<1>6. CASE JoinLeft(start, size)
  <2> DEFINE s == pool[p].start
             m == pool[p].size
             b == [start |-> s, size |-> m + size]
  <2>1. p \in 1 .. n /\ s + m = start
    BY <1>1, <1>2, <1>3, <1>6 DEF JoinLeft
  <2>n. s \in Nat /\ m \in Nat /\ m > 0
    BY <1>n, <2>1
  <2>3. pool' = [pool EXCEPT ![p] = b] /\ heap' \in Nat /\ heap' = heap
    <3>1. Plus(m, size) = m + size
      <4> HIDE DEF s, m
      <4> QED
        BY <2>n, <2>1, FirstFitAssumption DEF Plus
    <3> QED
      BY <1>6, <3>1 DEF JoinLeft, WithSize, p
  <2>o. ASSUME NEW k \in 1 .. n, k < p
        PROVE  pool[k].start + pool[k].size < s
    BY <1>1, <2>1, <2>o
  <2>r. ASSUME NEW k \in 1 .. n, k >= p + 1
        PROVE  start + size < pool[k].start
    BY <1>2, <1>3, <1>6, <2>1, <2>r DEF JoinLeft
  <2> HIDE DEF s, m
  <2>b. b \in Block /\ b.size > 0 /\ b.start = s /\ b.size = m + size
        /\ b.start + b.size = start + size
    BY <2>n, <2>1, <1>2, FirstFitAssumption DEF Block, Addr
  <2> HIDE DEF b
  <2>2. Between(pool, p, b, p + 1)
    BY <2>b, <2>o, <2>r DEF Between
  <2>5. /\ pool' \in Seq(Block) /\ WellFormed(pool') /\ Len(pool') = n
        /\ AddrsOf(pool') = (AddrsOf(pool) \ Interval(s, m)) \cup Interval(b.start, b.size)
    BY <1>a, <2>1, <2>2, <2>3, ReplaceLemma DEF s, m
  <2>6. Interval(s, m + size) = Interval(s, m) \cup Interval(start, size)
    BY <2>1, <2>n, IntervalFacts
  <2>7. Interval(s, m) \subseteq AddrsOf(pool)
    BY <1>a, <2>1, BlockOf DEF s, m
  <2>8. AddrsOf(pool') = AddrsOf(pool) \cup Interval(start, size)
    BY <2>b, <2>5, <2>6, <2>7
  <2> QED
    BY <1>4, <2>3, <2>5, <2>8 DEF AddedRange
<1>7. CASE JoinRight(start, size)
  <2> DEFINE c == p + 1
             s == pool[c].start
             m == pool[c].size
             b == [start |-> start, size |-> m + size]
  <2>1. c \in 1 .. n /\ c > p /\ start + size = s /\ CurrIndex(start) = c
    BY <1>1, <1>2, <1>3, <1>7 DEF JoinRight
  <2>n. s \in Nat /\ m \in Nat /\ m > 0 /\ s + m <= Top
    BY <1>n, <2>1
  <2>3. pool' = [pool EXCEPT ![c] = b] /\ heap' \in Nat /\ heap' = heap
    <3>1. Plus(m, size) = m + size
      <4> HIDE DEF s, m
      <4> QED
        BY <2>n, <2>1, FirstFitAssumption DEF Plus
    <3> QED
      BY <1>7, <2>1, <3>1 DEF JoinRight
  <2>o. ASSUME NEW k \in 1 .. n, k > c
        PROVE  s + m < pool[k].start
    BY <1>1, <2>1, <2>o
  <2>r. ASSUME NEW k \in 1 .. n, k < c
        PROVE  pool[k].start + pool[k].size < start
    BY <1>2, <1>3, <1>7, <2>1, <2>r DEF JoinRight
  <2> HIDE DEF s, m
  <2>b. b \in Block /\ b.size > 0 /\ b.start = start /\ b.size = size + m
        /\ b.start + b.size = s + m
    BY <2>n, <2>1, <1>2, FirstFitAssumption DEF Block, Addr
  <2> HIDE DEF b
  <2>2. Between(pool, c, b, c + 1)
    BY <2>b, <2>o, <2>r, <2>n, <1>2 DEF Between
  <2> HIDE DEF c
  <2>5. /\ pool' \in Seq(Block) /\ WellFormed(pool') /\ Len(pool') = n
        /\ AddrsOf(pool') = (AddrsOf(pool) \ Interval(s, m)) \cup Interval(b.start, b.size)
    <3>1. /\ pool' \in Seq(Block) /\ WellFormed(pool') /\ Len(pool') = n
          /\ AddrsOf(pool') = (AddrsOf(pool) \ Interval(pool[c].start, pool[c].size))
                                 \cup Interval(b.start, b.size)
      <4>1. c \in 1 .. Len(pool)
        BY <2>1
      <4>2. pool' = [pool EXCEPT ![c] = b]
        BY <2>3
      <4> QED
        BY <1>a, <2>2, <4>1, <4>2, ReplaceLemma
    <3> QED
      BY <3>1 DEF s, m
  <2>6. Interval(start, size + m) = Interval(start, size) \cup Interval(s, m)
    BY <2>1, <2>n, IntervalFacts
  <2>7. Interval(s, m) \subseteq AddrsOf(pool)
    BY <1>a, <2>1, BlockOf DEF s, m
  <2>8. AddrsOf(pool') = AddrsOf(pool) \cup Interval(start, size)
    BY <2>b, <2>5, <2>6, <2>7
  <2> QED
    BY <1>4, <2>3, <2>5, <2>8 DEF AddedRange
<1>8. CASE JoinBoth(start, size)
  <2> DEFINE c == p + 1
             rest == RemoveAt(pool, c)
             s == pool[p].start
             m == pool[p].size
             t == pool[c].start
             l == pool[c].size
             b == [start |-> s, size |-> m + (l + size)]
  <2>1. /\ p \in 1 .. n /\ c \in 1 .. n /\ p < c
        /\ start + size = t /\ CurrIndex(start) = c /\ s + m = start
    BY <1>1, <1>2, <1>3, <1>8 DEF JoinBoth
  <2>n. s \in Nat /\ m \in Nat /\ t \in Nat /\ l \in Nat /\ l > 0 /\ t + l <= Top
    BY <1>n, <2>1
  <2>2. /\ rest \in Seq(Block) /\ Len(rest) = n - 1
        /\ \A k \in 1 .. n - 1 : rest[k] = IF k < c THEN pool[k] ELSE pool[k + 1]
        /\ WellFormed(rest)
        /\ AddrsOf(rest) = AddrsOf(pool) \ Interval(t, l)
    BY <1>a, <2>1, RemoveLemma
  <2>4. p \in 1 .. Len(rest) /\ rest[p] = pool[p]
    <3>1. p \in 1 .. n - 1
      BY <1>1, <2>1
    <3> HIDE DEF rest, c
    <3> QED
      BY <2>1, <2>2, <3>1
  <2>5. pool' = [rest EXCEPT ![p] = b] /\ heap' \in Nat /\ heap' = heap + 1
    <3>1. Plus(m, Plus(l, size)) = m + (l + size)
      <4> HIDE DEF s, m, t, l
      <4>1. Plus(l, size) = l + size /\ m + (l + size) < AddrMod
        BY <2>n, <2>1, FirstFitAssumption DEF Plus
      <4> QED
        BY <4>1 DEF Plus
    <3>2. pool' = [rest EXCEPT ![p] = WithSize(rest[p], Plus(rest[p].size, Plus(l, size)))]
      BY <1>8, <2>1 DEF JoinBoth, p
    <3>3. WithSize(rest[p], Plus(rest[p].size, Plus(l, size))) = b
      BY <2>4, <3>1 DEF WithSize
    <3>4. heap' \in Nat /\ heap' = heap + 1
      BY <1>8 DEF JoinBoth
    <3> HIDE DEF b, rest
    <3> QED
      BY <3>2, <3>3, <3>4
  <2>o. ASSUME NEW k \in 1 .. n - 1, k < p
        PROVE  rest[k].start + rest[k].size < s
    <3>1. k \in 1 .. n /\ k < c
      BY <1>1, <2>1, <2>o
    <3>2. rest[k] = pool[k]
      <4> HIDE DEF rest, c
      <4> QED
        BY <2>2, <2>o, <3>1
    <3> QED
      BY <1>1, <2>1, <2>o, <3>1, <3>2
  <2>r. ASSUME NEW k \in 1 .. n - 1, k >= p + 1
        PROVE  t + l < rest[k].start
    <3>1. k + 1 \in 1 .. n /\ c < k + 1 /\ ~ (k < c)
      BY <1>1, <1>2, <2>1, <2>r
    <3>2. rest[k] = pool[k + 1]
      BY <2>2, <3>1
    <3> QED
      BY <1>1, <2>1, <3>1, <3>2
  <2> HIDE DEF s, m, t, l, rest
  <2>b. b \in Block /\ b.size > 0 /\ b.start = s /\ b.size = m + (size + l)
        /\ b.start + b.size = t + l
    BY <2>n, <2>1, <1>2, FirstFitAssumption DEF Block, Addr
  <2> HIDE DEF b
  <2>6. Between(rest, p, b, p + 1)
    BY <2>b, <2>o, <2>r, <2>n, <2>2 DEF Between
  <2>7. /\ pool' \in Seq(Block) /\ WellFormed(pool') /\ Len(pool') = n - 1
        /\ AddrsOf(pool') = (AddrsOf(rest) \ Interval(s, m)) \cup Interval(b.start, b.size)
    <3>1. rest[p].start = s /\ rest[p].size = m
      BY <2>4 DEF s, m
    <3> QED
      BY <2>2, <2>4, <2>5, <2>6, <3>1, ReplaceLemma
  <2>8. /\ Interval(s, m + (size + l)) = Interval(s, m) \cup Interval(start, size + l)
        /\ Interval(start, size + l) = Interval(start, size) \cup Interval(t, l)
    <3> DEFINE behind == size + l
    <3>1. behind \in Nat
      BY <2>n
    <3> HIDE DEF behind
    <3>2. Interval(s, m + behind) = Interval(s, m) \cup Interval(s + m, behind)
      BY <2>n, <3>1 DEF Interval
    <3>3. Interval(start, size + l) = Interval(start, size) \cup Interval(start + size, l)
      BY <2>n, IntervalFacts
    <3> QED
      BY <2>1, <3>2, <3>3 DEF behind
  <2>9. Interval(t, l) \subseteq AddrsOf(pool) /\ Interval(s, m) \subseteq AddrsOf(pool)
    BY <1>a, <2>1, BlockOf DEF s, m, t, l
  <2>10. AddrsOf(pool') = AddrsOf(pool) \cup Interval(start, size)
    BY <2>b, <2>2, <2>7, <2>8, <2>9
  <2>11. heap' + Len(pool') = heap + n
    <3> HIDE DEF n
    <3>1. heap' = heap + 1 /\ Len(pool') = n - 1
      BY <2>5, <2>7
    <3> QED
      BY <1>l, <3>1
  <2> QED
    BY <1>4, <2>5, <2>7, <2>10, <2>11 DEF AddedRange
<1> QED
  BY <1>4, <1>5, <1>6, <1>7, <1>8 DEF AddAccepted

-----------------------------------------------------------------------------
(* alloc_common.  Aligning up yields an aligned address, not below the      *)
(* argument and less than the alignment above it.                           *)
LEMMA AlignUpLemma ==
  ASSUME NEW a \in Nat, NEW n \in Nat \ {0}, a + n < AddrMod
  PROVE  /\ AlignUp(a, n) \in Nat
         /\ a <= AlignUp(a, n) /\ AlignUp(a, n) < a + n
         /\ AlignUp(a, n) = a => IsAligned(a, n)
<1> DEFINE x == a + n - 1
<1>1. x \in Nat /\ Plus(a, n - 1) = x
  BY FirstFitAssumption DEF Plus
<1> HIDE DEF x
<1>2. x % n \in 0 .. n - 1
  BY <1>1
<1>3. AlignUp(a, n) = x - (x % n)
  BY <1>1 DEF AlignUp
<1>4. a <= AlignUp(a, n) /\ AlignUp(a, n) < a + n
  BY <1>1, <1>2, <1>3 DEF x
<1>5. ASSUME AlignUp(a, n) = a PROVE a % n = 0
  <2>1. x = a + (n - 1) /\ x - (x % n) = a
    BY <1>1, <1>3, <1>5 DEF x
  <2>2. x = n * (x \div n) + (x % n) /\ x \div n \in Nat
    BY <1>1
  <2>3. a = n * (x \div n)
    BY <1>1, <1>2, <2>1, <2>2
  <2> DEFINE v == x \div n
             w == a \div n
             k == v - w
  <2>4. a = n * (a \div n) + (a % n) /\ a \div n \in Nat /\ a % n \in 0 .. n - 1
    OBVIOUS
  <2>5. k \in Int /\ a % n = n * k
    <3> HIDE DEF v, w
    <3>1. v \in Int /\ w \in Int /\ a % n \in Int /\ a = n * w + (a % n) /\ a = n * v
      BY <2>2, <2>3, <2>4 DEF v, w
    <3>2. n * (v - w) = n * v - n * w
      BY <3>1
    <3>3. a % n = a - n * w
      BY <3>1
    <3> QED
      BY <3>1, <3>2, <3>3
  <2> HIDE DEF k
  <2>6. k >= 1 => n * k >= n
    BY <2>5
  <2>7. k <= -1 => n * k <= -n
    BY <2>5
  <2>8. k = 0 => n * k = 0
    BY <2>5
  <2> QED
    BY <2>4, <2>5, <2>6, <2>7, <2>8
<1> QED
  BY <1>1, <1>2, <1>3, <1>4, <1>5 DEF IsAligned

(* A valid request: no sum of its own wraps. *)
NoneWraps(arg, size) == \A k \in 1 .. Len(pool) : pool[k].start + arg + size < AddrMod
Valid(req) ==
  /\ req.size \in Nat /\ req.size > 0 /\ req.arg \in Nat
  /\ req.op \in {"alloc", "alloc_at", "alloc_aligned"}
  /\ req.op = "alloc_at" => req.arg + req.size < AddrMod
  /\ req.op = "alloc_aligned" => req.arg > 0 /\ NoneWraps(req.arg, req.size)

LEMMA TopBound ==
  ASSUME pool \in Seq(Block), Coalesced,
         NEW arg \in Nat, NEW size \in Nat, Top + arg + size < AddrMod
  PROVE  NoneWraps(arg, size)
<1> SUFFICES ASSUME NEW k \in 1 .. Len(pool) PROVE pool[k].start + arg + size < AddrMod
  BY DEF NoneWraps
<1> DEFINE s == pool[k].start
           m == pool[k].size
<1>1. s \in Nat /\ m \in Nat /\ s + m <= Top
  BY PoolFacts
<1> HIDE DEF s, m
<1>2. s + arg + size < AddrMod
  BY <1>1, FirstFitAssumption
<1> QED
  BY <1>2 DEF s

(* What the list looks like once a request has been granted. *)
TakenRange(start, size) ==
  /\ start \in Addr
  /\ Interval(start, size) \subseteq AddrsOf(pool)
  /\ pool' \in Seq(Block)
  /\ heap' \in Nat
  /\ heap' + Len(pool') = heap + Len(pool)
  /\ WellFormed(pool')
  /\ AddrsOf(pool') = AddrsOf(pool) \ Interval(start, size)

(* The block that the search stops at fits; if it stops at none, none does. *)
LEMMA FittingLemma ==
  ASSUME pool \in Seq(Block), NEW req
  PROVE  /\ Fitting(req) # 0 => /\ Fitting(req) \in 1 .. Len(pool)
                                /\ pool[Fitting(req)].size >= req.size
                                /\ MeetsConstraint(req, pool[Fitting(req)])
         /\ Fitting(req) = 0 => \A i \in 1 .. Len(pool) :
              ~ (pool[i].size >= req.size /\ MeetsConstraint(req, pool[i]))
         /\ BlockToSplit(req) # 0 => /\ BlockToSplit(req) \in 1 .. Len(pool)
                                     /\ Splittable(req, pool[BlockToSplit(req)])
<1>1. DOMAIN pool = 1 .. Len(pool) /\ Len(pool) \in Nat
  BY LenProperties
<1> DEFINE F == {i \in DOMAIN pool : pool[i].size >= req.size /\ MeetsConstraint(req, pool[i])}
           B == {i \in DOMAIN pool :
                   /\ Splittable(req, pool[i])
                   /\ \A j \in DOMAIN pool : Splittable(req, pool[j]) =>
                        RightOffset(req, pool[j]) <= RightOffset(req, pool[i])}
<1>2. F \subseteq Nat \ {0} /\ B \subseteq Nat \ {0}
  BY <1>1
<1>3. Fitting(req) = FirstOf(F) /\ BlockToSplit(req) = FirstOf(B)
  BY DEF Fitting, BlockToSplit
<1>4. /\ FirstOf(F) = 0 <=> F = {}
      /\ F # {} => FirstOf(F) \in F
  BY <1>2, FirstOfLemma
<1>5. /\ FirstOf(B) = 0 <=> B = {}
      /\ B # {} => FirstOf(B) \in B
  BY <1>2, FirstOfLemma
<1> QED
  BY <1>1, <1>3, <1>4, <1>5

(* Shrinking a larger block from its start takes exactly the range granted. *)
LEMMA TakeFrontTakes ==
  ASSUME pool \in Seq(Block), heap \in Nat, Coalesced, NEW req, Valid(req), TakeFront(req)
  PROVE  TakenRange(GrantedAddr(req), req.size)
<1> DEFINE i == Fitting(req)
           size == req.size
           s == pool[i].start
           m == pool[i].size
           b == [start |-> s + size, size |-> m - size]
<1>a. WellFormed(pool)
  BY DEF Coalesced
<1>1. i \in 1 .. Len(pool) /\ m > size
  BY FittingLemma DEF TakeFront
<1>2. /\ Len(pool) \in Nat
      /\ s \in Nat /\ m \in Nat /\ s + m <= Top
      /\ \A k \in 1 .. Len(pool) : k < i => pool[k].start + pool[k].size < s
      /\ \A k \in 1 .. Len(pool) : k > i => s + m < pool[k].start
      /\ \A k \in 1 .. Len(pool) : pool[k].start \in Nat /\ pool[k].size \in Nat
  BY <1>1, <1>a, ListFacts
<1>3. size \in Nat /\ size > 0
  BY DEF Valid
<1>4. pool' = [pool EXCEPT ![i] = b] /\ heap' \in Nat /\ heap' = heap /\ GrantedAddr(req) = s
  <2>1. Plus(s, size) = s + size
    <3> HIDE DEF s, m, size
    <3> QED
      BY <1>1, <1>2, <1>3, FirstFitAssumption DEF Plus
  <2> QED
    BY <2>1 DEF TakeFront, GrantedAddr
<1>5. Interval(s, m) \subseteq AddrsOf(pool)
  BY <1>a, <1>1, BlockOf
<1> HIDE DEF i, s, m, size
<1>6. b \in Block /\ b.start = s + size /\ b.size = m - size /\ b.size > 0
      /\ b.start + b.size = s + m
  BY <1>1, <1>2, <1>3, FirstFitAssumption DEF Block, Addr
<1> HIDE DEF b
<1>7. Between(pool, i, b, i + 1)
  BY <1>1, <1>2, <1>3, <1>6 DEF Between
<1>8. /\ pool' \in Seq(Block) /\ WellFormed(pool') /\ Len(pool') = Len(pool)
      /\ AddrsOf(pool') = (AddrsOf(pool) \ Interval(s, m)) \cup Interval(b.start, b.size)
  BY <1>a, <1>1, <1>4, <1>7, ReplaceLemma DEF s, m
<1>9. /\ Interval(s, size) \subseteq Interval(s, m)
      /\ Interval(b.start, b.size) = Interval(s, m) \ Interval(s, size)
  BY <1>1, <1>2, <1>3, <1>6 DEF Interval
<1>10. s \in Addr
  BY <1>1, <1>2, <1>3, FirstFitAssumption DEF Addr
<1> QED
  BY <1>4, <1>5, <1>8, <1>9, <1>10 DEF TakenRange, size

(* Unlinking a block of the very size asked for takes exactly that block. *)
LEMMA TakeWholeTakes ==
  ASSUME pool \in Seq(Block), heap \in Nat, Coalesced, NEW req, Valid(req), TakeWhole(req)
  PROVE  TakenRange(GrantedAddr(req), req.size)
<1> DEFINE i == Fitting(req)
<1>a. WellFormed(pool)
  BY DEF Coalesced
<1>1. i \in 1 .. Len(pool) /\ pool[i].size = req.size
  BY FittingLemma DEF TakeWhole
<1>2. pool' = RemoveAt(pool, i) /\ heap' \in Nat /\ heap' = heap + 1 /\ GrantedAddr(req) = pool[i].start
  BY DEF TakeWhole, GrantedAddr
<1>3. /\ pool' \in Seq(Block) /\ WellFormed(pool') /\ Len(pool') = Len(pool) - 1
      /\ AddrsOf(pool') = AddrsOf(pool) \ Interval(pool[i].start, pool[i].size)
  BY <1>a, <1>1, <1>2, RemoveLemma
<1>4. Interval(pool[i].start, pool[i].size) \subseteq AddrsOf(pool)
  BY <1>a, <1>1, BlockOf
<1>5. pool[i].start \in Addr
  BY <1>a, <1>1, ListFacts DEF Block
<1>6. Len(pool) \in Nat
  BY LenProperties
<1> QED
  BY <1>1, <1>2, <1>3, <1>4, <1>5, <1>6 DEF TakenRange

(* The start wanted in a block that is to be split lies strictly inside it: *)
(* at the block's own start the request would have fitted.                  *)
LEMMA SplitPoint ==
  ASSUME pool \in Seq(Block), Coalesced, NEW req, Valid(req),
         Fitting(req) = 0, BlockToSplit(req) # 0
  PROVE  LET b == pool[BlockToSplit(req)]
             at == WantedStart(req, b)
         IN /\ BlockToSplit(req) \in 1 .. Len(pool)
            /\ at \in Nat
            /\ b.start < at
            /\ at + req.size < b.start + b.size
            /\ Plus(at, req.size) = at + req.size
            /\ RightOffset(req, b) = (b.start + b.size) - (at + req.size)
<1> DEFINE i == BlockToSplit(req)
           b == pool[i]
           s == b.start
           m == b.size
           at == WantedStart(req, b)
           size == req.size
<1>1. i \in 1 .. Len(pool) /\ Splittable(req, b)
  BY FittingLemma
<1>2. s \in Nat /\ m \in Nat /\ s + m <= Top /\ End(b) = s + m
  BY <1>1, PoolFacts
<1>3. size \in Nat /\ size > 0 /\ req.op \in {"alloc_at", "alloc_aligned"}
  BY <1>1 DEF Valid, Splittable
<1>4. m >= size => ~ MeetsConstraint(req, b)
  BY <1>1, FittingLemma
<1>5. /\ s <= at
      /\ Plus(at, size) <= End(b)
      /\ Minus(End(b), Plus(at, size)) > 0
  BY <1>1, <1>2 DEF Splittable, RightOffset
<1>6. at \in Nat /\ at + size < AddrMod
  <2>1. CASE req.op = "alloc_at"
    BY <2>1 DEF Valid, WantedStart
  <2>2. CASE req.op = "alloc_aligned"
    <3>1. at = AlignUp(s, req.arg) /\ req.arg \in Nat \ {0} /\ s + req.arg + size < AddrMod
      BY <1>1, <2>2 DEF Valid, WantedStart, NoneWraps
    <3>2. s + req.arg < AddrMod
      BY <1>2, <1>3, <3>1, FirstFitAssumption
    <3>3. at \in Nat /\ at < s + req.arg
      BY <1>2, <3>1, <3>2, AlignUpLemma
    <3> HIDE DEF at, s, m, size
    <3> QED
      BY <1>2, <1>3, <3>1, <3>3, FirstFitAssumption
  <2> QED
    BY <1>3, <2>1, <2>2
<1>7. Plus(at, size) = at + size
  BY <1>6 DEF Plus
<1> HIDE DEF at, size
<1>8. at + size < s + m /\ RightOffset(req, b) = (s + m) - (at + size)
  <2>1. at + size <= s + m /\ Minus(s + m, at + size) > 0
    BY <1>2, <1>5, <1>7
  <2>2. RightOffset(req, b) = Minus(s + m, at + size)
    BY <1>2, <1>7 DEF RightOffset, at, size
  <2> HIDE DEF s, m, b
  <2> QED
    BY <1>2, <1>3, <1>6, <2>1, <2>2 DEF Minus
<1>9. at # s
  <2> SUFFICES ASSUME at = s PROVE FALSE
    OBVIOUS
  <2>1. m >= size
    <3> HIDE DEF s, m
    <3> QED
      BY <1>2, <1>3, <1>6, <1>8
  <2>2. CASE req.op = "alloc_at"
    <3>1. at = req.arg
      BY <2>2 DEF at, WantedStart
    <3> QED
      BY <1>4, <2>1, <2>2, <3>1 DEF MeetsConstraint
  <2>3. CASE req.op = "alloc_aligned"
    <3>1. at = AlignUp(s, req.arg) /\ req.arg \in Nat \ {0} /\ s + req.arg + size < AddrMod
      BY <1>1, <2>3 DEF Valid, WantedStart, NoneWraps, at, size
    <3>2. s + req.arg < AddrMod
      BY <1>2, <1>3, <3>1, FirstFitAssumption
    <3>3. IsAligned(s, req.arg)
      BY <1>2, <3>1, <3>2, AlignUpLemma
    <3> QED
      BY <1>4, <2>1, <2>3, <3>3 DEF MeetsConstraint
  <2> QED
    BY <1>3, <2>2, <2>3
<1>10. s < at
  <2> HIDE DEF s
  <2> QED
    BY <1>2, <1>5, <1>6, <1>9
<1> QED
  BY <1>1, <1>6, <1>7, <1>8, <1>10 DEF at, size

(* Splitting a block around the range takes exactly the range. *)
LEMMA SplitTakes ==
  ASSUME pool \in Seq(Block), heap \in Nat, Coalesced, NEW req, Valid(req), Split(req)
  PROVE  TakenRange(GrantedAddr(req), req.size)
<1> DEFINE i == BlockToSplit(req)
           n == Len(pool)
           s == pool[i].start
           m == pool[i].size
           at == WantedStart(req, pool[i])
           size == req.size
           left == [start |-> s, size |-> at - s]
           right == [start |-> at + size, size |-> (s + m) - (at + size)]
           q == [pool EXCEPT ![i] = left]
<1>a. WellFormed(pool)
  BY DEF Coalesced
<1>1. /\ i \in 1 .. n
      /\ at \in Nat
      /\ s < at
      /\ at + size < s + m
      /\ Plus(at, size) = at + size
      /\ RightOffset(req, pool[i]) = (s + m) - (at + size)
  BY SplitPoint DEF Split
<1>2. /\ n \in Nat
      /\ s \in Nat /\ m \in Nat /\ s + m <= Top
      /\ \A k \in 1 .. n : k < i => pool[k].start + pool[k].size < s
      /\ \A k \in 1 .. n : k > i => s + m < pool[k].start
      /\ \A k \in 1 .. n : pool[k].start \in Nat /\ pool[k].size \in Nat
  BY <1>1, <1>a, ListFacts
<1>3. size \in Nat /\ size > 0
  BY DEF Valid
<1>4. heap' \in Nat /\ heap' = heap - 1 /\ GrantedAddr(req) = at
  BY FirstFitAssumption DEF Split, GrantedAddr
<1>5. pool' = InsertAt(q, i + 1, right)
  <2>1. Minus(at, s) = at - s
    BY <1>1, <1>2 DEF Minus
  <2>2. WithSize(pool[i], Minus(at, pool[i].start)) = left
    BY <2>1 DEF WithSize
  <2>3. [start |-> Plus(at, size), size |-> RightOffset(req, pool[i])] = right
    BY <1>1
  <2>4. pool' = InsertAt([pool EXCEPT ![i] = WithSize(pool[i], Minus(at, pool[i].start))], i + 1,
                         [start |-> Plus(at, size), size |-> RightOffset(req, pool[i])])
    BY DEF Split
  <2> HIDE DEF left, right
  <2> QED
    BY <2>2, <2>3, <2>4
<1>6. Interval(s, m) \subseteq AddrsOf(pool)
  BY <1>a, <1>1, BlockOf
<1>7. /\ q \in Seq(Block) /\ Len(q) = n /\ WellFormed(q)
      /\ \A k \in 1 .. n : q[k] = IF k = i THEN left ELSE pool[k]
      /\ AddrsOf(q) = (AddrsOf(pool) \ Interval(s, m)) \cup Interval(s, at - s)
  <2>1. Between(pool, i, left, i + 1)
    <3> HIDE DEF s, m, at, size, i
    <3>0. i \in Int /\ s \in Addr /\ at - s \in Addr /\ at - s > 0 /\ s + (at - s) = at
          /\ at < s + m /\ at <= Top
      BY <1>1, <1>2, <1>3, FirstFitAssumption DEF Addr
    <3>1. left \in Block /\ left.size > 0 /\ left.start = s /\ left.start + left.size = at
      BY <3>0 DEF Block
    <3> HIDE DEF left
    <3>2. ASSUME NEW k \in 1 .. n, k < i
          PROVE  pool[k].start + pool[k].size < left.start
      BY <1>2, <3>1, <3>2
    <3>3. ASSUME NEW k \in 1 .. n, k >= i + 1
          PROVE  left.start + left.size < pool[k].start
      <4>1. s + m < pool[k].start /\ pool[k].start \in Nat
        BY <1>2, <3>0, <3>3
      <4> QED
        BY <1>1, <1>2, <3>0, <3>1, <4>1
    <3> QED
      BY <3>0, <3>1, <3>2, <3>3 DEF Between
  <2> HIDE DEF left
  <2>2. /\ q \in Seq(Block) /\ Len(q) = n /\ WellFormed(q)
        /\ AddrsOf(q) = (AddrsOf(pool) \ Interval(s, m)) \cup Interval(left.start, left.size)
    BY <1>a, <1>1, <2>1, ReplaceLemma
  <2>3. \A k \in 1 .. n : q[k] = IF k = i THEN left ELSE pool[k]
    BY <1>1, <2>1, ExceptSeq DEF Between
  <2>4. left.start = s /\ left.size = at - s
    BY DEF left
  <2> QED
    BY <2>2, <2>3, <2>4
<1> HIDE DEF s, m, at, size, i, q, n
<1>8. right \in Block /\ right.size > 0 /\ right.start = at + size
      /\ right.start + right.size = s + m
  BY <1>1, <1>2, <1>3, FirstFitAssumption DEF Block, Addr
<1>9. left.start = s /\ left.size = at - s
  OBVIOUS
<1>r. right.size = (s + m) - (at + size)
  OBVIOUS
<1> HIDE DEF left, right
<1>10. Between(q, i + 1, right, i + 1)
  <2>1. ASSUME NEW k \in 1 .. n, k < i + 1
        PROVE  q[k].start + q[k].size < right.start
    <3>1. CASE k = i
      BY <1>1, <1>2, <1>3, <1>7, <1>8, <1>9, <3>1
    <3>2. CASE k < i
      <4>1. q[k] = pool[k] /\ pool[k].start + pool[k].size < s
        BY <1>1, <1>2, <1>7, <3>2
      <4>2. pool[k].start \in Nat /\ pool[k].size \in Nat
        BY <1>2
      <4>3. right.start \in Nat /\ s < right.start
        BY <1>1, <1>2, <1>3, <1>8
      <4> QED
        BY <1>2, <4>1, <4>2, <4>3
    <3> QED
      BY <1>1, <1>2, <2>1, <3>1, <3>2
  <2>2. ASSUME NEW k \in 1 .. n, k >= i + 1
        PROVE  right.start + right.size < q[k].start
    <3>1. k > i /\ k # i
      BY <1>1, <1>2, <2>2
    <3> QED
      BY <1>2, <1>7, <1>8, <3>1
  <2>3. right.start + right.size <= Top
    BY <1>2, <1>8
  <2> QED
    BY <1>7, <1>8, <2>1, <2>2, <2>3 DEF Between
<1>11. /\ pool' \in Seq(Block) /\ WellFormed(pool') /\ Len(pool') = n + 1
       /\ AddrsOf(pool') = AddrsOf(q) \cup Interval(right.start, right.size)
  <2>1. i + 1 \in 1 .. Len(q) + 1
    BY <1>1, <1>2, <1>7
  <2> QED
    BY <1>5, <1>7, <1>10, <2>1, InsertLemma
<1>12. /\ Interval(at, size) \subseteq Interval(s, m)
       /\ Interval(s, at - s) \cup Interval(at + size, (s + m) - (at + size))
            = Interval(s, m) \ Interval(at, size)
  BY <1>1, <1>2, <1>3 DEF Interval
<1>13. at \in Addr
  BY <1>1, <1>2, <1>3, FirstFitAssumption DEF Addr
<1> QED
  BY <1>2, <1>4, <1>6, <1>7, <1>8, <1>r, <1>11, <1>12, <1>13 DEF TakenRange, size, n

(* alloc_common, when it answers an address, takes exactly the range granted. *)
LEMMA GrantTakes ==
  ASSUME pool \in Seq(Block), heap \in Nat, Coalesced, NEW req, Valid(req), Granted(req)
  PROVE  TakenRange(GrantedAddr(req), req.size)
BY TakeFrontTakes, TakeWholeTakes, SplitTakes DEF Granted

(* Aligning up yields a multiple. *)
LEMMA AlignUpAligned ==
  ASSUME NEW a \in Nat, NEW n \in Nat \ {0}, a + n < AddrMod
  PROVE  IsAligned(AlignUp(a, n), n)
<1> DEFINE x == a + n - 1
           v == x \div n
           y == n * v
           w == y \div n
<1>1. x \in Nat /\ Plus(a, n - 1) = x
  BY FirstFitAssumption DEF Plus
<1> HIDE DEF x
<1>2. AlignUp(a, n) = x - (x % n)
  BY <1>1 DEF AlignUp
<1>3. x = n * v + (x % n) /\ v \in Nat /\ x % n \in 0 .. n - 1
  BY <1>1
<1> HIDE DEF v
<1>4. n * v \in Nat
  BY <1>3
<1>5. AlignUp(a, n) = y
  BY <1>1, <1>2, <1>3, <1>4
<1>6. y \in Nat
  BY <1>4
<1>y. y = n * v
  OBVIOUS
<1> HIDE DEF y
<1>7. y = n * w + (y % n) /\ w \in Nat /\ y % n \in 0 .. n - 1
  BY <1>6
<1> HIDE DEF w
<1> DEFINE k == v - w
<1>8. k \in Int /\ y % n = n * k
  <2>1. n * (v - w) = n * v - n * w
    BY <1>3, <1>7
  <2> DEFINE r == n * w
  <2>2. r \in Nat
    BY <1>7
  <2> HIDE DEF r
  <2>3. y = r + (y % n) /\ y % n \in Int /\ y \in Nat
    BY <1>6, <1>7 DEF r
  <2>4. y % n = y - r
    BY <2>2, <2>3
  <2>5. y % n = n * v - n * w
    BY <1>y, <2>4 DEF r
  <2> QED
    BY <1>3, <1>7, <2>1, <2>5
<1> HIDE DEF k
<1>9. (k >= 1 => n * k >= n) /\ (k <= -1 => n * k <= -n) /\ (k = 0 => n * k = 0)
  BY <1>8
<1> QED
  BY <1>5, <1>7, <1>8, <1>9 DEF IsAligned

(* Where the range granted lies; and that the header to give it back with is
   there, or a block for it to be merged with. *)
LEMMA GrantPlace ==
  ASSUME pool \in Seq(Block), heap \in Nat, Coalesced, NEW req, Valid(req), Granted(req)
  PROVE  LET start == GrantedAddr(req)
         IN /\ req.op = "alloc_at" => start = req.arg
            /\ req.op = "alloc_aligned" => IsAligned(start, req.arg)
            /\ heap' > 0 \/ \E i \in 1 .. Len(pool') : pool'[i].start = start + req.size
<1> DEFINE start == GrantedAddr(req)
           size == req.size
<1>0. size \in Nat /\ size > 0
  BY DEF Valid
<1>1. ASSUME Fitting(req) # 0
      PROVE  /\ req.op = "alloc_at" => start = req.arg
             /\ req.op = "alloc_aligned" => IsAligned(start, req.arg)
  <2>1. MeetsConstraint(req, pool[Fitting(req)]) /\ start = pool[Fitting(req)].start
    BY <1>1, FittingLemma DEF GrantedAddr
  <2> QED
    BY <2>1 DEF MeetsConstraint
<1>2. CASE TakeFront(req)
  <2> DEFINE j == Fitting(req)
             s == pool[j].start
             m == pool[j].size
  <2>1. j # 0 /\ j \in 1 .. Len(pool) /\ m > size /\ start = s
    BY <1>2, FittingLemma DEF TakeFront, GrantedAddr
  <2>2. s \in Nat /\ m \in Nat /\ s + m <= Top
    BY <2>1, PoolFacts
  <2>3. Plus(s, size) = s + size
    <3> HIDE DEF s, m, size
    <3> QED
      BY <1>0, <2>1, <2>2, FirstFitAssumption DEF Plus
  <2>4. pool' = [pool EXCEPT ![j] = [start |-> Plus(s, size), size |-> m - size]]
    BY <1>2 DEF TakeFront
  <2>5. Len(pool') = Len(pool) /\ pool'[j].start = Plus(s, size)
    <3> HIDE DEF j, s, m, size
    <3> QED
      BY <2>1, <2>4
  <2>6. j \in 1 .. Len(pool') /\ pool'[j].start = start + size
    BY <2>1, <2>3, <2>5
  <2> QED
    BY <1>1, <2>1, <2>6
<1>3. CASE TakeWhole(req)
  <2>1. Fitting(req) # 0 /\ heap' > 0
    BY <1>3 DEF TakeWhole
  <2> QED
    BY <1>1, <2>1
<1>4. CASE Split(req)
  <2> DEFINE j == BlockToSplit(req)
             b == pool[j]
             at == WantedStart(req, b)
             left == WithSize(b, Minus(at, b.start))
             right == [start |-> Plus(at, size), size |-> RightOffset(req, b)]
             q == [pool EXCEPT ![j] = left]
             S == Block \cup {left, right}
  <2>1. /\ Fitting(req) = 0 /\ j # 0 /\ start = at
        /\ pool' = InsertAt(q, j + 1, right)
    BY <1>4 DEF Split, GrantedAddr
  <2>2. /\ j \in 1 .. Len(pool) /\ at \in Nat /\ Plus(at, size) = at + size
        /\ b.start < at /\ at + size < b.start + b.size
    BY <2>1, SplitPoint
  <2>3. right.start = at + size
    BY <2>2
  <2>4. q \in Seq(S) /\ Len(q) = Len(pool) /\ right \in S /\ Len(pool) \in Nat
    <3> HIDE DEF left, right, j
    <3> QED
      BY <2>2
  <2>5. Len(pool') = Len(pool) + 1 /\ pool'[j + 1] = right /\ j + 1 \in 1 .. Len(pool')
    <3> DEFINE k == j + 1
    <3> HIDE DEF S, q, left, right, j, b, at
    <3>1. k \in 1 .. Len(q) + 1 /\ Len(q) \in Nat /\ k \in Nat
      BY <2>2, <2>4
    <3> HIDE DEF k
    <3>2. /\ Len(InsertAt(q, k, right)) = Len(q) + 1
          /\ \A l \in 1 .. Len(q) + 1 :
               InsertAt(q, k, right)[l] = IF l < k THEN q[l] ELSE IF l = k THEN right ELSE q[l - 1]
      BY <2>4, <3>1, InsertAtLemma
    <3>3. InsertAt(q, k, right)[k] = right
      BY <3>1, <3>2
    <3>4. pool' = InsertAt(q, k, right)
      BY <2>1 DEF k
    <3>5. Len(pool') = Len(pool) + 1 /\ pool'[k] = right /\ k \in 1 .. Len(pool')
      BY <2>4, <3>1, <3>2, <3>3, <3>4
    <3> QED
      BY <3>5 DEF k
  <2>6. \E i \in 1 .. Len(pool') : pool'[i].start = start + size
    <3> HIDE DEF right, j, at, start
    <3> QED
      BY <2>1, <2>3, <2>5
  <2>7. req.op = "alloc_at" => at = req.arg
    BY DEF WantedStart
  <2>8. req.op = "alloc_aligned" => IsAligned(at, req.arg)
    <3> SUFFICES ASSUME req.op = "alloc_aligned" PROVE IsAligned(at, req.arg)
      OBVIOUS
    <3> DEFINE s == b.start
    <3>1. at = AlignUp(s, req.arg) /\ req.arg \in Nat \ {0} /\ s + req.arg + size < AddrMod
      BY <2>2 DEF Valid, WantedStart, NoneWraps
    <3>2. s \in Nat
      BY <2>2, PoolFacts
    <3> HIDE DEF s, at, size
    <3>3. s + req.arg < AddrMod
      BY <1>0, <3>1, <3>2, FirstFitAssumption
    <3> QED
      BY <3>1, <3>2, <3>3, AlignUpAligned
  <2> QED
    BY <2>1, <2>6, <2>7, <2>8
<1> QED
  BY <1>2, <1>3, <1>4 DEF Granted

(* A range that is not free is acceptable, and one with a header at hand, or
   with a block right behind it, can be given back.                          *)
Returnable(start, size) ==
  /\ Interval(start, size) \cap FreeAddrs = {}
  /\ heap > 0 \/ \E i \in 1 .. Len(pool) : pool[i].start = start + size

LEMMA ReturnableAccepted ==
  ASSUME pool \in Seq(Block), heap \in Nat, Coalesced,
         NEW start \in Nat, NEW size \in Nat \ {0}, start + size <= Top,
         Returnable(start, size)
  PROVE  ~ AddRefused(start, size)
<1> DEFINE c == CurrIndex(start)
           C == {i \in DOMAIN pool : End(pool[i]) > start}
<1>a. WellFormed(pool)
  BY DEF Coalesced
<1>p. Plus(start, size) = start + size
  BY FirstFitAssumption DEF Plus
<1>1. /\ c = FirstOf(C) /\ DOMAIN pool = 1 .. Len(pool) /\ Len(pool) \in Nat
      /\ \A i \in 1 .. Len(pool) :
           /\ pool[i].start \in Nat /\ pool[i].size \in Nat /\ pool[i].size > 0
           /\ End(pool[i]) = pool[i].start + pool[i].size
  BY PoolFacts DEF CurrIndex
<1>2. /\ c = 0 <=> C = {}
      /\ C # {} => c \in C /\ \A j \in C : c <= j
  <2>1. C \subseteq Nat \ {0}
    BY <1>1
  <2> HIDE DEF C, c
  <2>2. c = FirstOf(C)
    BY <1>1
  <2>3. /\ FirstOf(C) = 0 <=> C = {}
        /\ C # {} => FirstOf(C) \in C /\ \A j \in C : FirstOf(C) <= j
    BY <2>1, FirstOfLemma
  <2> QED
    BY <2>2, <2>3
(* A block does not lie across the range: they have no address in common. *)
<1>3. ASSUME NEW i \in 1 .. Len(pool), End(pool[i]) > start
      PROVE  start + size <= pool[i].start
  <2> DEFINE s == pool[i].start
             m == pool[i].size
             a == IF s < start THEN start ELSE s
  <2>1. s \in Nat /\ m \in Nat /\ m > 0 /\ s + m > start
    BY <1>1, <1>3
  <2>2. Interval(s, m) \cap Interval(start, size) = {}
    BY <1>a, BlockOf DEF Returnable, FreeAddrs
  <2> HIDE DEF s, m
  <2>3. s < start + size => a \in Interval(s, m) /\ a \in Interval(start, size)
    BY <2>1 DEF Interval
  <2>4. start + size <= s
    BY <2>1, <2>2, <2>3
  <2> QED
    BY <2>4 DEF s
<1>4. Acceptable(start, size)
  <2> SUFFICES ASSUME c # 0 PROVE ~ OverlapsBlock(pool[c], start, start + size)
    BY <1>p DEF Acceptable
  <2> DEFINE s == pool[c].start
             m == pool[c].size
  <2>1. c \in 1 .. Len(pool) /\ End(pool[c]) > start
    BY <1>1, <1>2
  <2>2. s \in Nat /\ m \in Nat /\ m > 0 /\ End(pool[c]) = s + m
    BY <1>1, <2>1
  <2>3. start + size <= s
    BY <1>3, <2>1
  <2> HIDE DEF s, m, c
  <2>4. /\ start # s /\ start + size # s + m
        /\ ~ IsBetween(start, s, s + m) /\ ~ IsBetween(start + size, s, s + m)
        /\ ~ IsBetween(s, start, start + size) /\ ~ IsBetween(s + m, start, start + size)
    BY <2>2, <2>3 DEF IsBetween
  <2> QED
    BY <2>2, <2>4 DEF OverlapsBlock, s
<1>5. ASSUME NEW i \in 1 .. Len(pool), pool[i].start = start + size
      PROVE  JoinsRight(start, size)
  <2>1. End(pool[i]) > start
    <3> DEFINE s == pool[i].start
               m == pool[i].size
    <3>1. s \in Nat /\ m \in Nat /\ m > 0 /\ End(pool[i]) = s + m /\ s = start + size
      BY <1>1, <1>5
    <3> HIDE DEF s, m
    <3> QED
      BY <3>1
  <2>2. c \in C /\ c <= i /\ c # 0
    BY <1>1, <1>2, <2>1
  <2>3. c = i
    <3> SUFFICES ASSUME c < i PROVE FALSE
      BY <1>1, <2>2
    <3> DEFINE s == pool[c].start
               m == pool[c].size
    <3>1. c \in 1 .. Len(pool) /\ End(pool[c]) > start
      BY <1>1, <2>2
    <3>2. s \in Nat /\ m \in Nat /\ m > 0 /\ s + m < pool[i].start
      BY <1>1, <1>a, <3>1, ListFacts
    <3>3. start + size <= s
      BY <1>3, <3>1
    <3> HIDE DEF s, m, c
    <3> QED
      BY <1>5, <3>2, <3>3
  <2> QED
    BY <1>5, <1>p, <2>2, <2>3 DEF JoinsRight
<1>6. ~ NoHeader(start, size)
  BY <1>5 DEF Returnable, NoHeader
<1> QED
  BY <1>4, <1>6 DEF AddRefused

-----------------------------------------------------------------------------
(* The inductive invariant.  A range is accepted or granted by looking at   *)
(* the blocks of the list only, so that the addresses held are apart from   *)
(* the free ones needs the list to be in order and coalesced, and its       *)
(* order needs the blocks to lie below Top, where no sum wraps.             *)
PoolInv ==
  /\ pool \in Seq(Block) /\ heap \in Nat
  /\ held \subseteq 0 .. Top /\ managed \subseteq 0 .. Top
  /\ Coalesced /\ Isolated /\ Conserved
IInv == TypeOK /\ Coalesced /\ Isolated /\ Conserved /\ HeadersBalanced

HeadersKept == heap' + Len(pool') = heap + Len(pool)
Replies == [op : Ops, arg : Addr, size : Addr, ok : BOOLEAN, addr : Addr]

(* The empty pool of firstfit_init satisfies the invariant. *)
LEMMA InitIInv == Init => IInv
<1> SUFFICES ASSUME Init PROVE IInv
  OBVIOUS
<1>1. pool = <<>> /\ pool \in Seq(Block) /\ Len(pool) = 0 /\ DOMAIN pool = {}
  BY DEF Init
<1>2. FreeAddrs = {}
  BY <1>1 DEF FreeAddrs, AddrsOf
<1>3. TypeOK
  BY <1>1, FirstFitAssumption DEF Init, TypeOK, Ops, Addr, Null
<1> QED
  BY <1>1, <1>2, <1>3, FirstFitAssumption
     DEF Init, IInv, Coalesced, WellFormed, Isolated, Conserved, HeadersBalanced

(* An answer has the type of a reply. *)
LEMMA ReplyType ==
  ASSUME NEW op \in Ops, NEW arg \in Addr, NEW size \in Addr,
         NEW ok \in BOOLEAN, NEW addr \in Addr, Answer(op, arg, size, ok, addr)
  PROVE  reply' \in Replies
BY DEF Answer, Replies

LEMMA PoolInvOfIInv ==
  /\ IInv => PoolInv
  /\ IInv /\ PoolInv' /\ HeadersKept /\ reply' \in Replies => IInv'
BY DEF IInv, PoolInv, TypeOK, HeadersKept, HeadersBalanced, Replies

(* The arguments that callers pass are addresses. *)
LEMMA ArgumentTypes ==
  /\ 0 \in Addr /\ Null \in Addr
  /\ Starts \subseteq Addr /\ Sizes \subseteq Addr /\ Alignments \subseteq Addr
  /\ Addr \subseteq Nat
BY FirstFitAssumption DEF Addr, Null

(* firstfit_add_block puts a range that was neither free nor held under
   management, or changes nothing. *)
LEMMA AddBlockPool ==
  ASSUME PoolInv, NEW start \in Addr, NEW size \in Addr, start + size <= Top,
         AddBlock(start, size)
  PROVE  /\ PoolInv' /\ HeadersKept /\ reply' \in Replies
         /\ \/ UNCHANGED <<FreeAddrs, held, managed>>
            \/ /\ size > 0
               /\ Interval(start, size) \cap (FreeAddrs \cup held) = {}
               /\ FreeAddrs' = FreeAddrs \cup Interval(start, size)
               /\ held' = held
               /\ managed' = managed \cup Interval(start, size)
<1> USE DEF PoolInv, HeadersKept
<1>1. CASE AddAccepted(start, size) /\ managed' = managed \cup Interval(start, size)
           /\ Answer("add", 0, 0, TRUE, Null)
  <2>1. /\ AddedRange(start, size) /\ AddrsOf(pool) \cap Interval(start, size) = {}
        /\ size > 0
    BY <1>1, AddPreserves, ArgumentTypes DEF AddAccepted, Acceptable
  <2>2. Interval(start, size) \subseteq 0 .. Top
    <3>1. start \in Nat /\ size \in Nat /\ Top \in Nat
      BY ArgumentTypes, FirstFitAssumption
    <3> QED
      BY <3>1 DEF Interval
  <2>3. reply' \in Replies
    BY <1>1, ReplyType, ArgumentTypes DEF Ops
  <2> QED
    BY <1>1, <2>1, <2>2, <2>3
       DEF AddBlock, AddedRange, FreeAddrs, Coalesced, Isolated, Conserved
<1>2. CASE UNCHANGED <<pool, heap, managed>> /\ Answer("add", 0, 0, FALSE, Null)
  <2>1. reply' \in Replies
    BY <1>2, ReplyType, ArgumentTypes DEF Ops
  <2> QED
    BY <1>2, <2>1 DEF AddBlock, FreeAddrs, Coalesced, Isolated, Conserved
<1> QED
  BY <1>1, <1>2 DEF AddBlock

(* firstfit_free gives a held range back, or changes nothing. *)
LEMMA FreePool ==
  ASSUME PoolInv, NEW start \in Addr, NEW size \in Addr, start + size <= Top,
         Free(start, size)
  PROVE  /\ PoolInv' /\ HeadersKept /\ reply' \in Replies /\ managed' = managed
         /\ \/ UNCHANGED <<FreeAddrs, held>>
            \/ /\ size > 0
               /\ Interval(start, size) \subseteq held
               /\ FreeAddrs' = FreeAddrs \cup Interval(start, size)
               /\ held' = held \ Interval(start, size)
<1> USE DEF PoolInv, HeadersKept
<1>1. CASE AddAccepted(start, size) /\ held' = held \ Interval(start, size)
           /\ Answer("free", 0, 0, TRUE, Null)
  <2>1. /\ AddedRange(start, size) /\ AddrsOf(pool) \cap Interval(start, size) = {}
        /\ size > 0
    BY <1>1, AddPreserves, ArgumentTypes DEF AddAccepted, Acceptable
  <2>2. Interval(start, size) \subseteq held
    BY <2>1 DEF Free, FreeAddrs
  <2>3. reply' \in Replies
    BY <1>1, ReplyType, ArgumentTypes DEF Ops
  <2> QED
    BY <1>1, <2>1, <2>2, <2>3
       DEF Free, AddedRange, FreeAddrs, Coalesced, Isolated, Conserved
<1>2. CASE UNCHANGED <<pool, heap, held>> /\ Answer("free", 0, 0, FALSE, Null)
  <2>1. reply' \in Replies
    BY <1>2, ReplyType, ArgumentTypes DEF Ops
  <2> QED
    BY <1>2, <2>1 DEF Free, FreeAddrs, Coalesced, Isolated, Conserved
<1> QED
  BY <1>1, <1>2 DEF Free

(* What can be given back is taken back. *)
LEMMA FreeAccepted ==
  ASSUME PoolInv, NEW start \in Nat \ {0}, NEW size \in Nat \ {0}, start + size <= Top,
         Returnable(start, size), Free(start, size)
  PROVE  /\ reply'.ok
         /\ FreeAddrs' = FreeAddrs \cup Interval(start, size)
         /\ held' = held \ Interval(start, size)
<1>1. ~ AddRefused(start, size) /\ start # Null
  BY ReturnableAccepted DEF PoolInv, Null
<1>2. /\ AddAccepted(start, size) /\ held' = held \ Interval(start, size)
      /\ Answer("free", 0, 0, TRUE, Null)
  BY <1>1 DEF Free
<1>3. FreeAddrs' = FreeAddrs \cup Interval(start, size)
  <2>1. AddedRange(start, size)
    BY <1>2, AddPreserves DEF PoolInv
  <2> QED
    BY <2>1 DEF AddedRange, FreeAddrs
<1>4. reply'.ok
  BY <1>2 DEF Answer
<1> QED
  BY <1>2, <1>3, <1>4

(* The three entry points of alloc_common hold what they grant, all of it free
   before and where it was asked for, or change nothing. *)
LEMMA AllocatePool ==
  ASSUME PoolInv, NEW op \in {"alloc", "alloc_at", "alloc_aligned"},
         NEW arg \in Addr, NEW size \in Addr,
         op = "alloc_at" => arg + size < AddrMod,
         op = "alloc_aligned" => NoneWraps(arg, size),
         Allocate(op, arg, size)
  PROVE  /\ PoolInv' /\ HeadersKept /\ reply' \in Replies /\ managed' = managed
         /\ reply'.op = op
         /\ \/ ~ reply'.ok /\ UNCHANGED <<FreeAddrs, held>>
            \/ \E start \in Addr :
                 /\ reply'.ok /\ reply'.addr = start
                 /\ op = "alloc_at" => start = arg
                 /\ op = "alloc_aligned" => IsAligned(start, arg)
                 /\ size > 0
                 /\ Interval(start, size) \subseteq FreeAddrs
                 /\ FreeAddrs' = FreeAddrs \ Interval(start, size)
                 /\ held' = held \cup Interval(start, size)
                 /\ Interval(start, size) \cap FreeAddrs' = {}
                 /\ heap' > 0 \/ \E i \in 1 .. Len(pool') : pool'[i].start = start + size
<1> USE DEF PoolInv, HeadersKept
<1> DEFINE req == [op |-> op, arg |-> arg, size |-> size]
           start == GrantedAddr(req)
           valid == size # 0 /\ (op = "alloc_aligned" => arg # 0)
<1>0. op \in Ops /\ managed' = managed
  BY DEF Ops, Allocate
<1>1. CASE valid /\ Granted(req) /\ held' = held \cup Interval(start, size)
           /\ Answer(op, arg, size, TRUE, start)
  <2>1. Valid(req)
    BY <1>1, ArgumentTypes DEF Valid
  <2>2. TakenRange(start, size) /\ size > 0
    BY <1>1, <2>1, GrantTakes DEF Valid
  <2>3. Interval(start, size) \subseteq FreeAddrs /\ start \in Addr
    BY <2>2 DEF TakenRange, FreeAddrs
  <2>4. /\ op = "alloc_at" => start = arg
        /\ op = "alloc_aligned" => IsAligned(start, arg)
        /\ heap' > 0 \/ \E i \in 1 .. Len(pool') : pool'[i].start = start + size
    BY <1>1, <2>1, GrantPlace
  <2> HIDE DEF start
  <2>5. reply' \in Replies
    BY <1>0, <1>1, <2>3, ReplyType
  <2>6. FreeAddrs' = FreeAddrs \ Interval(start, size)
    BY <2>2 DEF TakenRange, FreeAddrs
  <2>7. Interval(start, size) \cap FreeAddrs' = {}
    BY <2>6
  <2>8. reply'.ok /\ reply'.addr = start /\ reply'.op = op
    BY <1>1 DEF Answer
  <2>9. PoolInv' /\ HeadersKept
    BY <1>0, <1>1, <2>2, <2>3, <2>6 DEF TakenRange, Coalesced, Isolated, Conserved
  <2> QED
    BY <1>0, <1>1, <2>2, <2>3, <2>4, <2>5, <2>6, <2>7, <2>8, <2>9
<1>2. CASE UNCHANGED <<pool, heap, held>> /\ Answer(op, arg, size, FALSE, Null)
  <2>1. reply' \in Replies
    BY <1>0, <1>2, ReplyType, ArgumentTypes
  <2>2. ~ reply'.ok /\ reply'.op = op
    BY <1>2 DEF Answer
  <2> QED
    BY <1>0, <1>2, <2>1, <2>2 DEF FreeAddrs, Coalesced, Isolated, Conserved
<1> QED
  BY <1>1, <1>2 DEF Allocate

(* A step outside the pool preserves the invariant. *)
LEMMA StutterStep == ASSUME IInv, UNCHANGED vars
                     PROVE  IInv' /\ UNCHANGED <<FreeAddrs, held>>
BY DEF IInv, vars, TypeOK, FreeAddrs, Coalesced, Isolated, Conserved, HeadersBalanced

(* Every step of the list is a step of the abstract allocator, or none.     *)
LEMMA StepLemma ==
  ASSUME IInv, [Next]_vars
  PROVE  /\ IInv'
         /\ [Abstract!Next]_(Abstract!vars)
<1> DEFINE Moves(R) == /\ R # {}
                       /\ \E first, last \in 0 .. Top : first <= last /\ R = first .. last
                       /\ \/ /\ R \cap (FreeAddrs \cup held) = {}
                             /\ FreeAddrs' = FreeAddrs \cup R
                             /\ held' = held
                          \/ /\ R \subseteq FreeAddrs
                             /\ FreeAddrs' = FreeAddrs \ R
                             /\ held' = held \cup R
                          \/ /\ R \subseteq held
                             /\ FreeAddrs' = FreeAddrs \cup R
                             /\ held' = held \ R
<1>1. ASSUME NEW start \in Addr, NEW size \in Addr, size > 0,
             Interval(start, size) \subseteq 0 .. Top
      PROVE  /\ Interval(start, size) # {}
             /\ \E first, last \in 0 .. Top :
                  first <= last /\ Interval(start, size) = first .. last
  <2>1. start \in Nat /\ size \in Nat
    BY ArgumentTypes
  <2>2. start \in Interval(start, size) /\ start + size - 1 \in Interval(start, size)
    BY <1>1, <2>1 DEF Interval
  <2>3. start <= start + size - 1 /\ Interval(start, size) = start .. start + size - 1
    BY <1>1, <2>1 DEF Interval
  <2> QED
    BY <1>1, <2>2, <2>3
<1>2. FreeAddrs \subseteq 0 .. Top /\ held \subseteq 0 .. Top
  BY DEF IInv, TypeOK, Conserved
<1>3. ASSUME NEW start \in Addr, NEW size \in Addr, start + size <= Top
      PROVE  Interval(start, size) \subseteq 0 .. Top
  <2>1. start \in Nat /\ size \in Nat /\ Top \in Nat
    BY ArgumentTypes, FirstFitAssumption
  <2> QED
    BY <1>3, <2>1 DEF Interval
<1>4. IInv' /\ (UNCHANGED <<FreeAddrs, held>> \/ \E R \in SUBSET (0 .. Top) : Moves(R))
  <2>0. ASSUME NEW start \in Addr, NEW size \in Addr,
               size > 0, Interval(start, size) \subseteq 0 .. Top,
               \/ /\ Interval(start, size) \cap (FreeAddrs \cup held) = {}
                  /\ FreeAddrs' = FreeAddrs \cup Interval(start, size)
                  /\ held' = held
               \/ /\ Interval(start, size) \subseteq FreeAddrs
                  /\ FreeAddrs' = FreeAddrs \ Interval(start, size)
                  /\ held' = held \cup Interval(start, size)
               \/ /\ Interval(start, size) \subseteq held
                  /\ FreeAddrs' = FreeAddrs \cup Interval(start, size)
                  /\ held' = held \ Interval(start, size)
        PROVE  \E R \in SUBSET (0 .. Top) : Moves(R)
    <3> DEFINE R == Interval(start, size)
    <3>1. R # {} /\ \E first, last \in 0 .. Top : first <= last /\ R = first .. last
      BY <1>1, <2>0
    <3>2. R \in SUBSET (0 .. Top)
      BY <2>0
    <3>3. Moves(R)
      BY <2>0, <3>1
    <3> HIDE DEF R, Moves
    <3> QED
      BY <3>2, <3>3
  <2> HIDE DEF Moves
  <2>1. ASSUME NEW size \in Sizes, NEW start \in Starts, start + size <= Top,
               AddBlock(start, size)
        PROVE  IInv' /\ (UNCHANGED <<FreeAddrs, held>> \/ \E R \in SUBSET (0 .. Top) : Moves(R))
    <3>1. start \in Addr /\ size \in Addr
      BY ArgumentTypes
    <3> QED
      BY <1>3, <2>0, <2>1, <3>1, AddBlockPool, PoolInvOfIInv
  <2>2. ASSUME NEW size \in Sizes, NEW start \in Starts, start + size <= Top,
               Free(start, size)
        PROVE  IInv' /\ (UNCHANGED <<FreeAddrs, held>> \/ \E R \in SUBSET (0 .. Top) : Moves(R))
    <3>1. start \in Addr /\ size \in Addr
      BY ArgumentTypes
    <3> QED
      BY <1>3, <2>0, <2>2, <3>1, FreePool, PoolInvOfIInv
  <2>3. ASSUME NEW op \in {"alloc", "alloc_at", "alloc_aligned"},
               NEW arg \in Addr, NEW size \in Sizes,
               op = "alloc_at" => arg + size < AddrMod,
               op = "alloc_aligned" => NoneWraps(arg, size),
               Allocate(op, arg, size)
        PROVE  IInv' /\ (UNCHANGED <<FreeAddrs, held>> \/ \E R \in SUBSET (0 .. Top) : Moves(R))
    <3>1. size \in Addr
      BY ArgumentTypes
    <3>2. /\ IInv'
          /\ \/ UNCHANGED <<FreeAddrs, held>>
             \/ \E start \in Addr :
                  /\ size > 0
                  /\ Interval(start, size) \subseteq FreeAddrs
                  /\ FreeAddrs' = FreeAddrs \ Interval(start, size)
                  /\ held' = held \cup Interval(start, size)
      BY <2>3, <3>1, AllocatePool, PoolInvOfIInv
    <3>3. ASSUME NEW start \in Addr,
                 size > 0,
                 Interval(start, size) \subseteq FreeAddrs,
                 FreeAddrs' = FreeAddrs \ Interval(start, size),
                 held' = held \cup Interval(start, size)
          PROVE  \E R \in SUBSET (0 .. Top) : Moves(R)
      <4>1. Interval(start, size) \subseteq 0 .. Top
        BY <1>2, <3>3
      <4> QED
        BY <2>0, <3>1, <3>3, <4>1
    <3> QED
      BY <3>2, <3>3
  <2>4. CASE UNCHANGED vars
    BY <2>4, StutterStep
  <2>5. ASSUME NEW size \in Sizes, Alloc(size)
        PROVE  IInv' /\ (UNCHANGED <<FreeAddrs, held>> \/ \E R \in SUBSET (0 .. Top) : Moves(R))
    BY <2>3, <2>5, ArgumentTypes DEF Alloc
  <2>6. ASSUME NEW size \in Sizes, NEW start \in Starts, start + size < AddrMod,
               AllocAt(start, size)
        PROVE  IInv' /\ (UNCHANGED <<FreeAddrs, held>> \/ \E R \in SUBSET (0 .. Top) : Moves(R))
    BY <2>3, <2>6, ArgumentTypes DEF AllocAt
  <2>7. ASSUME NEW size \in Sizes, NEW alignment \in Alignments,
               Top + alignment + size < AddrMod, AllocAligned(alignment, size)
        PROVE  IInv' /\ (UNCHANGED <<FreeAddrs, held>> \/ \E R \in SUBSET (0 .. Top) : Moves(R))
    <3>1. NoneWraps(alignment, size)
      BY <1>3, <2>7, ArgumentTypes, PoolInvOfIInv, TopBound DEF PoolInv
    <3> QED
      BY <2>3, <2>7, <3>1, ArgumentTypes DEF AllocAligned
  <2> QED
    BY <2>1, <2>2, <2>4, <2>5, <2>6, <2>7 DEF Next
<1>5. ASSUME NEW R \in SUBSET (0 .. Top), Moves(R)
      PROVE  Abstract!Next
  <2>1. PICK first \in 0 .. Top, last \in 0 .. Top : first <= last /\ R = first .. last
    BY <1>5
  <2>2. R = Abstract!Range(first, last)
    BY <2>1, FirstFitAssumption DEF Abstract!Range
  <2>3. Abstract!Donate(R) \/ Abstract!Allocate(R) \/ Abstract!Release(R)
    BY <1>5 DEF Abstract!Donate, Abstract!Allocate, Abstract!Release
  <2> QED
    BY <2>1, <2>2, <2>3 DEF Abstract!Next
<1> HIDE DEF Moves
<1> QED
  BY <1>4, <1>5 DEF Abstract!vars

(* Whatever is donated, granted and given back, the list of free blocks     *)
(* stays in order and coalesced, no address is both free and held, every    *)
(* address ever donated is one or the other, and no header is lost.         *)
THEOREM Safety == Spec => [](TypeOK /\ Coalesced /\ Isolated /\ Conserved /\ HeadersBalanced)
<1>1. IInv /\ [Next]_vars => IInv'
  BY StepLemma
<1>2. IInv => TypeOK /\ Coalesced /\ Isolated /\ Conserved /\ HeadersBalanced
  BY DEF IInv
<1> QED
  BY InitIInv, <1>1, <1>2, PTL DEF Spec

(* The free list implements the abstract allocator of address ranges.       *)
THEOREM Refinement == Spec => ImplementsRangeAllocator
<1>1. Init => Abstract!Init
  BY DEF Init, Abstract!Init, FreeAddrs, AddrsOf
<1>2. IInv /\ [Next]_vars => IInv' /\ [Abstract!Next]_(Abstract!vars)
  BY StepLemma
<1> QED
  BY InitIInv, <1>1, <1>2, PTL DEF Spec, ImplementsRangeAllocator, Abstract!Spec

(* The list alone: see Safety. *)
THEOREM Coalescing == Spec => []Coalesced
BY Safety, PTL

(* The headers alone: see Safety. *)
THEOREM HeaderBalance == Spec => []HeadersBalanced
BY Safety, PTL

-----------------------------------------------------------------------------
(* Refusals.  A run of free addresses lies in one block, as blocks do not   *)
(* touch.                                                                   *)
LEMMA RunInBlock ==
  ASSUME pool \in Seq(Block), Coalesced,
         NEW a \in Int, NEW n \in Nat \ {0}, Run(a, n, FreeAddrs)
  PROVE  \E i \in 1 .. Len(pool) : /\ pool[i].start <= a
                                   /\ a + n <= pool[i].start + pool[i].size
<1>1. /\ Len(pool) \in Nat
      /\ \A i \in 1 .. Len(pool) :
           pool[i].start \in Nat /\ pool[i].size \in Nat /\ pool[i].size > 0
      /\ \A i, j \in 1 .. Len(pool) : i < j => pool[i].start + pool[i].size < pool[j].start
  BY ListFacts DEF Coalesced
<1>2. \A x \in a .. a + n - 1 : \E i \in 1 .. Len(pool) :
        pool[i].start <= x /\ x < pool[i].start + pool[i].size
  BY AddrsOfMember DEF Run, FreeAddrs
<1>3. PICK i \in 1 .. Len(pool) : pool[i].start <= a /\ a < pool[i].start + pool[i].size
  <2>1. a \in a .. a + n - 1
    OBVIOUS
  <2> QED
    BY <1>2, <2>1
<1> DEFINE end == pool[i].start + pool[i].size
<1>4. ASSUME a + n > end PROVE FALSE
  <2>1. end \in Int /\ end \in a .. a + n - 1
    BY <1>1, <1>3, <1>4
  <2>2. PICK j \in 1 .. Len(pool) : pool[j].start <= end /\ end < pool[j].start + pool[j].size
    BY <1>2, <2>1
  <2>3. ~ (i < j)
    BY <1>1, <2>2
  <2>4. ~ (j < i)
    BY <1>1, <1>3, <2>2
  <2>5. i # j
    BY <1>1, <2>2
  <2> QED
    BY <1>1, <2>3, <2>4, <2>5
<1>5. a + n <= end
  BY <1>1, <1>3, <1>4
<1> QED
  BY <1>3, <1>5

(* Aligning up yields the least aligned address that is not below. *)
LEMMA AlignUpLeast ==
  ASSUME NEW a \in Nat, NEW n \in Nat \ {0}, a + n < AddrMod,
         NEW b \in Nat, a <= b, IsAligned(b, n)
  PROVE  AlignUp(a, n) <= b
<1> DEFINE x == a + n - 1
           v == x \div n
           q == b \div n
<1>1. x \in Nat /\ Plus(a, n - 1) = x
  BY FirstFitAssumption DEF Plus
<1>2. AlignUp(a, n) = x - (x % n)
  BY <1>1 DEF AlignUp
<1>3. v \in Nat /\ x = n * v + (x % n) /\ x % n \in 0 .. n - 1
  <2> HIDE DEF x
  <2> QED
    BY <1>1
<1>4. q \in Nat /\ b = n * q
  <2>1. q \in Nat /\ b = n * q + (b % n)
    OBVIOUS
  <2> HIDE DEF q
  <2> QED
    BY <2>1 DEF IsAligned
<1>5. x <= b + n - 1
  OBVIOUS
<1> HIDE DEF x, v, q
<1>6. n * v \in Int /\ n * q \in Int
  BY <1>3, <1>4
<1>7. n * v < n * q + n
  BY <1>1, <1>3, <1>4, <1>5, <1>6
<1>8. v >= q + 1 => n * v >= n * (q + 1)
  BY <1>3, <1>4
<1>9. n * (q + 1) = n * q + n
  BY <1>4
<1>10. v <= q
  BY <1>3, <1>4, <1>6, <1>7, <1>8, <1>9
<1>11. n * v <= n * q
  BY <1>3, <1>4, <1>10
<1> QED
  BY <1>1, <1>2, <1>3, <1>4, <1>6, <1>11

(* If a block can be split, one of those with most space behind is found.   *)
LEMMA SplitFound ==
  ASSUME pool \in Seq(Block), NEW req, NEW i \in 1 .. Len(pool),
         \A k \in 1 .. Len(pool) :
           Splittable(req, pool[k]) => RightOffset(req, pool[k]) \in 0 .. AddrMod - 1,
         Splittable(req, pool[i])
  PROVE  BlockToSplit(req) # 0
<1>1. DOMAIN pool = 1 .. Len(pool) /\ Len(pool) \in Nat /\ AddrMod \in Nat
  BY LenProperties, FirstFitAssumption
<1> DEFINE S == {k \in 1 .. Len(pool) : Splittable(req, pool[k])}
           Left(k) == AddrMod - RightOffset(req, pool[k])
           L == {Left(k) : k \in S}
           B == {k \in DOMAIN pool :
                   /\ Splittable(req, pool[k])
                   /\ \A j \in DOMAIN pool : Splittable(req, pool[j]) =>
                        RightOffset(req, pool[j]) <= RightOffset(req, pool[k])}
<1>2. \A k \in S : RightOffset(req, pool[k]) \in 0 .. AddrMod - 1
  OBVIOUS
<1>3. \A k \in S : Left(k) \in Nat \ {0}
  BY <1>1, <1>2
<1>4. L \subseteq Nat \ {0} /\ L # {}
  BY <1>3
<1>5. FirstOf(L) \in L /\ \A l \in L : FirstOf(L) <= l
  <2> HIDE DEF L
  <2> QED
    BY <1>4, FirstOfLemma
<1>6. PICK k \in S : \A j \in S : Left(k) <= Left(j)
  BY <1>5
<1>7. \A j \in S : RightOffset(req, pool[j]) <= RightOffset(req, pool[k])
  BY <1>1, <1>2, <1>6
<1>8. k \in B
  BY <1>1, <1>7
<1>9. B \subseteq Nat \ {0}
  BY <1>1
<1>10. FirstOf(B) # 0
  <2> HIDE DEF B
  <2> QED
    BY <1>8, <1>9, FirstOfLemma
<1> QED
  BY <1>10 DEF BlockToSplit

(* A block that a run of one address more than was asked for lies in, at an *)
(* address that meets the constraint, can be split if it does not fit.      *)
LEMMA RunSplits ==
  ASSUME pool \in Seq(Block), Coalesced, NEW req, Valid(req), req.op # "alloc",
         NEW addr \in Nat, NEW i \in 1 .. Len(pool),
         req.op = "alloc_at" => addr = req.arg,
         req.op = "alloc_aligned" => IsAligned(addr, req.arg),
         pool[i].start <= addr,
         addr + req.size + 1 <= pool[i].start + pool[i].size
  PROVE  Splittable(req, pool[i])
<1> DEFINE s == pool[i].start
           m == pool[i].size
           size == req.size
           at == WantedStart(req, pool[i])
<1>1. s \in Nat /\ m \in Nat /\ s + m <= Top /\ End(pool[i]) = s + m
  BY PoolFacts
<1>2. size \in Nat /\ size > 0 /\ req.op \in {"alloc_at", "alloc_aligned"} /\ req.arg \in Nat
  BY DEF Valid
<1>3. at \in Nat /\ s <= at /\ at <= addr
  <2>1. CASE req.op = "alloc_at"
    <3>1. at = req.arg /\ addr = req.arg
      BY <2>1 DEF WantedStart
    <3> QED
      BY <1>1, <1>2, <3>1
  <2>2. CASE req.op = "alloc_aligned"
    <3>1. at = AlignUp(s, req.arg) /\ req.arg \in Nat \ {0} /\ s + req.arg + size < AddrMod
      BY <1>1, <2>2 DEF Valid, WantedStart, NoneWraps
    <3>2. s + req.arg < AddrMod
      BY <1>1, <1>2, <3>1, FirstFitAssumption
    <3>3. at \in Nat /\ s <= at
      BY <1>1, <3>1, <3>2, AlignUpLemma
    <3>4. at <= addr
      BY <1>1, <2>2, <3>1, <3>2, AlignUpLeast
    <3> QED
      BY <3>3, <3>4
  <2> QED
    BY <1>2, <2>1, <2>2
<1>4. addr + size + 1 <= s + m
  OBVIOUS
<1>5. End(pool[i]) = s + m
  BY <1>1
<1> HIDE DEF s, m, size, at
<1>6. Plus(at, size) = at + size /\ at + size < s + m
  BY <1>1, <1>2, <1>3, <1>4, FirstFitAssumption DEF Plus
<1>7. Minus(s + m, at + size) > 0
  BY <1>1, <1>2, <1>3, <1>6 DEF Minus
<1>8. RightOffset(req, pool[i]) = Minus(s + m, at + size)
  BY <1>5, <1>6 DEF RightOffset, at, size
<1> QED
  BY <1>1, <1>2, <1>3, <1>5, <1>6, <1>7, <1>8 DEF Splittable, at, size, s

(* What alloc_common refuses was not there to be granted.                   *)
LEMMA RefusalLemma ==
  ASSUME pool \in Seq(Block), Coalesced, heap \in Nat, NEW req, Valid(req), Refused(req),
         NEW addr \in FreeAddrs,
         req.op = "alloc_at" => addr = req.arg,
         req.op = "alloc_aligned" => IsAligned(addr, req.arg)
  PROVE  /\ ~ Run(addr, req.size, FreeAddrs) \/ addr - 1 \in FreeAddrs
         /\ ~ Run(addr, req.size + 1, FreeAddrs) \/ (req.op # "alloc" /\ heap = 0)
<1>1. req.size \in Nat \ {0} /\ req.op \in {"alloc", "alloc_at", "alloc_aligned"}
  BY DEF Valid
<1>2. \A i \in 1 .. Len(pool) :
        /\ pool[i].start \in Nat /\ pool[i].size \in Nat /\ pool[i].size > 0
        /\ pool[i].start + pool[i].size <= Top /\ End(pool[i]) = pool[i].start + pool[i].size
  BY PoolFacts
<1>3. \A i \in 1 .. Len(pool) : ~ (pool[i].size >= req.size /\ MeetsConstraint(req, pool[i]))
  BY FittingLemma DEF Refused
<1>4. addr \in Nat
  <2>1. PICK i \in 1 .. Len(pool) : pool[i].start <= addr /\ addr \in Int
    BY AddrsOfMember DEF FreeAddrs
  <2> QED
    BY <1>2, <2>1
<1>5. ASSUME Run(addr, req.size, FreeAddrs), addr - 1 \notin FreeAddrs PROVE FALSE
  <2>1. PICK i \in 1 .. Len(pool) : /\ pool[i].start <= addr
                                   /\ addr + req.size <= pool[i].start + pool[i].size
    BY <1>1, <1>4, <1>5, RunInBlock
  <2>2. ~ (pool[i].start < addr)
    <3>1. SUFFICES ASSUME pool[i].start < addr PROVE addr - 1 \in FreeAddrs
      BY <1>5
    <3>2. addr - 1 \in Int /\ pool[i].start <= addr - 1
          /\ addr - 1 < pool[i].start + pool[i].size
      BY <1>1, <1>2, <1>4, <2>1, <3>1
    <3> QED
      BY <3>2, AddrsOfMember DEF FreeAddrs
  <2>3. pool[i].start = addr /\ pool[i].size >= req.size
    BY <1>1, <1>2, <1>4, <2>1, <2>2
  <2>4. MeetsConstraint(req, pool[i])
    BY <1>1, <2>3 DEF MeetsConstraint
  <2> QED
    BY <1>3, <2>3, <2>4
<1>6. ASSUME Run(addr, req.size + 1, FreeAddrs) PROVE req.op # "alloc" /\ heap = 0
  <2>1. PICK i \in 1 .. Len(pool) : /\ pool[i].start <= addr
                                   /\ addr + (req.size + 1) <= pool[i].start + pool[i].size
    <3>1. req.size + 1 \in Nat \ {0}
      BY <1>1
    <3> QED
      BY <1>4, <1>6, <3>1, RunInBlock
  <2>2. addr + req.size + 1 <= pool[i].start + pool[i].size /\ pool[i].size >= req.size
    BY <1>1, <1>2, <1>4, <2>1
  <2>3. req.op # "alloc"
    BY <1>3, <2>2 DEF MeetsConstraint
  <2>4. Splittable(req, pool[i])
    BY <1>4, <2>1, <2>2, <2>3, RunSplits
  <2>5. ASSUME NEW k \in 1 .. Len(pool), Splittable(req, pool[k])
        PROVE  RightOffset(req, pool[k]) \in 0 .. AddrMod - 1
    <3> DEFINE at == WantedStart(req, pool[k])
               e == pool[k].start + pool[k].size
    <3>1. e \in Nat /\ e <= Top /\ e = End(pool[k])
      BY <1>2
    <3>2. /\ Plus(at, req.size) <= e
          /\ RightOffset(req, pool[k]) = Minus(e, Plus(at, req.size))
      BY <2>5, <3>1 DEF Splittable, RightOffset
    <3>3. Plus(at, req.size) \in Nat
      <4>1. CASE req.op = "alloc_at"
        <5>1. at = req.arg
          BY <4>1 DEF WantedStart
        <5> QED
          BY <4>1, <5>1 DEF Valid, Plus
      <4>2. CASE req.op = "alloc_aligned"
        <5>1. at = AlignUp(pool[k].start, req.arg) /\ req.arg \in Nat \ {0}
              /\ pool[k].start + req.arg + req.size < AddrMod
          BY <4>2 DEF Valid, WantedStart, NoneWraps
        <5> DEFINE s == pool[k].start
                   d == req.arg
                   z == req.size
        <5>2. s \in Nat /\ s <= Top
          <6>1. s \in Nat /\ pool[k].size \in Nat /\ s + pool[k].size <= Top
            BY <1>2
          <6> HIDE DEF s
          <6> QED
            BY <6>1, FirstFitAssumption
        <5>a. at = AlignUp(s, d) /\ d \in Nat \ {0} /\ s + d + z < AddrMod /\ z \in Nat
          BY <1>1, <5>1
        <5> HIDE DEF s, d, z, at
        <5>3. s + d < AddrMod
          BY <5>a, <5>2, FirstFitAssumption
        <5>4. at \in Nat /\ at < s + d
          BY <5>a, <5>2, <5>3, AlignUpLemma
        <5>5. at + z < AddrMod /\ at + z \in Nat
          BY <5>a, <5>2, <5>3, <5>4, FirstFitAssumption
        <5> QED
          BY <5>5 DEF Plus, z
      <4> QED
        BY <1>1, <2>3, <4>1, <4>2
    <3> DEFINE p == Plus(at, req.size)
    <3>4. p \in Nat /\ p <= e /\ RightOffset(req, pool[k]) = Minus(e, p)
      BY <3>2, <3>3
    <3> HIDE DEF at, e, p
    <3> QED
      BY <3>1, <3>4, FirstFitAssumption DEF Minus
  <2>6. BlockToSplit(req) # 0
    BY <2>4, <2>5, SplitFound
  <2> QED
    BY <2>3, <2>6 DEF Refused
<1> QED
  BY <1>5, <1>6

(* The answer to a request, and what it says of the list as it is then.     *)
LEMMA AllocateJustified ==
  ASSUME PoolInv, NEW op \in {"alloc", "alloc_at", "alloc_aligned"},
         NEW arg \in Addr, NEW size \in Addr,
         op = "alloc_at" => arg + size < AddrMod,
         op = "alloc_aligned" => NoneWraps(arg, size),
         Allocate(op, arg, size)
  PROVE  RefusalJustified'
<1> DEFINE req == [op |-> op, arg |-> arg, size |-> size]
           valid == size # 0 /\ (op = "alloc_aligned" => arg # 0)
<1>1. CASE Answer(op, arg, size, TRUE, GrantedAddr(req))
  BY <1>1 DEF RefusalJustified, Answer
<1>2. CASE /\ valid => Refused(req)
           /\ UNCHANGED <<pool, heap, held>>
           /\ Answer(op, arg, size, FALSE, Null)
  <2>1. reply' = [op |-> op, arg |-> arg, size |-> size, ok |-> FALSE, addr |-> Null]
    BY <1>2 DEF Answer
  <2>2. FreeAddrs' = FreeAddrs /\ heap' = heap
    BY <1>2 DEF FreeAddrs
  <2>3. CASE ~ valid
    BY <2>1, <2>3, ArgumentTypes DEF RefusalJustified
  <2>4. CASE valid
    <3>1. Valid(req) /\ Refused(req)
      BY <1>2, <2>4, ArgumentTypes DEF Valid
    <3>2. ASSUME NEW addr \in FreeAddrs,
                 op = "alloc_at" => addr = arg,
                 op = "alloc_aligned" => IsAligned(addr, arg)
          PROVE  /\ ~ Run(addr, size, FreeAddrs) \/ addr - 1 \in FreeAddrs
                 /\ ~ Run(addr, size + 1, FreeAddrs) \/ (op # "alloc" /\ heap = 0)
      <4>1. req.op = op /\ req.arg = arg /\ req.size = size
        OBVIOUS
      <4>2. pool \in Seq(Block) /\ Coalesced /\ heap \in Nat
        BY DEF PoolInv
      <4> HIDE DEF req
      <4> QED
        BY <3>1, <3>2, <4>1, <4>2, RefusalLemma
    <3> QED
      BY <2>1, <2>2, <3>2 DEF RefusalJustified, Proper
  <2> QED
    BY <2>3, <2>4
<1> QED
  BY <1>1, <1>2 DEF Allocate

(* For every list, size and constraint: a request is refused only when no   *)
(* run of free addresses can serve it, but for what the code overlooks.     *)
THEOREM Refusals == Spec => []RefusalJustified
<1>1. Init => RefusalJustified
  BY DEF Init, RefusalJustified
<1>2. ASSUME IInv, RefusalJustified, [Next]_vars PROVE RefusalJustified'
  <2>1. CASE UNCHANGED vars
    BY <1>2, <2>1 DEF vars, RefusalJustified, Proper, FreeAddrs
  <2>2. ASSUME NEW start \in Starts, NEW size \in Sizes,
               AddBlock(start, size) \/ Free(start, size)
        PROVE  RefusalJustified'
    <3>1. reply'.op \in {"add", "free"}
      BY <2>2 DEF AddBlock, Free, Answer
    <3> QED
      BY <3>1 DEF RefusalJustified
  <2>3. ASSUME NEW size \in Sizes, Alloc(size) PROVE RefusalJustified'
    BY <1>2, <2>3, ArgumentTypes, PoolInvOfIInv, AllocateJustified DEF Alloc
  <2>4. ASSUME NEW size \in Sizes, NEW start \in Starts, start + size < AddrMod,
               AllocAt(start, size)
        PROVE  RefusalJustified'
    BY <1>2, <2>4, ArgumentTypes, PoolInvOfIInv, AllocateJustified DEF AllocAt
  <2>5. ASSUME NEW size \in Sizes, NEW alignment \in Alignments,
               Top + alignment + size < AddrMod, AllocAligned(alignment, size)
        PROVE  RefusalJustified'
    <3>1. NoneWraps(alignment, size)
      BY <1>2, <2>5, ArgumentTypes, PoolInvOfIInv, TopBound DEF PoolInv
    <3> QED
      BY <1>2, <2>5, <3>1, ArgumentTypes, PoolInvOfIInv, AllocateJustified DEF AllocAligned
  <2> QED
    BY <1>2, <2>1, <2>2, <2>3, <2>4, <2>5 DEF Next
<1>3. IInv /\ [Next]_vars => IInv'
  BY StepLemma
<1> QED
  BY InitIInv, <1>1, <1>2, <1>3, PTL DEF Spec
-----------------------------------------------------------------------------
(* FlattenSeq: the sequences before one are put together, and it is added. *)
Joined(seqs, n, f) ==
  f = [i \in 1 .. n |-> IF i = 1 THEN seqs[i] ELSE f[i - 1] \o seqs[i]]

LEMMA JoinedAt ==
  ASSUME NEW seqs, NEW n \in Nat, NEW f, Joined(seqs, n, f), NEW i \in 1 .. n
  PROVE  f[i] = IF i = 1 THEN seqs[i] ELSE f[i - 1] \o seqs[i]
<1> DEFINE e(j) == IF j = 1 THEN seqs[j] ELSE f[j - 1] \o seqs[j]
<1>1. f = [j \in 1 .. n |-> e(j)]
  BY DEF Joined
<1> HIDE DEF e
<1>2. f[i] = e(i)
  BY <1>1
<1> QED
  BY <1>2 DEF e

LEMMA JoinedExists ==
  ASSUME NEW seqs, NEW n \in Nat \ {0}
  PROVE  \E f : Joined(seqs, n, f)
<1> DEFINE Bad == {k \in Nat \ {0} : ~ \E f : Joined(seqs, k, f)}
           k == FirstOf(Bad)
<1> SUFFICES ASSUME Bad # {} PROVE FALSE
  OBVIOUS
<1>1. k \in Bad /\ \A j \in Bad : k <= j
  <2>1. Bad \subseteq Nat \ {0}
    OBVIOUS
  <2> HIDE DEF Bad
  <2> QED
    BY <2>1, FirstOfLemma
<1> HIDE DEF k
<1>2. k \in Nat \ {0}
  BY <1>1
<1>3. CASE k = 1
  <2> DEFINE g == [i \in 1 .. k |-> seqs[i]]
  <2>1. Joined(seqs, k, g)
    BY <1>3 DEF Joined
  <2> QED
    BY <1>1, <2>1
<1>4. CASE k # 1
  <2> DEFINE m == k - 1
  <2>0. m \in Nat \ {0} /\ k = m + 1 /\ m = k - 1
    BY <1>2, <1>4
  <2> HIDE DEF m
  <2>1. m \notin Bad
    BY <1>1, <2>0
  <2>2. PICK f : Joined(seqs, m, f)
    BY <2>0, <2>1
  <2> DEFINE g == [i \in 1 .. k |-> IF i = k THEN f[m] \o seqs[k] ELSE f[i]]
  <2>3. ASSUME NEW i \in 1 .. k
        PROVE  g[i] = IF i = 1 THEN seqs[i] ELSE g[i - 1] \o seqs[i]
    <3>1. CASE i = k
      <4>1. k \in 1 .. k /\ m \in 1 .. k /\ m # k
        BY <2>0
      <4>2. g[k] = f[m] \o seqs[k] /\ g[m] = f[m]
        BY <4>1
      <4> QED
        BY <1>4, <2>0, <3>1, <4>2
    <3>2. CASE i # k
      <4>1. i \in 1 .. m /\ (i # 1 => i - 1 \in 1 .. k /\ i - 1 # k)
        BY <2>0, <3>2
      <4>2. f[i] = IF i = 1 THEN seqs[i] ELSE f[i - 1] \o seqs[i]
        BY <2>0, <2>2, <4>1, JoinedAt
      <4>3. g[i] = f[i] /\ (i # 1 => g[i - 1] = f[i - 1])
        BY <3>2, <4>1
      <4> QED
        BY <4>2, <4>3
    <3> QED
      BY <3>1, <3>2
  <2>4. Joined(seqs, k, g)
    <3>1. g = [i \in 1 .. k |-> g[i]]
      OBVIOUS
    <3> HIDE DEF g
    <3>2. g = [i \in 1 .. k |-> IF i = 1 THEN seqs[i] ELSE g[i - 1] \o seqs[i]]
      BY <2>3, <3>1
    <3> QED
      BY <3>2 DEF Joined
  <2> QED
    BY <1>1, <2>4
<1> QED
  BY <1>3, <1>4

LEMMA FlattenJoined ==
  ASSUME NEW seqs, NEW n \in Nat \ {0}, Len(seqs) = n
  PROVE  \E f : Joined(seqs, n, f) /\ FlattenSeq(seqs) = f[n]
<1> DEFINE f == CHOOSE f : Joined(seqs, n, f)
<1>1. Joined(seqs, n, f)
  BY JoinedExists
<1>2. FlattenSeq(seqs) = f[n]
  BY DEF FlattenSeq, Joined
<1> QED
  BY <1>1, <1>2

(* Putting one well-formed list behind another. *)
LEMMA ConcatLemma ==
  ASSUME NEW s \in Seq(Block), NEW t \in Seq(Block), WellFormed(s), WellFormed(t),
         \A i \in 1 .. Len(s), j \in 1 .. Len(t) : s[i].start + s[i].size < t[j].start
  PROVE  /\ s \o t \in Seq(Block)
         /\ Len(s \o t) = Len(s) + Len(t)
         /\ \A k \in 1 .. Len(s) + Len(t) :
              \/ k \in 1 .. Len(s) /\ (s \o t)[k] = s[k]
              \/ k - Len(s) \in 1 .. Len(t) /\ (s \o t)[k] = t[k - Len(s)]
         /\ WellFormed(s \o t)
         /\ AddrsOf(s \o t) = AddrsOf(s) \cup AddrsOf(t)
<1> DEFINE q == s \o t
           n == Len(s)
           m == Len(t)
<1>1. /\ q \in Seq(Block) /\ Len(q) = n + m
      /\ \A k \in 1 .. n + m : q[k] = IF k <= n THEN s[k] ELSE t[k - n]
  BY ConcatProperties
<1>2. /\ n \in Nat /\ DOMAIN s = 1 .. n
      /\ \A i \in 1 .. n : /\ s[i].start \in Nat /\ s[i].size \in Nat /\ s[i].size > 0
                           /\ s[i].start + s[i].size <= Top
      /\ \A i, j \in 1 .. n : i < j => s[i].start + s[i].size < s[j].start
  BY ListFacts, LenProperties
<1>3. /\ m \in Nat /\ DOMAIN t = 1 .. m
      /\ \A i \in 1 .. m : /\ t[i].start \in Nat /\ t[i].size \in Nat /\ t[i].size > 0
                           /\ t[i].start + t[i].size <= Top
      /\ \A i, j \in 1 .. m : i < j => t[i].start + t[i].size < t[j].start
  BY ListFacts, LenProperties
<1>4. DOMAIN q = 1 .. n + m
  BY <1>1, LenProperties
<1>5. \A i \in 1 .. n, j \in 1 .. m : s[i].start + s[i].size < t[j].start
  OBVIOUS
<1> HIDE DEF q, n, m
<1>6. \A k \in 1 .. n + m : \/ k \in 1 .. n /\ q[k] = s[k]
                            \/ k - n \in 1 .. m /\ q[k] = t[k - n]
  <2> TAKE k \in 1 .. n + m
  <2>1. CASE k <= n
    BY <1>1, <1>2, <1>3, <2>1
  <2>2. CASE ~ (k <= n)
    BY <1>1, <1>2, <1>3, <2>2
  <2> QED
    BY <2>1, <2>2
<1>7. ASSUME NEW k \in 1 .. n + m
      PROVE  q[k].size > 0 /\ q[k].start + q[k].size <= Top
  BY <1>2, <1>3, <1>6
<1>8. ASSUME NEW j \in 1 .. n + m, NEW k \in 1 .. n + m, j < k
      PROVE  q[j].start + q[j].size < q[k].start
  <2>1. CASE k <= n
    <3>1. j \in 1 .. n /\ k \in 1 .. n /\ q[j] = s[j] /\ q[k] = s[k]
      BY <1>1, <1>2, <1>3, <1>8, <2>1
    <3> QED
      BY <1>2, <1>8, <3>1
  <2>2. CASE j <= n /\ ~ (k <= n)
    <3>1. j \in 1 .. n /\ k - n \in 1 .. m /\ q[j] = s[j] /\ q[k] = t[k - n]
      BY <1>1, <1>2, <1>3, <1>8, <2>2
    <3> QED
      BY <1>5, <3>1
  <2>3. CASE ~ (j <= n)
    <3>1. /\ j - n \in 1 .. m /\ k - n \in 1 .. m /\ j - n < k - n
          /\ q[j] = t[j - n] /\ q[k] = t[k - n]
      BY <1>1, <1>2, <1>3, <1>8, <2>3
    <3> QED
      BY <1>3, <3>1
  <2> QED
    BY <2>1, <2>2, <2>3
<1>9. WellFormed(q)
  BY <1>4, <1>7, <1>8 DEF WellFormed
<1>10. ASSUME NEW a
       PROVE  a \in AddrsOf(q) <=> a \in AddrsOf(s) \/ a \in AddrsOf(t)
  <2>1. a \in AddrsOf(q) <=> a \in Int /\ \E k \in 1 .. n + m :
                                q[k].start <= a /\ a < q[k].start + q[k].size
    BY <1>1, AddrsOfMember
  <2>2. a \in AddrsOf(s) <=> a \in Int /\ \E k \in 1 .. n :
                                s[k].start <= a /\ a < s[k].start + s[k].size
    BY AddrsOfMember DEF n
  <2>3. a \in AddrsOf(t) <=> a \in Int /\ \E k \in 1 .. m :
                                t[k].start <= a /\ a < t[k].start + t[k].size
    BY AddrsOfMember DEF m
  <2>4. \A k \in 1 .. n : k \in 1 .. n + m /\ q[k] = s[k]
    BY <1>1, <1>2, <1>3
  <2>5. \A k \in 1 .. m : n + k \in 1 .. n + m /\ q[n + k] = t[k]
    <3> TAKE k \in 1 .. m
    <3>1. n + k \in 1 .. n + m /\ ~ (n + k <= n) /\ (n + k) - n = k
      BY <1>2, <1>3
    <3> QED
      BY <1>1, <3>1
  <2> QED
    BY <1>6, <2>1, <2>2, <2>3, <2>4, <2>5
<1>11. AddrsOf(q) = AddrsOf(s) \cup AddrsOf(t)
  BY <1>10
<1> QED
  BY <1>1, <1>6, <1>9, <1>11 DEF q, n, m

(* What may stand in the list for block b: blocks of its own addresses. *)
Part(s, b) ==
  /\ s \in Seq(Block) /\ WellFormed(s)
  /\ \A j \in 1 .. Len(s) : /\ b.start <= s[j].start
                            /\ s[j].start + s[j].size <= b.start + b.size

(* A list in which each block is replaced by parts of it is well-formed and
   has the addresses of the parts; e is the number of blocks the first one is
   split into beyond itself. *)
LEMMA FlattenParts ==
  ASSUME NEW list \in Seq(Block), WellFormed(list), Len(list) # 0,
         NEW seqs, Len(seqs) = Len(list), NEW e \in Nat,
         \A i \in 1 .. Len(list) : /\ Part(seqs[i], list[i])
                                   /\ Len(seqs[i]) <= IF i = 1 THEN 1 + e ELSE 1
  PROVE  /\ FlattenSeq(seqs) \in Seq(Block)
         /\ WellFormed(FlattenSeq(seqs))
         /\ Len(FlattenSeq(seqs)) <= Len(list) + e
         /\ \A a : a \in AddrsOf(FlattenSeq(seqs)) <=>
                     \E i \in 1 .. Len(list) : a \in AddrsOf(seqs[i])
<1> DEFINE n == Len(list)
<1>1. /\ n \in Nat \ {0}
      /\ \A i \in 1 .. n : list[i].start \in Nat /\ list[i].size \in Nat
      /\ \A i, j \in 1 .. n : i < j => list[i].start + list[i].size < list[j].start
  BY ListFacts
<1>2. /\ Len(seqs) = n
      /\ \A i \in 1 .. n : /\ Part(seqs[i], list[i])
                           /\ Len(seqs[i]) <= IF i = 1 THEN 1 + e ELSE 1
  OBVIOUS
<1> HIDE DEF n
<1>3. PICK f : Joined(seqs, n, f) /\ FlattenSeq(seqs) = f[n]
  BY <1>1, <1>2, FlattenJoined
<1> DEFINE Pre(k) == /\ f[k] \in Seq(Block) /\ WellFormed(f[k])
                     /\ Len(f[k]) <= k + e
                     /\ \A j \in 1 .. Len(f[k]) :
                          f[k][j].start + f[k][j].size <= list[k].start + list[k].size
                     /\ \A a : a \in AddrsOf(f[k]) <=> \E i \in 1 .. k : a \in AddrsOf(seqs[i])
<1>4. ASSUME 1 \in 1 .. n PROVE Pre(1)
  <2>1. f[1] = seqs[1]
    BY <1>1, <1>3, <1>4, JoinedAt
  <2>2. Part(seqs[1], list[1]) /\ Len(seqs[1]) <= 1 + e
    BY <1>2, <1>4
  <2> QED
    BY <2>1, <2>2 DEF Part
<1>5. ASSUME NEW k \in 1 .. n, NEW m \in 1 .. n, k = m + 1, Pre(m)
      PROVE  Pre(k)
  <2> DEFINE s == f[m]
             t == seqs[k]
  <2>1. f[k] = s \o t
    <3>1. k # 1 /\ k - 1 = m
      BY <1>5
    <3>2. f[k] = IF k = 1 THEN seqs[k] ELSE f[k - 1] \o seqs[k]
      BY <1>1, <1>3, JoinedAt
    <3> QED
      BY <3>1, <3>2
  <2>2. /\ s \in Seq(Block) /\ WellFormed(s) /\ Len(s) \in Nat /\ Len(s) <= m + e
        /\ \A j \in 1 .. Len(s) : s[j].start + s[j].size <= list[m].start + list[m].size
        /\ \A j \in 1 .. Len(s) : s[j].start \in Nat /\ s[j].size \in Nat
        /\ \A a : a \in AddrsOf(s) <=> \E i \in 1 .. m : a \in AddrsOf(seqs[i])
    BY <1>5, ListFacts
  <2>3. /\ t \in Seq(Block) /\ WellFormed(t) /\ Len(t) \in Nat /\ Len(t) <= 1
        /\ \A j \in 1 .. Len(t) : /\ list[k].start <= t[j].start
                                  /\ t[j].start + t[j].size <= list[k].start + list[k].size
        /\ \A j \in 1 .. Len(t) : t[j].start \in Nat /\ t[j].size \in Nat
    <3>1. Part(t, list[k]) /\ Len(t) <= 1
      BY <1>2, <1>5
    <3> HIDE DEF t
    <3>2. t \in Seq(Block) /\ WellFormed(t)
      BY <3>1 DEF Part
    <3>3. Len(t) \in Nat /\ \A j \in 1 .. Len(t) : t[j].start \in Nat /\ t[j].size \in Nat
      BY <3>2, ListFacts
    <3> QED
      BY <3>1, <3>2, <3>3 DEF Part
  <2> DEFINE before == list[m].start + list[m].size
             from == list[k].start
             upto == list[k].start + list[k].size
  <2>4. before \in Nat /\ from \in Nat /\ upto \in Nat /\ before < from /\ from <= upto
    <3>1. /\ list[m].start \in Nat /\ list[m].size \in Nat
          /\ list[k].start \in Nat /\ list[k].size \in Nat /\ m < k
      <4>1. m \in 1 .. n /\ k \in 1 .. n /\ k = m + 1
        BY <1>5
      <4> HIDE DEF Pre
      <4>2. \A j \in 1 .. n : list[j].start \in Nat /\ list[j].size \in Nat
        BY <1>1
      <4>3. m < k
        BY <1>1, <4>1
      <4> QED
        BY <4>1, <4>2, <4>3
    <3>2. list[m].start + list[m].size < list[k].start
      BY <1>1, <3>1
    <3> DEFINE lm == list[m].start
               sm == list[m].size
               lk == list[k].start
               sk == list[k].size
    <3>3. /\ lm \in Nat /\ sm \in Nat /\ lk \in Nat /\ sk \in Nat /\ lm + sm < lk
          /\ before = lm + sm /\ from = lk /\ upto = lk + sk
      BY <3>1, <3>2
    <3> HIDE DEF lm, sm, lk, sk, before, from, upto
    <3> QED
      BY <3>3
  <2>5. /\ \A j \in 1 .. Len(s) : s[j].start + s[j].size <= before
        /\ \A j \in 1 .. Len(t) : from <= t[j].start /\ t[j].start + t[j].size <= upto
    BY <2>2, <2>3
  <2> HIDE DEF s, t, before, from
  <2>6. \A i \in 1 .. Len(s), j \in 1 .. Len(t) : s[i].start + s[i].size < t[j].start
    <3> TAKE i \in 1 .. Len(s), j \in 1 .. Len(t)
    <3> DEFINE x == s[i].start
               y == s[i].size
               z == t[j].start
    <3>1. /\ x \in Nat /\ y \in Nat /\ z \in Nat
          /\ x + y <= before /\ from <= z
      BY <2>2, <2>3, <2>5
    <3> HIDE DEF x, y, z
    <3>2. x + y < z
      BY <2>4, <3>1
    <3> QED
      BY <3>2 DEF x, y, z
  <2>7. /\ s \o t \in Seq(Block) /\ WellFormed(s \o t)
        /\ Len(s \o t) = Len(s) + Len(t)
        /\ \A j \in 1 .. Len(s) + Len(t) :
             \/ j \in 1 .. Len(s) /\ (s \o t)[j] = s[j]
             \/ j - Len(s) \in 1 .. Len(t) /\ (s \o t)[j] = t[j - Len(s)]
        /\ AddrsOf(s \o t) = AddrsOf(s) \cup AddrsOf(t)
    BY <2>2, <2>3, <2>6, ConcatLemma
  <2> DEFINE q == s \o t
  <2> HIDE DEF q, upto
  <2>8. \A j \in 1 .. Len(q) : q[j].start + q[j].size <= upto
    <3> TAKE j \in 1 .. Len(q)
    <3>1. CASE j \in 1 .. Len(s) /\ q[j] = s[j]
      <4> DEFINE x == s[j].start
                 y == s[j].size
      <4>1. x \in Nat /\ y \in Nat /\ x + y <= before
        BY <2>2, <2>5, <3>1
      <4> HIDE DEF x, y
      <4>2. x + y <= upto
        BY <2>4, <4>1
      <4> QED
        BY <3>1, <4>2 DEF x, y
    <3>2. CASE j - Len(s) \in 1 .. Len(t) /\ q[j] = t[j - Len(s)]
      BY <2>5, <3>2
    <3> QED
      BY <2>7, <3>1, <3>2 DEF q
  <2>9. Len(q) <= k + e
    BY <1>1, <1>5, <2>2, <2>3, <2>7 DEF q
  <2>10. \A a : a \in AddrsOf(q) <=> \E i \in 1 .. k : a \in AddrsOf(seqs[i])
    <3>1. 1 .. k = 1 .. m \cup {k}
      BY <1>1, <1>5
    <3> QED
      BY <2>2, <2>7, <3>1 DEF q, t
  <2> QED
    BY <2>1, <2>7, <2>8, <2>9, <2>10 DEF q, upto
<1> HIDE DEF Pre
<1>6. Pre(n)
  <2> DEFINE Bad == {k \in 1 .. n : ~ Pre(k)}
             k == FirstOf(Bad)
  <2> SUFFICES ASSUME Bad # {} PROVE FALSE
    BY <1>1
  <2>1. k \in Bad /\ \A j \in Bad : k <= j
    <3>1. Bad \subseteq Nat \ {0}
      BY <1>1
    <3> HIDE DEF Bad
    <3> QED
      BY <3>1, FirstOfLemma
  <2> HIDE DEF k
  <2>2. k \in 1 .. n /\ ~ Pre(k)
    BY <2>1
  <2>3. k # 1
    BY <1>1, <1>4, <2>2
  <2> DEFINE m == k - 1
  <2>4. m \in 1 .. n /\ k = m + 1
    BY <1>1, <2>2, <2>3
  <2> HIDE DEF m
  <2>5. Pre(m)
    <3>1. m \notin Bad
      BY <1>1, <2>1, <2>2, <2>4
    <3> QED
      BY <2>4, <3>1
  <2> QED
    BY <1>5, <2>2, <2>4, <2>5
<1> QED
  BY <1>3, <1>6 DEF Pre, n

-----------------------------------------------------------------------------
(* A supported call: no free block lies before the range, which ends within
   memory; no free address is so low that the size of what lies behind it is
   taken for a negative number. *)
SmallPool == \A a \in FreeAddrs : 2 * (Top - a) < AddrMod
Forced(start, size) ==
  /\ pool \in Seq(Block) /\ Coalesced /\ SmallPool
  /\ start \in Addr /\ size \in Addr /\ size # 0 /\ start + size <= Top
  /\ Supported(start, size)

(* The range of a supported call starts in the first block, if it reaches any. *)
LEMMA ReachedFirst ==
  ASSUME NEW start, NEW size, Forced(start, size), NEW i \in 1 .. Len(pool),
         pool[i].start < start + size
  PROVE  pool[1].start <= start /\ start < End(pool[1])
<1> DEFINE n == Len(pool)
           lo(j) == pool[j].start
           hi(j) == End(pool[j])
           end == start + size
<1>1. start \in Nat /\ size \in Nat /\ end \in Nat /\ start < end /\ n \in Nat /\ 1 \in 1 .. n
  <2>1. start \in Nat /\ size \in Nat /\ size # 0
    BY ArgumentTypes DEF Forced
  <2>2. n \in Nat
    BY LenProperties DEF Forced
  <2> QED
    BY <2>1, <2>2
<1>2. /\ \A j \in 1 .. n : lo(j) \in Nat /\ hi(j) \in Nat /\ lo(j) < hi(j)
      /\ \A j, k \in 1 .. n : j < k => hi(j) < lo(k)
  <2>1. \A j \in 1 .. n : /\ pool[j].start \in Nat /\ pool[j].size \in Nat /\ pool[j].size > 0
                          /\ End(pool[j]) = pool[j].start + pool[j].size
    BY PoolFacts DEF Forced
  <2>2. ASSUME NEW j \in 1 .. n PROVE lo(j) \in Nat /\ hi(j) \in Nat /\ lo(j) < hi(j)
    <3> DEFINE x == pool[j].start
               y == pool[j].size
    <3>1. x \in Nat /\ y \in Nat /\ y > 0 /\ lo(j) = x /\ hi(j) = x + y
      BY <2>1
    <3> HIDE DEF x, y, lo, hi
    <3> QED
      BY <3>1
  <2> QED
    BY <2>2, PoolFacts DEF Forced
<1>3. \A j \in 1 .. n : hi(j) > start
  BY PoolFacts DEF Forced, Supported
<1>4. ASSUME NEW a \in Int
      PROVE  a \in FreeAddrs <=> \E j \in 1 .. n : lo(j) <= a /\ a < hi(j)
  <2>1. \A j \in 1 .. n : End(pool[j]) = pool[j].start + pool[j].size
    BY PoolFacts DEF Forced
  <2> QED
    BY <2>1, AddrsOfMember DEF Forced, FreeAddrs
<1>5. start \in FreeAddrs \/ Interval(start, size) \cap FreeAddrs = {}
  BY DEF Forced, Supported
<1>6. \A a \in Int : a \in Interval(start, size) <=> start <= a /\ a < end
  BY <1>1 DEF Interval
<1>7. lo(i) < end
  OBVIOUS
<1> HIDE DEF n, lo, hi, end
<1>8. start \in FreeAddrs
  <2>1. CASE lo(i) <= start
    BY <1>1, <1>2, <1>3, <1>4, <2>1 DEF n
  <2>2. CASE start < lo(i)
    <3>1. lo(i) \in Interval(start, size)
      BY <1>2, <1>6, <1>7, <2>2, <1>1 DEF n
    <3>2. lo(i) \in FreeAddrs
      BY <1>2, <1>4 DEF n
    <3> QED
      BY <1>5, <3>1, <3>2
  <2> QED
    BY <1>1, <1>2, <2>1, <2>2 DEF n
<1>9. PICK j \in 1 .. n : lo(j) <= start /\ start < hi(j)
  BY <1>1, <1>4, <1>8
<1>10. j = 1
  <2> SUFFICES ASSUME 1 < j PROVE FALSE
    BY <1>1
  <2> QED
    BY <1>1, <1>2, <1>3, <1>9
<1> QED
  BY <1>9, <1>10 DEF lo, hi

(* What the conditions of the code come to for such a call. *)
LEMMA ForcedFacts ==
  ASSUME NEW start, NEW size, Forced(start, size), Len(pool) # 0
  PROVE  LET end == Plus(start, size)
         IN /\ end = start + size
            /\ \A i \in 1 .. Len(pool) : i \in Visited(start, end) <=> pool[i].start < end
            /\ \A i \in 1 .. Len(pool) : i > 1 /\ pool[i].start < end =>
                 End(pool[1]) < end /\ start < pool[i].start
            /\ pool[1].start < end => pool[1].start <= start /\ start < End(pool[1])
            /\ SplitsFirst(start, end) <=> pool[1].start < start /\ end < End(pool[1])
            /\ end < End(pool[1]) => RightSize(end) = End(pool[1]) - end
<1> DEFINE n == Len(pool)
           lo(j) == pool[j].start
           hi(j) == End(pool[j])
           end == Plus(start, size)
<1>1. /\ start \in Nat /\ size \in Nat /\ end \in Nat /\ start < end /\ end <= Top
      /\ end = start + size
      /\ n \in Nat /\ 1 \in 1 .. n
      /\ Top \in Nat /\ AddrMod \in Nat /\ Top < AddrMod
  <2>1. start \in Nat /\ size \in Nat /\ size # 0 /\ start + size <= Top
    BY ArgumentTypes DEF Forced
  <2>2. n \in Nat
    BY LenProperties DEF Forced
  <2>3. Top \in Nat /\ AddrMod \in Nat /\ Top < AddrMod
    BY FirstFitAssumption
  <2>4. end = start + size
    BY <2>1, <2>3 DEF Plus
  <2> HIDE DEF end
  <2> QED
    BY <2>1, <2>2, <2>3, <2>4
<1>2. /\ \A j \in 1 .. n : /\ lo(j) \in Nat /\ hi(j) \in Nat /\ lo(j) < hi(j)
                           /\ hi(j) <= Top
      /\ \A j, k \in 1 .. n : j < k => hi(j) < lo(k)
      /\ \A j \in 1 .. n : lo(j) \in FreeAddrs
  <2>1. \A j \in 1 .. n : /\ pool[j].start \in Nat /\ pool[j].size \in Nat /\ pool[j].size > 0
                          /\ End(pool[j]) = pool[j].start + pool[j].size
    BY PoolFacts DEF Forced
  <2>2. ASSUME NEW j \in 1 .. n
        PROVE  lo(j) \in Nat /\ hi(j) \in Nat /\ lo(j) < hi(j) /\ lo(j) \in FreeAddrs
    <3> DEFINE x == pool[j].start
               y == pool[j].size
    <3>1. x \in Nat /\ y \in Nat /\ y > 0 /\ lo(j) = x /\ hi(j) = x + y
      BY <2>1
    <3>2. x \in FreeAddrs <=> x \in Int /\ \E k \in 1 .. n : pool[k].start <= x /\ x < pool[k].start + pool[k].size
      BY AddrsOfMember DEF FreeAddrs, Forced
    <3>3. x < x + y /\ x <= x /\ x \in Int
      BY <3>1
    <3>4. pool[j].start <= x /\ x < pool[j].start + pool[j].size
      BY <3>3
    <3>5. x \in FreeAddrs
      BY <3>2, <3>3, <3>4
    <3> HIDE DEF x, y, lo, hi
    <3>6. lo(j) < hi(j) /\ hi(j) \in Nat
      BY <3>1
    <3> QED
      BY <3>1, <3>5, <3>6
  <2> QED
    BY <2>2, PoolFacts DEF Forced
<1>3. \A i \in 1 .. n : lo(i) < end => lo(1) <= start /\ start < hi(1)
  BY <1>1, ReachedFirst
<1>4. 2 * (Top - lo(1)) < AddrMod
  BY <1>1, <1>2 DEF Forced, SmallPool
<1>5. /\ DOMAIN pool = 1 .. n /\ pool # <<>>
      /\ \A i \in 1 .. n : Reaches(pool[i], start, end) <=>
           /\ lo(i) < end
           /\ \/ start = lo(i)
              \/ end = hi(i)
              \/ lo(i) < start /\ start < hi(i)
              \/ start < lo(i) /\ lo(i) < end
  <2>1. DOMAIN pool = 1 .. n /\ pool # <<>>
    BY LenProperties DEF Forced
  <2> QED
    BY <2>1 DEF Reaches, IsBetween
<1>6. RightSize(end) = IF end <= hi(1) THEN hi(1) - end ELSE hi(1) - end + AddrMod
  BY DEF RightSize, Minus
<1>7. SplitsFirst(start, end) <=>
        /\ Reaches(pool[1], start, end) /\ start # lo(1)
        /\ 0 < RightSize(end) /\ 2 * RightSize(end) < AddrMod
  BY <1>5 DEF SplitsFirst
<1>8. \A i \in 1 .. n : i \in Visited(start, end) <=>
        /\ \A j \in 1 .. i : Reaches(pool[j], start, end)
        /\ SplitsFirst(start, end) => i = 1
  BY <1>5 DEF Visited
<1> HIDE DEF lo, hi, end, n
<1>9. \A i \in 1 .. n : i > 1 /\ lo(i) < end => hi(1) < end /\ start < lo(i)
  BY <1>1, <1>2, <1>3
<1>10. \A i \in 1 .. n : Reaches(pool[i], start, end) <=> lo(i) < end
  <2> TAKE i \in 1 .. n
  <2>1. CASE i = 1
    BY <1>1, <1>2, <1>3, <1>5, <2>1
  <2>2. CASE i # 1
    BY <1>1, <1>2, <1>3, <1>5, <1>9, <2>2
  <2> QED
    BY <2>1, <2>2
<1>11. SplitsFirst(start, end) <=> lo(1) < start /\ end < hi(1)
  <2> DEFINE l == lo(1)
             h == hi(1)
             r == RightSize(end)
  <2>1. /\ l \in Nat /\ h \in Nat /\ l < h /\ h <= Top /\ 2 * (Top - l) < AddrMod
        /\ l < end => l <= start /\ start < h
        /\ r = IF end <= h THEN h - end ELSE h - end + AddrMod
        /\ SplitsFirst(start, end) <=> l < end /\ start # l /\ 0 < r /\ 2 * r < AddrMod
    BY <1>1, <1>2, <1>3, <1>4, <1>6, <1>7, <1>10
  <2> HIDE DEF l, h, r
  <2>2. SplitsFirst(start, end) <=> l < start /\ end < h
    <3>1. CASE end <= h
      BY <1>1, <2>1, <3>1
    <3>2. CASE ~ (end <= h)
      BY <1>1, <2>1, <3>2
    <3> QED
      BY <3>1, <3>2
  <2> QED
    BY <2>2 DEF l, h
<1>12. end < hi(1) => RightSize(end) = hi(1) - end
  BY <1>1, <1>2, <1>6
<1>13. ASSUME NEW i \in 1 .. n PROVE i \in Visited(start, end) <=> lo(i) < end
  <2>1. ASSUME lo(i) < end PROVE i \in Visited(start, end)
    <3>1. ASSUME NEW j \in 1 .. i PROVE Reaches(pool[j], start, end)
      <4>1. j \in 1 .. n /\ (j < i \/ j = i)
        BY <1>1
      <4>2. lo(j) < end
        BY <1>1, <1>2, <2>1, <4>1
      <4> QED
        BY <1>10, <4>1, <4>2
    <3>2. SplitsFirst(start, end) => i = 1
      BY <1>1, <1>2, <1>9, <1>11, <2>1
    <3> QED
      BY <1>8, <3>1, <3>2
  <2>2. ASSUME i \in Visited(start, end) PROVE lo(i) < end
    <3>1. i \in 1 .. i
      BY <1>1
    <3> QED
      BY <1>8, <1>10, <2>2, <3>1
  <2> QED
    BY <2>1, <2>2
<1>14. lo(1) < end => lo(1) <= start /\ start < hi(1)
  BY <1>1, <1>3
<1> QED
  BY <1>1, <1>9, <1>11, <1>12, <1>13, <1>14 DEF lo, hi, end, n

-----------------------------------------------------------------------------
(* Lists of no block, of one and of two. *)
LEMMA NoBlock ==
  <<>> \in Seq(Block) /\ Len(<<>>) = 0 /\ WellFormed(<<>>) /\ AddrsOf(<<>>) = {}
<1>1. <<>> \in Seq(Block) /\ Len(<<>>) = 0 /\ DOMAIN <<>> = {}
  OBVIOUS
<1> QED
  BY <1>1 DEF WellFormed, AddrsOf

LEMMA OneBlock ==
  ASSUME NEW x \in Nat, NEW y \in Nat, y > 0, x + y <= Top
  PROVE  LET s == << [start |-> x, size |-> y] >>
         IN /\ s \in Seq(Block) /\ Len(s) = 1
            /\ s[1].start = x /\ s[1].size = y
            /\ WellFormed(s)
            /\ AddrsOf(s) = Interval(x, y)
<1> DEFINE b == [start |-> x, size |-> y]
           s == << b >>
<1>1. b.start = x /\ b.size = y
  OBVIOUS
<1>2. b \in Block
  <2>1. x \in Addr /\ y \in Addr
    BY FirstFitAssumption DEF Addr
  <2> QED
    BY <2>1 DEF Block
<1> HIDE DEF b
<1>3. s \in Seq(Block) /\ Len(s) = 1 /\ s[1] = b /\ DOMAIN s = {1}
  BY <1>2
<1> HIDE DEF s
<1>4. WellFormed(s)
  BY <1>1, <1>3 DEF WellFormed
<1>5. AddrsOf(s) = Interval(x, y)
  BY <1>1, <1>3 DEF AddrsOf
<1> QED
  BY <1>1, <1>3, <1>4, <1>5 DEF s, b

LEMMA TwoBlocks ==
  ASSUME NEW x \in Nat, NEW y \in Nat, NEW u \in Nat, NEW v \in Nat,
         y > 0, v > 0, x + y < u, u + v <= Top
  PROVE  LET s == << [start |-> x, size |-> y], [start |-> u, size |-> v] >>
         IN /\ s \in Seq(Block) /\ Len(s) = 2
            /\ s[1].start = x /\ s[1].size = y /\ s[2].start = u /\ s[2].size = v
            /\ WellFormed(s)
            /\ AddrsOf(s) = Interval(x, y) \cup Interval(u, v)
<1> DEFINE b == [start |-> x, size |-> y]
           c == [start |-> u, size |-> v]
           s == << b, c >>
<1>1. b.start = x /\ b.size = y /\ c.start = u /\ c.size = v
  OBVIOUS
<1>2. b \in Block /\ c \in Block /\ x + y <= Top
  <2>1. x \in Addr /\ y \in Addr /\ u \in Addr /\ v \in Addr /\ x + y <= Top
    BY FirstFitAssumption DEF Addr
  <2> QED
    BY <2>1 DEF Block
<1> HIDE DEF b, c
<1>3. s \in Seq(Block) /\ Len(s) = 2 /\ s[1] = b /\ s[2] = c /\ DOMAIN s = {1, 2}
  <2>1. s \in Seq(Block) /\ Len(s) = 2 /\ s[1] = b /\ s[2] = c
    BY <1>2
  <2>2. DOMAIN s = 1 .. 2
    BY <2>1, LenProperties
  <2>3. 1 .. 2 = {1, 2}
    OBVIOUS
  <2> HIDE DEF s
  <2> QED
    BY <2>1, <2>2, <2>3
<1> HIDE DEF s
<1>4. WellFormed(s)
  <2>1. \A i \in DOMAIN s : s[i].size > 0 /\ s[i].start + s[i].size <= Top
    BY <1>1, <1>2, <1>3
  <2>2. \A i, j \in DOMAIN s : i < j => i = 1 /\ j = 2
    BY <1>3
  <2> QED
    BY <1>1, <1>3, <2>1, <2>2 DEF WellFormed
<1>5. AddrsOf(s) = Interval(x, y) \cup Interval(u, v)
  BY <1>1, <1>3 DEF AddrsOf
<1> QED
  BY <1>1, <1>3, <1>4, <1>5 DEF s, b, c

-----------------------------------------------------------------------------
(* Of every block, what lies outside of the range stays, and no more. *)
LEMMA KeptParts ==
  ASSUME NEW start, NEW size, Forced(start, size), NEW i \in 1 .. Len(pool)
  PROVE  LET end == Plus(start, size)
             kept == Kept(i, start, end)
         IN /\ Part(kept, pool[i])
            /\ Len(kept) <= IF i = 1 /\ SplitsFirst(start, end) THEN 2 ELSE 1
            /\ \A a : a \in AddrsOf(kept) <=>
                        a \in Interval(pool[i].start, pool[i].size) /\ a \notin Interval(start, size)
<1> DEFINE end == Plus(start, size)
           b == pool[i]
           kept == Kept(i, start, end)
           x == b.start
           y == b.size
<1>0. Len(pool) \in Nat /\ 1 \in 1 .. Len(pool) /\ i \in 1 .. Len(pool)
      /\ Len(pool) # 0 /\ DOMAIN pool = 1 .. Len(pool)
  <2>1. Len(pool) \in Nat /\ DOMAIN pool = 1 .. Len(pool)
    BY LenProperties DEF Forced
  <2> QED
    BY <2>1
<1>1. start \in Nat /\ size \in Nat /\ end = start + size /\ start < end /\ end \in Nat
  <2>1. start \in Nat /\ size \in Nat /\ size # 0
    BY ArgumentTypes DEF Forced
  <2>2. end = start + size
    BY <1>0, ForcedFacts
  <2> HIDE DEF end
  <2> QED
    BY <2>1, <2>2
<1>2. x \in Nat /\ y \in Nat /\ y > 0 /\ End(b) = x + y /\ x + y <= Top
      /\ b = [start |-> x, size |-> y]
  <2>1. b \in Block /\ b.start \in Nat /\ b.size \in Nat /\ b.size > 0
        /\ End(b) = b.start + b.size /\ End(b) <= Top
    BY PoolFacts DEF Forced
  <2>2. b = [start |-> b.start, size |-> b.size]
    BY <2>1 DEF Block
  <2> QED
    BY <2>1, <2>2
<1>3. i \in Visited(start, end) <=> x < end
  BY <1>0, ForcedFacts
<1>4. i > 1 /\ x < end => start < x /\ ~ SplitsFirst(start, end)
  <2>1. i > 1 /\ x < end => End(pool[1]) < end /\ start < x
    BY <1>0, ForcedFacts
  <2>2. SplitsFirst(start, end) => end < End(pool[1])
    BY <1>0, ForcedFacts
  <2>3. End(pool[1]) \in Nat
    BY <1>0, PoolFacts DEF Forced
  <2> HIDE DEF end, x
  <2> QED
    BY <1>1, <2>1, <2>2, <2>3
<1>5. i = 1 /\ x < end => x <= start /\ start < x + y
  BY <1>0, <1>2, ForcedFacts
<1>6. i = 1 => /\ SplitsFirst(start, end) <=> x < start /\ end < End(b)
               /\ end < End(b) => RightSize(end) = End(b) - end
  BY <1>0, ForcedFacts
<1>7. \A a : /\ a \in Interval(x, y) <=> a \in Int /\ x <= a /\ a < x + y
             /\ a \in Interval(start, size) <=> a \in Int /\ start <= a /\ a < end
  <2> HIDE DEF x, y, end
  <2> QED
    BY <1>1, <1>2 DEF Interval
<1>8. Minus(end, x) = IF x <= end THEN end - x ELSE end - x + AddrMod
  BY DEF Minus
<1> DEFINE Goal == /\ Part(kept, b)
                   /\ Len(kept) <= IF i = 1 /\ SplitsFirst(start, end) THEN 2 ELSE 1
                   /\ \A a : a \in AddrsOf(kept) <=> a \in Interval(x, y) /\ a \notin Interval(start, size)
<1> SUFFICES Goal
  OBVIOUS
<1>p. ASSUME NEW s \in Seq(Block), WellFormed(s),
             \A j \in 1 .. Len(s) : x <= s[j].start /\ s[j].start + s[j].size <= x + y
      PROVE  Part(s, b)
  BY <1>p DEF Part
<1>9. CASE i \notin Visited(start, end)
  <2>1. kept = << [start |-> x, size |-> y] >>
    BY <1>2, <1>9 DEF Kept
  <2> HIDE DEF x, y, b, kept, end
  <2>2. /\ kept \in Seq(Block) /\ Len(kept) = 1 /\ WellFormed(kept)
        /\ kept[1].start = x /\ kept[1].size = y
        /\ AddrsOf(kept) = Interval(x, y)
    BY <1>2, <2>1, OneBlock
  <2>3. Part(kept, b)
    <3>1. \A j \in 1 .. Len(kept) : x <= kept[j].start /\ kept[j].start + kept[j].size <= x + y
      BY <1>2, <2>2
    <3> QED
      BY <1>p, <2>2, <3>1
  <2>4. \A a : a \in AddrsOf(kept) <=> a \in Interval(x, y) /\ a \notin Interval(start, size)
    BY <1>1, <1>2, <1>3, <1>7, <1>9, <2>2
  <2> QED
    BY <2>2, <2>3, <2>4 DEF Goal
<1>10. CASE i \in Visited(start, end) /\ (i > 1 \/ start = x)
  <2>1. kept = IF y <= Minus(end, x) THEN <<>> ELSE << [start |-> end, size |-> y - Minus(end, x)] >>
    BY <1>10 DEF Kept, KeepBehind
  <2> HIDE DEF x, y, b, kept, end
  <2>2. x < end /\ start <= x /\ Minus(end, x) = end - x
    BY <1>1, <1>2, <1>3, <1>4, <1>8, <1>10
  <2>3. CASE y <= end - x
    <3>1. kept = <<>>
      BY <2>1, <2>2, <2>3
    <3>2. \A a : ~ (a \in Interval(x, y) /\ a \notin Interval(start, size))
      BY <1>1, <1>2, <1>7, <2>2, <2>3
    <3>3. Part(kept, b) /\ Len(kept) = 0 /\ AddrsOf(kept) = {}
      BY <3>1, NoBlock DEF Part
    <3> QED
      BY <3>2, <3>3 DEF Goal
  <2>4. CASE ~ (y <= end - x)
    <3> DEFINE z == y - (end - x)
    <3>1. z \in Nat /\ z > 0 /\ end + z = x + y
      BY <1>1, <1>2, <2>2, <2>4
    <3>2. kept = << [start |-> end, size |-> z] >>
      BY <2>1, <2>2, <2>4
    <3> HIDE DEF z
    <3>3. /\ kept \in Seq(Block) /\ Len(kept) = 1 /\ WellFormed(kept)
          /\ kept[1].start = end /\ kept[1].size = z
          /\ AddrsOf(kept) = Interval(end, z)
      BY <1>1, <1>2, <3>1, <3>2, OneBlock
    <3>4. Part(kept, b)
      <4>1. \A j \in 1 .. Len(kept) : x <= kept[j].start /\ kept[j].start + kept[j].size <= x + y
        BY <1>1, <1>2, <2>2, <3>1, <3>3
      <4> QED
        BY <1>p, <3>3, <4>1
    <3>5. \A a : a \in AddrsOf(kept) <=> a \in Interval(x, y) /\ a \notin Interval(start, size)
      <4>1. \A a : a \in Interval(end, z) <=> a \in Int /\ end <= a /\ a < x + y
        BY <1>1, <3>1 DEF Interval
      <4> QED
        BY <1>1, <1>2, <1>7, <2>2, <3>3, <4>1
    <3> QED
      BY <3>3, <3>4, <3>5 DEF Goal
  <2> QED
    BY <2>3, <2>4
<1>11. CASE i \in Visited(start, end) /\ i = 1 /\ start # x /\ SplitsFirst(start, end)
  <2>1. kept = << [start |-> x, size |-> Minus(y, Plus(Minus(end, start), RightSize(end)))],
                  [start |-> end, size |-> RightSize(end)] >>
    BY <1>11 DEF Kept, KeepAround, WithSize
  <2> HIDE DEF x, y, b, kept, end
  <2>2. x < start /\ end < x + y /\ RightSize(end) = x + y - end
    BY <1>1, <1>2, <1>6, <1>11
  <2> DEFINE u == start - x
             v == x + y - end
  <2>3. u \in Nat /\ u > 0 /\ v \in Nat /\ v > 0 /\ x + u = start /\ end + v = x + y
    BY <1>1, <1>2, <2>2
  <2>4. Minus(end, start) = size
    BY <1>1 DEF Minus
  <2>5. Plus(size, v) = size + v
    BY <1>1, <1>2, <2>3, FirstFitAssumption DEF Plus
  <2>6. Minus(y, size + v) = u
    BY <1>1, <1>2, <2>2 DEF Minus
  <2>7. kept = << [start |-> x, size |-> u], [start |-> end, size |-> v] >>
    BY <2>1, <2>2, <2>4, <2>5, <2>6
  <2> HIDE DEF u, v
  <2>8. /\ kept \in Seq(Block) /\ Len(kept) = 2 /\ WellFormed(kept)
        /\ kept[1].start = x /\ kept[1].size = u /\ kept[2].start = end /\ kept[2].size = v
        /\ AddrsOf(kept) = Interval(x, u) \cup Interval(end, v)
    <3>1. /\ x \in Nat /\ u \in Nat /\ end \in Nat /\ v \in Nat
          /\ u > 0 /\ v > 0 /\ x + u < end /\ end + v <= Top
      BY <1>1, <1>2, <2>3
    <3> DEFINE s == << [start |-> x, size |-> u], [start |-> end, size |-> v] >>
    <3>2. /\ s \in Seq(Block) /\ Len(s) = 2
          /\ s[1].start = x /\ s[1].size = u /\ s[2].start = end /\ s[2].size = v
          /\ WellFormed(s)
          /\ AddrsOf(s) = Interval(x, u) \cup Interval(end, v)
      BY <3>1, TwoBlocks
    <3>3. kept = s
      BY <2>7
    <3> HIDE DEF s
    <3> QED
      BY <3>2, <3>3
  <2>9. Part(kept, b)
    <3>1. \A j \in 1 .. Len(kept) : j = 1 \/ j = 2
      BY <2>8
    <3>2. \A j \in 1 .. Len(kept) : x <= kept[j].start /\ kept[j].start + kept[j].size <= x + y
      BY <1>1, <1>2, <2>2, <2>3, <2>8, <3>1
    <3> QED
      BY <1>p, <2>8, <3>2
  <2>10. \A a : a \in AddrsOf(kept) <=> a \in Interval(x, y) /\ a \notin Interval(start, size)
    <3>1. \A a : /\ a \in Interval(x, u) <=> a \in Int /\ x <= a /\ a < start
                 /\ a \in Interval(end, v) <=> a \in Int /\ end <= a /\ a < x + y
      BY <1>1, <1>2, <2>3 DEF Interval
    <3> QED
      BY <1>1, <1>2, <1>7, <2>2, <2>8, <3>1
  <2> QED
    BY <1>11, <2>8, <2>9, <2>10 DEF Goal
<1>12. CASE i \in Visited(start, end) /\ i = 1 /\ start # x /\ ~ SplitsFirst(start, end)
  <2>1. kept = << [start |-> x, size |-> Minus(start, x)] >>
    BY <1>12 DEF Kept, KeepBefore, WithSize
  <2> HIDE DEF x, y, b, kept, end
  <2>2. x < start /\ start < x + y /\ ~ (end < x + y)
    BY <1>1, <1>2, <1>3, <1>5, <1>6, <1>12
  <2> DEFINE u == start - x
  <2>3. u \in Nat /\ u > 0 /\ x + u = start /\ Minus(start, x) = u
    BY <1>1, <1>2, <2>2 DEF Minus
  <2> HIDE DEF u
  <2>4. /\ kept \in Seq(Block) /\ Len(kept) = 1 /\ WellFormed(kept)
        /\ kept[1].start = x /\ kept[1].size = u
        /\ AddrsOf(kept) = Interval(x, u)
    <3>1. x + u <= Top /\ Top \in Nat
      BY <1>1, <1>2, <2>2, <2>3, FirstFitAssumption
    <3> QED
      BY <1>2, <2>1, <2>3, <3>1, OneBlock
  <2>5. Part(kept, b)
    <3>1. \A j \in 1 .. Len(kept) : x <= kept[j].start /\ kept[j].start + kept[j].size <= x + y
      BY <1>1, <1>2, <2>2, <2>3, <2>4
    <3> QED
      BY <1>p, <2>4, <3>1
  <2>6. \A a : a \in AddrsOf(kept) <=> a \in Interval(x, y) /\ a \notin Interval(start, size)
    <3>1. \A a : a \in Interval(x, u) <=> a \in Int /\ x <= a /\ a < start
      BY <1>1, <1>2, <2>3 DEF Interval
    <3> QED
      BY <1>1, <1>2, <1>7, <2>2, <2>4, <3>1
  <2> QED
    BY <1>12, <2>4, <2>5, <2>6 DEF Goal
<1> QED
  BY <1>0, <1>9, <1>10, <1>11, <1>12

(* The list that the loop leaves behind. *)
Remaining(start, end) == FlattenSeq([i \in DOMAIN pool |-> Kept(i, start, end)])

LEMMA SequenceOf ==
  ASSUME NEW S, NEW n \in Nat, NEW f \in [1 .. n -> S]
  PROVE  f \in Seq(S) /\ Len(f) = n
<1>1. f \in Seq(S)
  BY SeqDef
<1>2. DOMAIN f = 1 .. Len(f) /\ Len(f) \in Nat /\ DOMAIN f = 1 .. n
  BY <1>1, LenProperties
<1> QED
  BY <1>1, <1>2

LEMMA RemainingLemma ==
  ASSUME NEW start, NEW size, Forced(start, size)
  PROVE  LET end == Plus(start, size)
             q == Remaining(start, end)
         IN /\ q \in Seq(Block) /\ WellFormed(q)
            /\ Len(q) <= Len(pool) + IF SplitsFirst(start, end) THEN 1 ELSE 0
            /\ AddrsOf(q) = FreeAddrs \ Interval(start, size)
<1> DEFINE end == Plus(start, size)
           n == Len(pool)
           seqs == [i \in 1 .. n |-> Kept(i, start, end)]
           q == Remaining(start, end)
<1>1. pool \in Seq(Block) /\ WellFormed(pool) /\ n \in Nat /\ DOMAIN pool = 1 .. n
  BY LenProperties DEF Forced, Coalesced
<1>2. q = FlattenSeq(seqs)
  BY <1>1 DEF Remaining
<1>3. CASE n = 0
  <2>1. seqs \in [1 .. n -> Block]
    BY <1>3
  <2>2. seqs \in Seq(Block) /\ Len(seqs) = 0
    BY <1>1, <1>3, <2>1, SequenceOf
  <2>3. seqs = <<>> /\ pool = <<>>
    BY <1>1, <1>3, <2>2, EmptySeq
  <2>4. q = pool
    BY <1>2, <2>2, <2>3 DEF FlattenSeq
  <2>5. ~ SplitsFirst(start, end) /\ FreeAddrs = {}
    BY <2>3, NoBlock DEF SplitsFirst, FreeAddrs
  <2> HIDE DEF q, n, end
  <2>6. AddrsOf(q) = FreeAddrs \ Interval(start, size)
    BY <2>4, <2>5 DEF FreeAddrs
  <2>7. Len(q) <= n + 0
    BY <1>1, <2>4 DEF n
  <2> QED
    BY <1>1, <2>4, <2>5, <2>6, <2>7 DEF q, n, end
<1>4. CASE n # 0
  <2> DEFINE e == IF SplitsFirst(start, end) THEN 1 ELSE 0
  <2>1. \A i \in 1 .. n :
          /\ Part(Kept(i, start, end), pool[i])
          /\ Len(Kept(i, start, end)) <= IF i = 1 /\ SplitsFirst(start, end) THEN 2 ELSE 1
          /\ \A a : a \in AddrsOf(Kept(i, start, end)) <=>
                      a \in Interval(pool[i].start, pool[i].size) /\ a \notin Interval(start, size)
    BY KeptParts
  <2>2. seqs \in [1 .. n -> Seq(Block)]
    BY <2>1 DEF Part
  <2>3. Len(seqs) = n
    BY <1>1, <2>2, SequenceOf
  <2>4. \A i \in 1 .. n : seqs[i] = Kept(i, start, end)
    OBVIOUS
  <2>5. e \in Nat
    OBVIOUS
  <2>6. \A i \in 1 .. n : /\ Part(seqs[i], pool[i])
                          /\ Len(seqs[i]) <= IF i = 1 THEN 1 + e ELSE 1
    <3> TAKE i \in 1 .. n
    <3>1. Part(seqs[i], pool[i]) /\ Len(seqs[i]) <= IF i = 1 /\ SplitsFirst(start, end) THEN 2 ELSE 1
      BY <2>1, <2>4
    <3>2. (IF i = 1 /\ SplitsFirst(start, end) THEN 2 ELSE 1) = IF i = 1 THEN 1 + e ELSE 1
      OBVIOUS
    <3> QED
      BY <3>1, <3>2
  <2> HIDE DEF seqs, e, end, q
  <2>7. /\ q \in Seq(Block) /\ WellFormed(q) /\ Len(q) <= n + e
        /\ \A a : a \in AddrsOf(q) <=> \E i \in 1 .. n : a \in AddrsOf(seqs[i])
    BY <1>1, <1>2, <1>4, <2>3, <2>5, <2>6, FlattenParts
  <2>8. \A a : a \in FreeAddrs <=> \E i \in 1 .. n : a \in Interval(pool[i].start, pool[i].size)
    BY <1>1 DEF FreeAddrs, AddrsOf
  <2>9. AddrsOf(q) = FreeAddrs \ Interval(start, size)
    BY <2>1, <2>4, <2>7, <2>8
  <2> QED
    BY <2>7, <2>9 DEF q, end, e
<1> QED
  BY <1>3, <1>4

(* Where the header for the right part is missing, the first block has been
   shortened already when the core stops. *)
LEMMA ShortenedLemma ==
  ASSUME NEW start, NEW size, Forced(start, size), SplitsFirst(start, Plus(start, size))
  PROVE  LET q == [pool EXCEPT ![1] = Head(KeepAround(@, start, Plus(start, size)))]
         IN q \in Seq(Block) /\ WellFormed(q) /\ Len(q) = Len(pool)
<1> DEFINE end == Plus(start, size)
           kept == Kept(1, start, end)
<1>1. pool \in Seq(Block) /\ WellFormed(pool) /\ Len(pool) \in Nat /\ Len(pool) # 0
  BY LenProperties, EmptySeq DEF Forced, Coalesced, SplitsFirst
<1>2. 1 \in 1 .. Len(pool)
  BY <1>1
<1>3. kept = KeepAround(pool[1], start, end)
  <2>1. pool[1].start < start /\ end < End(pool[1]) /\ end = start + size
    BY <1>1, ForcedFacts
  <2>2. 1 \in Visited(start, end)
    <3>1. start \in Nat /\ size \in Nat /\ pool[1].start \in Nat
      BY <1>2, ArgumentTypes, PoolFacts DEF Forced
    <3>2. pool[1].start < start + size
      BY <2>1, <3>1
    <3> QED
      BY <1>1, <1>2, <2>1, <3>2, ForcedFacts
  <2>3. start # pool[1].start
    BY DEF SplitsFirst
  <2> QED
    BY <2>2, <2>3 DEF Kept
<1>4. kept \in Seq(Block) /\ WellFormed(kept) /\ Part(kept, pool[1])
  BY <1>2, KeptParts DEF Part
<1>5. Len(kept) = 2 /\ Head(kept) = kept[1]
  BY <1>3 DEF KeepAround
<1> HIDE DEF kept
<1> DEFINE b == kept[1]
<1>6. /\ b \in Block /\ b.start \in Nat /\ b.size \in Nat /\ b.size > 0
      /\ b.start + b.size <= Top
      /\ b.start + b.size <= pool[1].start + pool[1].size
  <2>1. 1 \in 1 .. Len(kept)
    BY <1>5
  <2> QED
    BY <1>4, <2>1, ListFacts DEF Part
<1>7. Between(pool, 1, b, 2)
  <2>1. \A k \in 1 .. Len(pool) : ~ (k < 1)
    BY <1>1
  <2>2. ASSUME NEW k \in 1 .. Len(pool), k >= 2
        PROVE  b.start + b.size < pool[k].start
    <3> DEFINE u == b.start
               v == b.size
               x == pool[1].start
               y == pool[1].size
               z == pool[k].start
    <3>1. /\ u \in Nat /\ v \in Nat /\ x \in Nat /\ y \in Nat /\ z \in Nat
          /\ u + v <= x + y /\ x + y < z
      BY <1>1, <1>2, <1>6, <2>2, ListFacts
    <3> HIDE DEF u, v, x, y, z
    <3>2. u + v < z
      BY <3>1
    <3> QED
      BY <3>2 DEF u, v, z
  <2> QED
    BY <1>6, <2>1, <2>2 DEF Between
<1>8. [pool EXCEPT ![1] = Head(KeepAround(@, start, end))] = [pool EXCEPT ![1] = b]
  BY <1>2, <1>3, <1>5
<1> HIDE DEF b
<1>9. LET q == [pool EXCEPT ![1] = b]
      IN q \in Seq(Block) /\ WellFormed(q) /\ Len(q) = Len(pool)
  <2> DEFINE i == 1
             q == [pool EXCEPT ![i] = b]
  <2>1. i \in 1 .. Len(pool) /\ Between(pool, i, b, i + 1)
    BY <1>2, <1>7
  <2> HIDE DEF i
  <2>2. q \in Seq(Block) /\ WellFormed(q) /\ Len(q) = Len(pool)
    BY <1>1, <2>1, ReplaceLemma
  <2> QED
    BY <2>2 DEF i
<1> QED
  BY <1>8, <1>9

-----------------------------------------------------------------------------
(* firstfit_force_alloc takes the range, whatever of it is free, or stops the
   core with the list still in order. *)
LEMMA ForceAllocPool ==
  ASSUME PoolInv, SmallPool, NEW start \in Addr, NEW size \in Addr, start + size <= Top,
         Supported(start, size), ForceAlloc(start, size)
  PROVE  /\ managed' = managed
         /\ \/ /\ reply'.op = "force" /\ reply'.arg = start /\ reply'.size = size
               /\ PoolInv'
               /\ heap' + Len(pool') <= heap + Len(pool)
               /\ FreeAddrs' = FreeAddrs \ Interval(start, size)
               /\ held' = held \cup (Interval(start, size) \cap managed)
            \/ /\ reply'.op = "hung"
               /\ pool' \in Seq(Block) /\ Coalesced'
               /\ heap' = 0 /\ Len(pool') = Len(pool)
<1> DEFINE end == Plus(start, size)
<1>0. /\ pool \in Seq(Block) /\ heap \in Nat /\ Len(pool) \in Nat
      /\ held \subseteq 0 .. Top /\ managed \subseteq 0 .. Top
      /\ Coalesced /\ Isolated /\ Conserved
      /\ start \in Nat /\ size \in Nat
  BY LenProperties, ArgumentTypes DEF PoolInv
<1>1. CASE /\ size = 0
           /\ UNCHANGED <<pool, heap, held>>
           /\ Answer("force", start, size, TRUE, Null)
  <2>1. Interval(start, size) = {}
    BY <1>0, <1>1 DEF Interval
  <2>2. managed' = managed
    BY DEF ForceAlloc
  <2>3. FreeAddrs' = FreeAddrs /\ PoolInv'
    BY <1>0, <1>1, <2>2 DEF PoolInv, FreeAddrs, Coalesced, Isolated, Conserved
  <2> QED
    BY <1>0, <1>1, <2>1, <2>2, <2>3 DEF Answer
<1>2. CASE /\ size # 0 /\ pool' = Remaining(start, end)
           /\ heap' \in Nat /\ heap' + Len(pool') <= heap + Len(pool)
           /\ Claim(start, size) /\ Answer("force", start, size, TRUE, Null)
  <2>1. Forced(start, size)
    BY <1>0, <1>2 DEF Forced
  <2>2. /\ pool' \in Seq(Block) /\ WellFormed(pool')
        /\ AddrsOf(pool') = FreeAddrs \ Interval(start, size)
    BY <1>2, <2>1, RemainingLemma
  <2>3. managed' = managed /\ held' = held \cup (Interval(start, size) \cap managed)
    BY <1>2 DEF ForceAlloc, Claim
  <2>4. PoolInv' /\ FreeAddrs' = FreeAddrs \ Interval(start, size)
    BY <1>0, <1>2, <2>2, <2>3 DEF PoolInv, FreeAddrs, Coalesced, Isolated, Conserved
  <2> QED
    BY <1>2, <2>3, <2>4 DEF Answer
<1>3. CASE /\ size # 0 /\ ~ SplitsFirst(start, end)
           /\ pool' = Remaining(start, end)
           /\ heap' = heap + Len(pool) - Len(pool')
           /\ Claim(start, size)
           /\ Answer("force", start, size, TRUE, Null)
  <2>1. Forced(start, size)
    BY <1>0, <1>3 DEF Forced
  <2>2. Len(pool') \in Nat /\ Len(pool') <= Len(pool) + 0
    BY <1>3, <2>1, RemainingLemma, LenProperties
  <2>3. heap' \in Nat /\ heap' + Len(pool') <= heap + Len(pool)
    BY <1>0, <1>3, <2>2
  <2> QED
    BY <1>2, <1>3, <2>3
<1>4. CASE /\ size # 0 /\ SplitsFirst(start, end) /\ heap >= HeadersForSplit
           /\ pool' = Remaining(start, end)
           /\ heap' = heap - HeadersForSplit
           /\ Claim(start, size)
           /\ Answer("force", start, size, TRUE, Null)
  <2>1. Forced(start, size)
    BY <1>0, <1>4 DEF Forced
  <2>2. Len(pool') \in Nat /\ Len(pool') <= Len(pool) + 1
    BY <1>4, <2>1, RemainingLemma, LenProperties
  <2>3. heap' \in Nat /\ heap' + Len(pool') <= heap + Len(pool)
    BY <1>0, <1>4, <2>2 DEF HeadersForSplit
  <2> QED
    BY <1>2, <1>4, <2>3
<1>5. CASE /\ size # 0 /\ SplitsFirst(start, end)
           /\ pool' = [pool EXCEPT ![1] = Head(KeepAround(@, start, end))]
           /\ heap' = 0
           /\ Answer("hung", start, size, FALSE, Null)
  <2>1. Forced(start, size)
    BY <1>0, <1>5 DEF Forced
  <2>2. pool' \in Seq(Block) /\ WellFormed(pool') /\ Len(pool') = Len(pool)
    BY <1>5, <2>1, ShortenedLemma
  <2> QED
    BY <1>5, <2>2 DEF ForceAlloc, Answer, Coalesced
<1> QED
  BY <1>1, <1>3, <1>4, <1>5 DEF ForceAlloc, Remaining

-----------------------------------------------------------------------------
(* The inductive invariant.  A pool lies within half of the address space,  *)
(* for which it is enough that no range is put under management below.      *)
UpperHalf == \A start \in Starts : 2 * (Top - start) < AddrMod
ForceInv ==
  /\ pool \in Seq(Block) /\ heap \in Nat /\ Coalesced /\ HeadersNotGained
  /\ \A a \in managed : 2 * (Top - a) < AddrMod
  /\ ~ Hung => PoolInv

LEMMA SmallPoolLemma == ForceInv /\ ~ Hung => SmallPool
BY DEF ForceInv, PoolInv, Conserved, SmallPool

LEMMA ForceInit == Init => ForceInv
<1> SUFFICES ASSUME Init PROVE ForceInv
  OBVIOUS
<1>1. IInv
  BY InitIInv
<1>2. HeadersNotGained
  BY <1>1, LenProperties, FirstFitAssumption DEF IInv, TypeOK, HeadersBalanced, HeadersNotGained
<1>3. managed = {}
  BY DEF Init
<1> QED
  BY <1>1, <1>2, <1>3 DEF ForceInv, IInv, TypeOK, PoolInv

(* A step keeps the invariant, and one that takes a forced range takes it
   whole and nothing else. *)
LEMMA ForceStep ==
  ASSUME UpperHalf, ForceInv, [SupportedNext]_vars
  PROVE  /\ ForceInv'
         /\ UNCHANGED vars
              \/ (reply'.op = "force" => FreeAddrs' = FreeAddrs \ Interval(reply'.arg, reply'.size))
<1>0. CASE UNCHANGED vars
  BY <1>0 DEF vars, ForceInv, PoolInv, FreeAddrs, Coalesced, Isolated, Conserved, Hung,
              HeadersNotGained
<1>1. ASSUME ~ Hung, PoolInv', HeadersKept, reply' \in Replies,
             \A a \in managed' : 2 * (Top - a) < AddrMod
      PROVE  ForceInv' /\ reply'.op # "force"
  <2>1. reply'.op \in Ops
    BY <1>1 DEF Replies
  <2>2. HeadersNotGained'
    BY <1>1 DEF HeadersKept, HeadersNotGained, ForceInv
  <2> QED
    BY <1>1, <2>1, <2>2 DEF ForceInv, PoolInv, Ops
<1>2. ASSUME NEW size \in Sizes, NEW start \in Starts, start + size <= Top, ~ Hung,
             AddBlock(start, size)
      PROVE  ForceInv' /\ reply'.op # "force"
  <2>1. /\ PoolInv' /\ HeadersKept /\ reply' \in Replies
        /\ managed' = managed \/ managed' = managed \cup Interval(start, size)
    BY <1>2, ArgumentTypes, AddBlockPool DEF ForceInv
  <2>2. \A a \in Interval(start, size) : 2 * (Top - a) < AddrMod
    <3>1. /\ start \in Nat /\ size \in Nat /\ Top \in Nat /\ AddrMod \in Nat
          /\ 2 * (Top - start) < AddrMod
      BY ArgumentTypes, FirstFitAssumption DEF UpperHalf
    <3> QED
      BY <3>1 DEF Interval
  <2> QED
    BY <1>1, <1>2, <2>1, <2>2 DEF ForceInv
<1>3. ASSUME NEW size \in Sizes, NEW start \in Starts, start + size <= Top, ~ Hung,
             Free(start, size)
      PROVE  ForceInv' /\ reply'.op # "force"
  <2>1. PoolInv' /\ HeadersKept /\ reply' \in Replies /\ managed' = managed
    BY <1>3, ArgumentTypes, FreePool DEF ForceInv
  <2> QED
    BY <1>1, <1>3, <2>1 DEF ForceInv
<1>4. ASSUME NEW op \in {"alloc", "alloc_at", "alloc_aligned"},
             NEW arg \in Addr, NEW size \in Sizes, ~ Hung,
             op = "alloc_at" => arg + size < AddrMod,
             op = "alloc_aligned" => NoneWraps(arg, size),
             Allocate(op, arg, size)
      PROVE  ForceInv' /\ reply'.op # "force"
  <2>1. PoolInv' /\ HeadersKept /\ reply' \in Replies /\ managed' = managed
    BY <1>4, ArgumentTypes, AllocatePool DEF ForceInv
  <2> QED
    BY <1>1, <1>4, <2>1 DEF ForceInv
<1>5. CASE ~ Hung /\ Next
  <2>1. ASSUME NEW size \in Sizes, Alloc(size) PROVE ForceInv' /\ reply'.op # "force"
    BY <1>4, <1>5, <2>1, ArgumentTypes DEF Alloc
  <2>2. ASSUME NEW size \in Sizes, NEW start \in Starts, start + size < AddrMod,
               AllocAt(start, size)
        PROVE  ForceInv' /\ reply'.op # "force"
    BY <1>4, <1>5, <2>2, ArgumentTypes DEF AllocAt
  <2>3. ASSUME NEW size \in Sizes, NEW alignment \in Alignments,
               Top + alignment + size < AddrMod, AllocAligned(alignment, size)
        PROVE  ForceInv' /\ reply'.op # "force"
    <3>1. NoneWraps(alignment, size)
      BY <1>5, <2>3, ArgumentTypes, TopBound DEF ForceInv, PoolInv
    <3> QED
      BY <1>4, <1>5, <2>3, <3>1, ArgumentTypes DEF AllocAligned
  <2>4. ForceInv' /\ reply'.op # "force"
    BY <1>2, <1>3, <1>5, <2>1, <2>2, <2>3 DEF Next
  <2> QED
    BY <2>4
<1>6. CASE ~ Hung /\ ForceSupported
  <2>1. PICK size \in Sizes, start \in Starts :
          start + size <= Top /\ Supported(start, size) /\ ForceAlloc(start, size)
    BY <1>6 DEF ForceSupported
  <2>2. PoolInv /\ SmallPool /\ start \in Addr /\ size \in Addr
    BY <1>6, ArgumentTypes, SmallPoolLemma DEF ForceInv
  <2>3. managed' = managed
    BY <2>1, <2>2, ForceAllocPool
  <2>4. CASE /\ reply'.op = "force" /\ reply'.arg = start /\ reply'.size = size
             /\ PoolInv'
             /\ heap' + Len(pool') <= heap + Len(pool)
             /\ FreeAddrs' = FreeAddrs \ Interval(start, size)
    <3>1. HeadersNotGained'
      <4>1. /\ heap \in Nat /\ heap' \in Nat /\ Len(pool) \in Nat /\ Len(pool') \in Nat
            /\ MaxHeaders \in Nat
        BY <2>2, <2>4, LenProperties, FirstFitAssumption DEF PoolInv
      <4> QED
        BY <2>4, <4>1 DEF ForceInv, HeadersNotGained
    <3> QED
      BY <2>3, <2>4, <3>1 DEF ForceInv, PoolInv
  <2>5. CASE /\ reply'.op = "hung"
             /\ pool' \in Seq(Block) /\ Coalesced'
             /\ heap' = 0 /\ Len(pool') = Len(pool)
    <3>1. HeadersNotGained'
      <4>1. heap \in Nat /\ Len(pool) \in Nat /\ MaxHeaders \in Nat
        BY <2>2, LenProperties, FirstFitAssumption DEF PoolInv
      <4> QED
        BY <2>5, <4>1 DEF ForceInv, HeadersNotGained
    <3> QED
      BY <2>3, <2>5, <3>1 DEF ForceInv, Hung
  <2> QED
    BY <2>1, <2>2, <2>4, <2>5, ForceAllocPool
<1>7. CASE Spin
  BY <1>0, <1>7 DEF Spin
<1> QED
  BY <1>0, <1>5, <1>6, <1>7 DEF SupportedNext

(* For every pool within half of memory, and every history of calls in      *)
(* which forced ranges are asked for as firstfit_force_alloc supports them: *)
(* until a core spins, no address is free and held, and none is lost.       *)
THEOREM ForcedConservation == ASSUME UpperHalf PROVE SupportedSpec => []ForceConserved
<1>1. ForceInv /\ [SupportedNext]_vars => ForceInv'
  BY ForceStep
<1>2. ForceInv => ForceConserved
  BY DEF ForceInv, ForceConserved, PoolInv
<1> QED
  BY ForceInit, <1>1, <1>2, PTL DEF SupportedSpec

(* No header comes back that was never taken from the heap.                 *)
THEOREM ForcedHeaders == ASSUME UpperHalf PROVE SupportedSpec => []HeadersNotGained
<1>1. ForceInv /\ [SupportedNext]_vars => ForceInv'
  BY ForceStep
<1>2. ForceInv => HeadersNotGained
  BY DEF ForceInv
<1> QED
  BY ForceInit, <1>1, <1>2, PTL DEF SupportedSpec

(* A forced range is taken whole, and not one address more.                 *)
THEOREM ForcedRange == ASSUME UpperHalf PROVE SupportedSpec => ForceTakesRange
<1> DEFINE Takes == reply'.op = "force" =>
                      FreeAddrs' = FreeAddrs \ Interval(reply'.arg, reply'.size)
<1>1. ForceInv /\ [SupportedNext]_vars => ForceInv'
  BY ForceStep
<1>2. ForceInv /\ [SupportedNext]_vars => [Takes]_vars
  BY ForceStep
<1> QED
  BY ForceInit, <1>1, <1>2, PTL DEF SupportedSpec, ForceTakesRange

-----------------------------------------------------------------------------
(* A pool that need not be in order: blocks may overlap, and a size may have *)
(* wrapped.  What is left to say of it is where its blocks start, and that   *)
(* the end of memory that it was made with is the end of one of them.  G is  *)
(* the set of starts, which all calls keep to.                               *)
Placed(G) == {b \in Block : b.start \in G}
Rough(list, G) == /\ list \in Seq(Placed(G))
                  /\ \E k \in 1 .. Len(list) : End(list[k]) = Top
Grid(G) == G \subseteq {g \in Addr : g < Top /\ 2 * (Top - g) < AddrMod}

LEMMA RoughFacts ==
  ASSUME NEW G, Grid(G), NEW list, Rough(list, G)
  PROVE  /\ Len(list) \in Nat /\ DOMAIN list = 1 .. Len(list)
         /\ \A k \in 1 .. Len(list) : list[k] \in Placed(G) /\ list[k].start \in G
                                      /\ list[k].start \in Addr /\ list[k].size \in Addr
         /\ 1 \in 1 .. Len(list) /\ list \in Seq(Block)
<1>1. Len(list) \in Nat /\ DOMAIN list = 1 .. Len(list)
  BY LenProperties DEF Rough
<1>2. \A k \in 1 .. Len(list) : list[k] \in Placed(G)
  BY ElementOfSeq DEF Rough
<1>3. 1 \in 1 .. Len(list)
  BY <1>1 DEF Rough
<1>4. list \in Seq(Block)
  <2>1. Placed(G) \subseteq Block
    BY DEF Placed
  <2> QED
    BY <2>1, SeqMonotonic DEF Rough
<1> QED
  BY <1>1, <1>2, <1>3, <1>4 DEF Placed, Block

(* Sums modulo AddrMod. *)
LEMMA Sums ==
  /\ AddrMod \in Nat /\ Top \in Nat /\ Top < AddrMod /\ Addr \subseteq Nat
  /\ \A a, b \in Addr : /\ Plus(a, b) \in Addr /\ Minus(a, b) \in Addr
                        /\ Plus(a, Minus(b, a)) = b
<1>1. AddrMod \in Nat /\ Top \in Nat /\ Top < AddrMod
  BY FirstFitAssumption
<1>2. \A a, b \in Addr : Plus(a, b) \in Addr /\ Minus(a, b) \in Addr /\ Plus(a, Minus(b, a)) = b
  BY <1>1 DEF Addr, Plus, Minus
<1> QED
  BY <1>1, <1>2 DEF Addr

LEMMA ThreeSums ==
  ASSUME NEW a \in Addr, NEW b \in Addr, NEW c \in Addr
  PROVE  Plus(Plus(a, b), c) = Plus(a, Plus(b, c)) /\ Plus(a, b) = Plus(b, a)
BY Sums DEF Plus, Addr

LEMMA RestSum ==
  ASSUME NEW a \in Addr, NEW b \in Addr, NEW c \in Addr, b < c
  PROVE  c - b \in Addr /\ Plus(Plus(a, b), c - b) = Plus(a, c)
BY Sums DEF Plus, Addr

(* The block that ends where memory does. *)
LEMMA LastBlock ==
  ASSUME NEW G, Grid(G), NEW b \in Placed(G), End(b) = Top
  PROVE  b.size = Top - b.start /\ b.start < Top
<1>1. b.start \in Addr /\ b.size \in Addr /\ b.start < Top
  BY DEF Placed, Block, Grid
<1> DEFINE s == b.start
           m == b.size
<1>2. s \in Addr /\ m \in Addr /\ s < Top /\ Plus(s, m) = Top
  BY <1>1 DEF End
<1> HIDE DEF s, m
<1>3. m = Top - s
  BY <1>2, Sums DEF Plus, Addr
<1> QED
  BY <1>2, <1>3 DEF s, m

(* InsertAtLemma, once more. *)
Inserting(S, s, i, e) ==
  /\ InsertAt(s, i, e) \in Seq(S) /\ Len(InsertAt(s, i, e)) = Len(s) + 1
  /\ \A j \in 1 .. Len(s) + 1 :
       InsertAt(s, i, e)[j] = IF j < i THEN s[j] ELSE IF j = i THEN e ELSE s[j - 1]

LEMMA InsertsIn ==
  ASSUME NEW S, NEW s, NEW i, NEW e, s \in Seq(S), i \in 1 .. Len(s) + 1, e \in S
  PROVE  Inserting(S, s, i, e)
BY InsertAtLemma DEF Inserting

(* firstfit_free. *)
LEMMA RoughFree ==
  ASSUME NEW G, Grid(G), Rough(pool, G), NEW start \in G, NEW size \in Addr,
         Free(start, size)
  PROVE  Rough(pool', G)
<1> DEFINE curr == CurrIndex(start)
           prev == PrevIndex(start)
<1>1. /\ Len(pool) \in Nat /\ DOMAIN pool = 1 .. Len(pool)
      /\ \A k \in 1 .. Len(pool) : /\ pool[k] \in Placed(G) /\ pool[k].start \in G
                                   /\ pool[k].start \in Addr /\ pool[k].size \in Addr
      /\ pool \in Seq(Placed(G)) /\ start \in Addr
  BY RoughFacts DEF Rough, Grid
<1>0. Top \notin G
  BY Sums DEF Grid
<1>2. PICK t \in 1 .. Len(pool) : End(pool[t]) = Top
  BY DEF Rough
<1>3. /\ curr \in 0 .. Len(pool) /\ prev \in 0 .. Len(pool)
      /\ curr # 0 => prev = curr - 1
  <2> DEFINE S == {i \in DOMAIN pool : End(pool[i]) > start}
  <2>1. S \subseteq Nat \ {0} /\ S \subseteq 1 .. Len(pool)
    BY <1>1
  <2>2. curr = FirstOf(S)
    BY DEF CurrIndex
  <2> HIDE DEF S
  <2>3. curr = 0 \/ curr \in S
    BY <2>1, <2>2, FirstOfLemma
  <2>4. prev = IF curr = 0 THEN Len(pool) ELSE curr - 1
    BY DEF PrevIndex
  <2> HIDE DEF curr, prev
  <2>5. curr = 0 \/ curr \in 1 .. Len(pool)
    BY <2>1, <2>3
  <2> QED
    BY <1>1, <2>4, <2>5
<1> HIDE DEF curr, prev
<1>4. CASE JoinBoth(start, size)
  <2> DEFINE b == WithSize(pool[prev], Plus(pool[prev].size, Plus(pool[curr].size, size)))
             r == RemoveAt(pool, curr)
  <2>1. /\ prev \in 1 .. Len(pool) /\ curr \in 1 .. Len(pool) /\ prev = curr - 1
        /\ End(pool[prev]) = start /\ Plus(start, size) = pool[curr].start
    BY <1>1, <1>3, <1>4 DEF JoinBoth, JoinsLeft, JoinsRight, curr, prev
  <2>2. /\ r \in Seq(Placed(G)) /\ Len(r) = Len(pool) - 1
        /\ \A k \in 1 .. Len(pool) - 1 : r[k] = IF k < curr THEN pool[k] ELSE pool[k + 1]
    BY <1>1, <2>1, RemoveAtLemma
  <2>3. prev \in 1 .. Len(r) /\ r[prev] = pool[prev]
    BY <1>1, <2>1, <2>2
  <2>4. b \in Placed(G) /\ End(b) = End(pool[curr])
    <3> DEFINE p == pool[prev].start
               m == pool[prev].size
               n == pool[curr].size
    <3>1. p \in Addr /\ p \in G /\ m \in Addr /\ n \in Addr /\ Plus(p, m) = start
      BY <1>1, <2>1 DEF End
    <3>2. b = [start |-> p, size |-> Plus(m, Plus(n, size))]
      BY DEF WithSize
    <3>3. pool[curr].start = Plus(start, size) /\ End(pool[curr]) = Plus(Plus(start, size), n)
      BY <2>1 DEF End
    <3> HIDE DEF p, m, n, b
    <3>4. Plus(p, Plus(m, Plus(n, size))) = Plus(start, Plus(n, size))
      <4> DEFINE x == Plus(n, size)
      <4>1. x \in Addr
        BY <3>1, Sums
      <4> HIDE DEF x
      <4>2. Plus(Plus(p, m), x) = Plus(p, Plus(m, x))
        BY <3>1, <4>1, ThreeSums
      <4> QED
        BY <3>1, <4>2 DEF x
    <3>5. Plus(n, size) = Plus(size, n)
      BY <3>1, Sums, ThreeSums
    <3>6. Plus(Plus(start, size), n) = Plus(start, Plus(size, n))
      BY <1>1, <3>1, ThreeSums
    <3>7. Plus(m, Plus(n, size)) \in Addr
      BY <3>1, Sums
    <3> QED
      BY <3>1, <3>2, <3>3, <3>4, <3>5, <3>6, <3>7 DEF Placed, Block, End
  <2>5. pool' = [r EXCEPT ![prev] = b]
    BY <1>4, <2>3 DEF JoinBoth, curr, prev
  <2> HIDE DEF b, r
  <2>6. /\ pool' \in Seq(Placed(G)) /\ Len(pool') = Len(r)
        /\ \A k \in 1 .. Len(r) : pool'[k] = IF k = prev THEN b ELSE r[k]
    BY <2>2, <2>3, <2>4, <2>5, ExceptSeq
  <2>7. t # prev
    BY <1>0, <1>1, <1>2, <2>1
  <2>8. \E k \in 1 .. Len(r) : End(pool'[k]) = Top
    <3>1. CASE t = curr
      BY <1>2, <2>3, <2>4, <2>6, <3>1
    <3>2. CASE t < curr
      BY <1>1, <1>2, <2>1, <2>2, <2>6, <2>7, <3>2
    <3>3. CASE t > curr
      <4>1. t - 1 \in 1 .. Len(r) /\ t - 1 # prev /\ ~ (t - 1 < curr) /\ (t - 1) + 1 = t
        BY <1>1, <1>2, <2>1, <2>2, <3>3
      <4> QED
        BY <1>2, <2>2, <2>6, <4>1
    <3> QED
      BY <1>1, <1>2, <2>1, <3>1, <3>2, <3>3
  <2> QED
    BY <2>6, <2>8 DEF Rough
<1>5. CASE JoinLeft(start, size)
  <2> DEFINE b == WithSize(pool[prev], Plus(pool[prev].size, size))
  <2>1. prev \in 1 .. Len(pool) /\ End(pool[prev]) = start
    BY <1>3, <1>5 DEF JoinLeft, JoinsLeft, prev
  <2>2. b \in Placed(G)
    BY <1>1, <2>1, Sums DEF WithSize, Placed, Block
  <2>3. pool' = [pool EXCEPT ![prev] = b]
    BY <1>1, <1>5, <2>1 DEF JoinLeft, prev
  <2> HIDE DEF b
  <2>4. /\ pool' \in Seq(Placed(G)) /\ Len(pool') = Len(pool)
        /\ \A k \in 1 .. Len(pool) : pool'[k] = IF k = prev THEN b ELSE pool[k]
    BY <1>1, <2>1, <2>2, <2>3, ExceptSeq
  <2>5. t # prev
    BY <1>0, <1>1, <1>2, <2>1
  <2> QED
    BY <1>2, <2>4, <2>5 DEF Rough
<1>6. CASE JoinRight(start, size)
  <2> DEFINE b == [start |-> start, size |-> Plus(pool[curr].size, size)]
  <2>1. curr \in 1 .. Len(pool) /\ Plus(start, size) = pool[curr].start
    BY <1>3, <1>6 DEF JoinRight, JoinsRight, curr
  <2>2. b \in Placed(G) /\ End(b) = End(pool[curr])
    <3> DEFINE n == pool[curr].size
    <3>1. n \in Addr /\ End(pool[curr]) = Plus(Plus(start, size), n)
      BY <1>1, <2>1 DEF End
    <3> HIDE DEF n
    <3>2. Plus(n, size) = Plus(size, n) /\ Plus(n, size) \in Addr
      BY <3>1, Sums, ThreeSums
    <3>3. Plus(Plus(start, size), n) = Plus(start, Plus(size, n))
      BY <1>1, <3>1, ThreeSums
    <3>4. b = [start |-> start, size |-> Plus(n, size)]
      BY DEF n
    <3> QED
      BY <1>1, <3>1, <3>2, <3>3, <3>4 DEF Placed, Block, End
  <2>3. pool' = [pool EXCEPT ![curr] = b]
    BY <1>1, <1>6, <2>1 DEF JoinRight, curr
  <2> HIDE DEF b
  <2>4. /\ pool' \in Seq(Placed(G)) /\ Len(pool') = Len(pool)
        /\ \A k \in 1 .. Len(pool) : pool'[k] = IF k = curr THEN b ELSE pool[k]
    BY <1>1, <2>1, <2>2, <2>3, ExceptSeq
  <2> QED
    BY <1>2, <2>2, <2>4 DEF Rough
<1>7. CASE NewBlock(start, size)
  <2> DEFINE b == [start |-> start, size |-> size]
             n == prev + 1
  <2>1. b \in Placed(G)
    BY <1>1 DEF Placed, Block
  <2>2. n \in 1 .. Len(pool) + 1
    BY <1>1, <1>3
  <2>3. pool' = InsertAt(pool, n, b)
    BY <1>7 DEF NewBlock, prev
  <2> HIDE DEF b, n
  <2>4. /\ pool' \in Seq(Placed(G)) /\ Len(pool') = Len(pool) + 1
        /\ \A k \in 1 .. Len(pool) + 1 :
             pool'[k] = IF k < n THEN pool[k] ELSE IF k = n THEN b ELSE pool[k - 1]
    <3>1. /\ InsertAt(pool, n, b) \in Seq(Placed(G)) /\ Len(InsertAt(pool, n, b)) = Len(pool) + 1
          /\ \A j \in 1 .. Len(pool) + 1 : InsertAt(pool, n, b)[j]
                = IF j < n THEN pool[j] ELSE IF j = n THEN b ELSE pool[j - 1]
      <4> DEFINE S == Placed(G)
      <4>1. pool \in Seq(S) /\ b \in S /\ n \in 1 .. Len(pool) + 1
        BY <1>1, <2>1, <2>2
      <4> HIDE DEF S
      <4>2. Inserting(S, pool, n, b)
        BY <4>1, InsertsIn
      <4> QED
        BY <4>2 DEF Inserting, S
    <3> QED
      BY <2>3, <3>1
  <2>5. \E k \in 1 .. Len(pool') : End(pool'[k]) = Top
    <3>1. CASE t < n
      BY <1>1, <1>2, <2>2, <2>4, <3>1
    <3>2. CASE ~ (t < n)
      <4>1. t + 1 \in 1 .. Len(pool) + 1 /\ ~ (t + 1 < n) /\ t + 1 # n /\ (t + 1) - 1 = t
        BY <1>1, <1>2, <2>2, <3>2
      <4> QED
        BY <1>2, <2>4, <4>1
    <3> QED
      BY <3>1, <3>2
  <2> QED
    BY <2>4, <2>5 DEF Rough
<1>8. CASE pool' = pool
  BY <1>8
<1> QED
  BY <1>4, <1>5, <1>6, <1>7, <1>8 DEF Free, AddAccepted

(* alloc_common.  The range granted starts where a block does, or where it   *)
(* was asked for.                                                            *)
LEMMA RoughPlace ==
  ASSUME NEW G, Grid(G), Rough(pool, G), NEW req, Valid(req), Granted(req), req.op # "alloc",
         req.op = "alloc_aligned" => \A k \in 1 .. Len(pool) : IsAligned(pool[k].start, req.arg)
  PROVE  \E k \in 1 .. Len(pool) :
           IF req.op = "alloc_at" THEN GrantedAddr(req) = req.arg /\ req.arg >= pool[k].start
                                  ELSE GrantedAddr(req) = pool[k].start
<1>1. /\ pool \in Seq(Block)
      /\ \A k \in 1 .. Len(pool) : pool[k].start \in Addr
  BY RoughFacts
<1>2. req.op \in {"alloc_at", "alloc_aligned"} /\ req.arg \in Nat
  BY DEF Valid
<1>3. CASE Fitting(req) # 0
  <2> DEFINE k == Fitting(req)
  <2>1. k \in 1 .. Len(pool) /\ MeetsConstraint(req, pool[k]) /\ GrantedAddr(req) = pool[k].start
    BY <1>1, <1>3, FittingLemma DEF GrantedAddr
  <2>2. pool[k].start \in Nat
    BY <1>1, <2>1, Sums
  <2> HIDE DEF k
  <2>3. req.op = "alloc_at" => pool[k].start = req.arg
    BY <2>1 DEF MeetsConstraint
  <2> QED
    BY <1>2, <2>1, <2>2, <2>3
<1>4. CASE Fitting(req) = 0
  <2> DEFINE k == BlockToSplit(req)
             s == pool[k].start
             at == WantedStart(req, pool[k])
  <2>1. k # 0 /\ GrantedAddr(req) = at
    BY <1>4 DEF Granted, TakeFront, TakeWhole, Split, GrantedAddr
  <2>2. k \in 1 .. Len(pool) /\ at >= s /\ s \in Nat
    BY <1>1, <2>1, FittingLemma, Sums DEF Splittable
  <2>3. CASE req.op = "alloc_at"
    BY <2>1, <2>2, <2>3 DEF WantedStart
  <2>4. CASE req.op = "alloc_aligned"
    <3> DEFINE n == req.arg
    <3>1. at = AlignUp(s, n) /\ n \in Nat \ {0} /\ req.size \in Nat /\ IsAligned(s, n)
          /\ s + n + req.size < AddrMod
      BY <2>2, <2>4 DEF WantedStart, Valid, NoneWraps
    <3> HIDE DEF s, n, at
    <3>2. s + n < AddrMod
      BY <2>2, <3>1, Sums
    <3>3. s <= AlignUp(s, n) /\ AlignUp(s, n) \in Nat
      BY <2>2, <3>1, <3>2, AlignUpLemma
    <3>4. AlignUp(s, n) <= s
      <4>1. s <= s
        BY <2>2
      <4> QED
        BY <2>2, <3>1, <3>2, <4>1, AlignUpLeast
    <3>5. at = s
      BY <2>2, <3>1, <3>3, <3>4
    <3> QED
      BY <2>1, <2>2, <2>4, <3>5 DEF s
  <2> QED
    BY <1>2, <2>3, <2>4
<1> QED
  BY <1>3, <1>4

LEMMA RoughGrant ==
  ASSUME NEW G, Grid(G), Rough(pool, G), NEW req, req.size \in Addr, Granted(req),
         GrantedAddr(req) \in Addr, Plus(GrantedAddr(req), req.size) \in G
  PROVE  Rough(pool', G)
<1> DEFINE size == req.size
           end == Plus(GrantedAddr(req), size)
<1>0. Top \notin G /\ end \in G /\ end \in Addr /\ size \in Addr
  <2>1. G \subseteq Addr /\ Top \notin G
    BY Sums DEF Grid
  <2> QED
    BY <2>1
<1>1. /\ Len(pool) \in Nat /\ DOMAIN pool = 1 .. Len(pool)
      /\ \A k \in 1 .. Len(pool) : /\ pool[k] \in Placed(G) /\ pool[k].start \in G
                                   /\ pool[k].start \in Addr /\ pool[k].size \in Addr
      /\ pool \in Seq(Placed(G)) /\ pool \in Seq(Block)
  BY RoughFacts DEF Rough
<1>2. PICK t \in 1 .. Len(pool) : End(pool[t]) = Top
  BY DEF Rough
<1>3. CASE TakeFront(req)
  <2> DEFINE k == Fitting(req)
             s == pool[k].start
             m == pool[k].size
             b == [start |-> Plus(s, size), size |-> m - size]
  <2>1. k \in 1 .. Len(pool) /\ m > size /\ end = Plus(s, size)
    BY <1>1, <1>3, FittingLemma DEF TakeFront, GrantedAddr
  <2>2. s \in Addr /\ m \in Addr /\ End(pool[k]) = Plus(s, m)
    BY <1>1, <2>1 DEF End
  <2>3. pool' = [pool EXCEPT ![k] = b]
    BY <1>1, <1>3, <2>1 DEF TakeFront
  <2> HIDE DEF k, s, m, size, end
  <2>4. m - size \in Addr /\ Plus(Plus(s, size), m - size) = Plus(s, m)
    BY <1>0, <2>1, <2>2, RestSum
  <2>5. b \in Placed(G) /\ End(b) = Plus(s, m)
    BY <1>0, <2>1, <2>4 DEF Placed, Block, End
  <2> HIDE DEF b
  <2>6. /\ pool' \in Seq(Placed(G)) /\ Len(pool') = Len(pool)
        /\ \A j \in 1 .. Len(pool) : pool'[j] = IF j = k THEN b ELSE pool[j]
    BY <1>1, <2>1, <2>3, <2>5, ExceptSeq
  <2> QED
    BY <1>2, <2>2, <2>5, <2>6 DEF Rough
<1>4. CASE TakeWhole(req)
  <2> DEFINE k == Fitting(req)
  <2>1. k \in 1 .. Len(pool) /\ End(pool[k]) = end /\ pool' = RemoveAt(pool, k)
    BY <1>1, <1>4, FittingLemma DEF TakeWhole, GrantedAddr, End
  <2> HIDE DEF k, end
  <2>2. /\ pool' \in Seq(Placed(G)) /\ Len(pool') = Len(pool) - 1
        /\ \A j \in 1 .. Len(pool) - 1 : pool'[j] = IF j < k THEN pool[j] ELSE pool[j + 1]
    BY <1>1, <2>1, RemoveAtLemma
  <2>3. t # k
    BY <1>0, <1>2, <2>1
  <2>4. \E j \in 1 .. Len(pool') : End(pool'[j]) = Top
    <3>1. CASE t < k
      BY <1>1, <1>2, <2>1, <2>2, <3>1
    <3>2. CASE t > k
      <4>1. t - 1 \in 1 .. Len(pool) - 1 /\ ~ (t - 1 < k) /\ (t - 1) + 1 = t
        BY <1>1, <1>2, <2>1, <3>2
      <4> QED
        BY <1>2, <2>2, <4>1
    <3> QED
      BY <1>1, <1>2, <2>1, <2>3, <3>1, <3>2
  <2> QED
    BY <2>2, <2>4 DEF Rough
<1>5. CASE Split(req)
  <2> DEFINE k == BlockToSplit(req)
             at == GrantedAddr(req)
             s == pool[k].start
             last == End(pool[k])
             left == [start |-> s, size |-> Minus(at, s)]
             right == [start |-> end, size |-> Minus(last, end)]
             q == [pool EXCEPT ![k] = left]
             n == k + 1
  <2>1. k \in 1 .. Len(pool) /\ at = WantedStart(req, pool[k])
    BY <1>1, <1>5, FittingLemma DEF Split, GrantedAddr
  <2>2. s \in Addr /\ s \in G /\ last \in Addr /\ at \in Addr
    BY <1>1, <2>1, Sums DEF End
  <2>3. pool' = InsertAt(q, n, right)
    BY <1>1, <1>5, <2>1 DEF Split, RightOffset, WithSize
  <2> HIDE DEF k, at, s, last, end, size
  <2>4. left \in Placed(G) /\ right \in Placed(G) /\ End(right) = last
    BY <1>0, <2>2, Sums DEF Placed, Block, End
  <2> HIDE DEF left, right
  <2>5. /\ q \in Seq(Placed(G)) /\ Len(q) = Len(pool)
        /\ \A j \in 1 .. Len(pool) : q[j] = IF j = k THEN left ELSE pool[j]
    BY <1>1, <2>1, <2>4, ExceptSeq
  <2>6. n \in 1 .. Len(q) + 1 /\ n \in Nat
    BY <1>1, <2>1, <2>5
  <2> HIDE DEF q
  <2>7. /\ pool' \in Seq(Placed(G)) /\ Len(pool') = Len(pool) + 1
        /\ \A j \in 1 .. Len(pool) + 1 :
             pool'[j] = IF j < n THEN q[j] ELSE IF j = n THEN right ELSE q[j - 1]
    <3> HIDE DEF n
    <3>1. /\ InsertAt(q, n, right) \in Seq(Placed(G)) /\ Len(InsertAt(q, n, right)) = Len(q) + 1
          /\ \A j \in 1 .. Len(q) + 1 : InsertAt(q, n, right)[j]
                = IF j < n THEN q[j] ELSE IF j = n THEN right ELSE q[j - 1]
      <4> DEFINE S == Placed(G)
      <4>1. q \in Seq(S) /\ right \in S /\ n \in 1 .. Len(q) + 1
        BY <2>4, <2>5, <2>6
      <4> HIDE DEF S
      <4>2. Inserting(S, q, n, right)
        BY <4>1, InsertsIn
      <4> QED
        BY <4>2 DEF Inserting, S
    <3> QED
      BY <2>3, <2>5, <3>1
  <2>8. \E j \in 1 .. Len(pool) + 1 : End(pool'[j]) = Top
    <3>1. CASE t = k
      <4>1. n \in 1 .. Len(pool) + 1 /\ ~ (n < n)
        BY <2>5, <2>6
      <4> HIDE DEF n
      <4> QED
        BY <1>2, <2>4, <2>7, <3>1, <4>1 DEF last
    <3>2. CASE t < k
      <4>1. t < n /\ t \in 1 .. Len(pool) + 1 /\ t # k
        BY <1>1, <1>2, <2>1, <3>2
      <4> HIDE DEF n
      <4> QED
        BY <1>2, <2>5, <2>7, <4>1
    <3>3. CASE t > k
      <4> DEFINE j == t + 1
      <4>1. j \in 1 .. Len(pool) + 1 /\ ~ (j < n) /\ j # n /\ j - 1 = t /\ t # k
        BY <1>1, <1>2, <2>1, <3>3
      <4> HIDE DEF n, j
      <4> QED
        BY <1>2, <2>5, <2>7, <4>1
    <3> QED
      BY <1>1, <1>2, <2>1, <3>1, <3>2, <3>3
  <2> QED
    BY <2>7, <2>8 DEF Rough
<1> QED
  BY <1>3, <1>4, <1>5 DEF Granted

(* The elements of the sequences are those of the sequence they join up to. *)
Has(q, s) == \A j \in 1 .. Len(s) : \E k \in 1 .. Len(q) : q[k] = s[j]

LEMMA FlattenMembers ==
  ASSUME NEW S, NEW n \in Nat \ {0}, NEW seqs, Len(seqs) = n,
         \A i \in 1 .. n : seqs[i] \in Seq(S)
  PROVE  /\ FlattenSeq(seqs) \in Seq(S)
         /\ \A i \in 1 .. n : Has(FlattenSeq(seqs), seqs[i])
<1>1. PICK f : Joined(seqs, n, f) /\ FlattenSeq(seqs) = f[n]
  BY FlattenJoined
<1> DEFINE Pre(k) == f[k] \in Seq(S) /\ \A i \in 1 .. k : Has(f[k], seqs[i])
<1>0. \A k \in 1 .. n : f[k] = IF k = 1 THEN seqs[k] ELSE f[k - 1] \o seqs[k]
  <2> TAKE k \in 1 .. n
  <2>1. n \in Nat /\ Joined(seqs, n, f) /\ k \in 1 .. n
    BY <1>1
  <2> QED
    BY ONLY <2>1, JoinedAt
<1>2. ASSUME NEW s \in Seq(S), NEW t \in Seq(S)
      PROVE  s \o t \in Seq(S) /\ Has(s \o t, s) /\ Has(s \o t, t)
  <2> DEFINE l == Len(s)
             m == Len(t)
             q == s \o t
  <2>1. /\ q \in Seq(S) /\ Len(q) = l + m /\ l \in Nat /\ m \in Nat
        /\ \A k \in 1 .. l + m : q[k] = IF k <= l THEN s[k] ELSE t[k - l]
    BY ConcatProperties, LenProperties
  <2> HIDE DEF l, m, q
  <2>2. \A j \in 1 .. l : j \in 1 .. l + m /\ q[j] = s[j]
    BY <2>1
  <2>3. \A j \in 1 .. m : j + l \in 1 .. l + m /\ q[j + l] = t[j]
    <3> TAKE j \in 1 .. m
    <3>1. j + l \in 1 .. l + m /\ ~ (j + l <= l) /\ (j + l) - l = j
      BY <2>1
    <3> QED
      BY <2>1, <3>1
  <2>4. Has(q, s)
    BY <2>1, <2>2 DEF l, Has
  <2>5. Has(q, t)
    BY <2>1, <2>3 DEF m, Has
  <2> QED
    BY <2>1, <2>4, <2>5 DEF q
<1>3. ASSUME NEW s PROVE Has(s, s)
  BY DEF Has
<1>4. ASSUME NEW q, NEW r, NEW s, Has(q, r), Has(r, s) PROVE Has(q, s)
  BY <1>4 DEF Has
<1>5. Pre(1)
  <2>1. f[1] = seqs[1] /\ 1 .. 1 = {1} /\ 1 \in 1 .. n
    BY <1>1, JoinedAt
  <2> QED
    BY <1>3, <2>1
<1>6. ASSUME NEW k \in 1 .. n, NEW m \in 1 .. n, k = m + 1, Pre(m)
      PROVE  Pre(k)
  <2> DEFINE s == f[m]
             t == seqs[k]
  <2>1. f[k] = s \o t
    <3>1. k # 1 /\ k - 1 = m
      BY <1>6
    <3>2. f[k] = IF k = 1 THEN seqs[k] ELSE f[k - 1] \o seqs[k]
      BY <1>0
    <3> QED
      BY <3>1, <3>2
  <2>2. s \in Seq(S) /\ t \in Seq(S) /\ \A i \in 1 .. m : Has(s, seqs[i])
    BY <1>6
  <2> HIDE DEF s
  <2>3. s \o t \in Seq(S) /\ Has(s \o t, s) /\ Has(s \o t, t)
    BY <1>2, <2>2
  <2>4. \A i \in 1 .. m : Has(s \o t, seqs[i])
    BY <1>4, <2>2, <2>3
  <2>5. 1 .. k = 1 .. m \cup {k}
    BY <1>6
  <2> QED
    BY <2>1, <2>3, <2>4, <2>5
<1> HIDE DEF Pre
<1>7. Pre(n)
  <2> DEFINE Bad == {k \in 1 .. n : ~ Pre(k)}
             k == FirstOf(Bad)
  <2> SUFFICES ASSUME Bad # {} PROVE FALSE
    OBVIOUS
  <2>1. k \in Bad /\ \A j \in Bad : k <= j
    <3>1. Bad \subseteq Nat \ {0}
      OBVIOUS
    <3> HIDE DEF Bad
    <3> QED
      BY <3>1, FirstOfLemma
  <2> HIDE DEF k
  <2>2. k \in 1 .. n /\ ~ Pre(k)
    BY <2>1
  <2>3. k # 1
    BY <1>5, <2>2
  <2> DEFINE m == k - 1
  <2>4. m \in 1 .. n /\ k = m + 1
    BY <2>2, <2>3
  <2> HIDE DEF m
  <2>5. Pre(m)
    <3>1. m \notin Bad
      BY <2>1, <2>2, <2>4
    <3> QED
      BY <2>4, <3>1
  <2> QED
    BY <1>6, <2>2, <2>4, <2>5
<1> QED
  BY <1>1, <1>7 DEF Pre

(* firstfit_force_alloc, wherever the range lies. *)
LEMMA RoughForce ==
  ASSUME NEW G, Grid(G), Rough(pool, G), NEW start \in Addr, NEW size \in Addr, size # 0,
         \A k \in 1 .. Len(pool) : pool[k].start < Plus(start, size) => Plus(start, size) \in G,
         ForceAlloc(start, size), reply'.op = "force"
  PROVE  Rough(pool', G)
<1> DEFINE end == Plus(start, size)
           n == Len(pool)
           S == Placed(G)
           seqs == [i \in DOMAIN pool |-> Kept(i, start, end)]
<1>1. /\ n \in Nat \ {0} /\ DOMAIN pool = 1 .. n
      /\ \A k \in 1 .. n : /\ pool[k] \in S /\ pool[k].start \in G
                           /\ pool[k].start \in Addr /\ pool[k].size \in Addr
  BY RoughFacts
<1>2. PICK t \in 1 .. n : End(pool[t]) = Top
  BY DEF Rough
<1>3. end \in Addr /\ \A k \in 1 .. n : pool[k].start < end => end \in G
  BY Sums
<1>4. pool' = FlattenSeq(seqs)
  BY DEF ForceAlloc, Answer
<1>5. \A i \in 1 .. n : i \in Visited(start, end) => pool[i].start < end /\ end \in G
  <2> SUFFICES ASSUME NEW i \in 1 .. n, i \in Visited(start, end) PROVE pool[i].start < end
    BY <1>3
  <2>1. i \in 1 .. i
    BY <1>1
  <2> QED
    BY <2>1 DEF Visited, Reaches
<1>6. seqs = [i \in 1 .. n |-> Kept(i, start, end)]
  BY <1>1
<1> HIDE DEF end, n, S, seqs
<1>7. Len(seqs) = n /\ \A i \in 1 .. n : seqs[i] = Kept(i, start, end)
  <2>1. DOMAIN seqs = 1 .. n
    BY <1>6
  <2>2. Len(seqs) = n
    BY <1>1, <1>6
  <2> QED
    BY <1>6, <2>2
<1>8. ASSUME NEW x \in G, NEW y \in Addr
      PROVE  LET b == [start |-> x, size |-> y] IN b \in S /\ <<b>> \in Seq(S)
  <2> DEFINE b == [start |-> x, size |-> y]
  <2>1. x \in Addr
    BY DEF Grid
  <2>2. b \in S
    BY <2>1 DEF S, Placed, Block
  <2> HIDE DEF b
  <2> QED
    BY <2>2 DEF b
<1>9. ASSUME NEW i \in 1 .. n PROVE Kept(i, start, end) \in Seq(S)
  <2> DEFINE x == pool[i].start
             y == pool[i].size
  <2>1. x \in G /\ x \in Addr /\ y \in Addr /\ pool[i] \in S
    BY <1>1
  <2>2. CASE i \notin Visited(start, end)
    BY <2>1, <2>2 DEF Kept
  <2>3. CASE i \in Visited(start, end) /\ (i > 1 \/ start = x)
    <3>1. Kept(i, start, end) = IF y <= Minus(end, x) THEN <<>>
                                ELSE << [start |-> end, size |-> y - Minus(end, x)] >>
      BY <2>3 DEF Kept, KeepBehind
    <3>2. end \in G /\ Minus(end, x) \in Addr
      BY <1>3, <1>5, <2>1, <2>3, Sums
    <3> HIDE DEF x, y
    <3>3. ~ (y <= Minus(end, x)) => y - Minus(end, x) \in Addr
      <4> DEFINE w == Minus(end, x)
      <4>1. w \in Addr /\ y \in Addr
        BY <2>1, <3>2
      <4> HIDE DEF w
      <4>2. ~ (y <= w) => y - w \in Addr
        BY <4>1, Sums DEF Addr
      <4> QED
        BY <4>2 DEF w
    <3> QED
      BY <1>8, <3>1, <3>2, <3>3
  <2>4. CASE i \in Visited(start, end) /\ ~ (i > 1 \/ start = x) /\ SplitsFirst(start, end)
    <3> DEFINE l == Minus(y, Plus(Minus(end, start), RightSize(end)))
               r == RightSize(end)
    <3>1. Kept(i, start, end) = << [start |-> x, size |-> l], [start |-> end, size |-> r] >>
      BY <2>4 DEF Kept, KeepAround, WithSize
    <3>2. r \in Addr
      <4>1. 1 \in 1 .. n
        BY <1>1
      <4>2. End(pool[1]) \in Addr
        BY <1>1, <4>1, Sums DEF End
      <4> QED
        BY <1>3, <4>2, Sums DEF RightSize
    <3>3. l \in Addr
      BY <1>3, <2>1, <3>2, Sums
    <3>4. end \in G
      BY <1>5, <2>4
    <3> HIDE DEF x, y, l, r
    <3> DEFINE b == [start |-> x, size |-> l]
               c == [start |-> end, size |-> r]
    <3>5. b \in S /\ c \in S
      BY <1>8, <2>1, <3>2, <3>3, <3>4
    <3> HIDE DEF b, c
    <3>6. << b, c >> \in Seq(S)
      BY <3>5
    <3> QED
      BY <3>1, <3>6 DEF b, c
  <2>5. CASE i \in Visited(start, end) /\ ~ (i > 1 \/ start = x) /\ ~ SplitsFirst(start, end)
    <3>1. Kept(i, start, end) = << [start |-> x, size |-> Minus(start, x)] >>
      BY <2>5 DEF Kept, KeepBefore, WithSize
    <3>2. Minus(start, x) \in Addr
      BY <2>1, Sums
    <3> HIDE DEF x
    <3> QED
      BY <1>8, <2>1, <3>1, <3>2
  <2> QED
    BY <2>2, <2>3, <2>4, <2>5
<1>10. \E j \in 1 .. Len(Kept(t, start, end)) : End(Kept(t, start, end)[j]) = Top
  <2> DEFINE x == pool[t].start
             y == pool[t].size
             last == [start |-> end, size |-> Top - end]
  <2>1. x \in Addr /\ y = Top - x /\ x < Top
    BY <1>1, <1>2, LastBlock DEF S
  <2>2. CASE t \notin Visited(start, end)
    <3>1. Kept(t, start, end) = <<pool[t]>>
      BY <2>2 DEF Kept
    <3> QED
      BY <1>2, <3>1
  <2>3. CASE t \in Visited(start, end)
    <3>1. x < end /\ end \in G
      BY <1>5, <2>3
    <3>2. end < Top /\ 2 * (Top - end) < AddrMod /\ end \in Addr
      BY <3>1 DEF Grid
    <3> DEFINE z == Top - end
    <3>3. /\ Minus(end, x) = end - x /\ Minus(Top, end) = z /\ z > 0 /\ 2 * z < AddrMod
          /\ y - (end - x) = z /\ ~ (y <= end - x) /\ Plus(end, z) = Top
      <4> HIDE DEF x, y, z
      <4>1. x \in Nat /\ end \in Nat /\ Top \in Nat /\ AddrMod \in Nat /\ Top < AddrMod
        BY <2>1, <3>2, Sums
      <4> QED
        BY <2>1, <3>1, <3>2, <4>1 DEF Minus, Plus, z
    <3>4. End(last) = Top
      BY <3>3 DEF End
    <3>5. CASE t > 1 \/ start = x
      <4>1. Kept(t, start, end) = IF y <= Minus(end, x) THEN <<>>
                                  ELSE << [start |-> end, size |-> y - Minus(end, x)] >>
        BY <2>3, <3>5 DEF Kept, KeepBehind
      <4>2. Kept(t, start, end) = << last >>
        BY <3>3, <4>1
      <4> HIDE DEF last
      <4> QED
        BY <3>4, <4>2
    <3>6. CASE ~ (t > 1 \/ start = x)
      <4>1. t = 1 /\ start # x /\ pool # <<>>
        BY <1>1, <3>6
      <4>2. RightSize(end) = z
        BY <1>2, <3>3, <4>1 DEF RightSize
      <4>3. Reaches(pool[1], start, end)
        <5>1. 1 \in 1 .. t
          BY <4>1
        <5> QED
          BY <2>3, <5>1 DEF Visited
      <4>4. SplitsFirst(start, end)
        BY <3>3, <4>1, <4>2, <4>3 DEF SplitsFirst
      <4> DEFINE b == WithSize(pool[t], Minus(y, Plus(Minus(end, start), RightSize(end))))
      <4>5. Kept(t, start, end) = << b, last >>
        BY <2>3, <3>6, <4>2, <4>4 DEF Kept, KeepAround
      <4> HIDE DEF b, last
      <4>6. Len(<<b, last>>) = 2 /\ <<b, last>>[2] = last /\ 2 \in 1 .. 2
        OBVIOUS
      <4> QED
        BY <3>4, <4>5, <4>6
    <3> QED
      BY <3>5, <3>6
  <2> QED
    BY <2>2, <2>3
<1>11. /\ FlattenSeq(seqs) \in Seq(S)
       /\ \A i \in 1 .. n : Has(FlattenSeq(seqs), seqs[i])
  <2>1. n \in Nat \ {0} /\ Len(seqs) = n
    BY <1>1, <1>7
  <2>2. \A i \in 1 .. n : seqs[i] \in Seq(S)
    BY <1>7, <1>9
  <2> QED
    BY ONLY <2>1, <2>2, FlattenMembers
<1>12. \E k \in 1 .. Len(FlattenSeq(seqs)) : End(FlattenSeq(seqs)[k]) = Top
  <2>1. seqs[t] = Kept(t, start, end)
    BY <1>7
  <2> QED
    BY <1>10, <1>11, <2>1 DEF Has
<1> QED
  BY <1>4, <1>11, <1>12 DEF Rough, S

=============================================================================
