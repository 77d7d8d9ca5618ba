---------------------------- MODULE BuddyProofs ----------------------------
(***************************************************************************)
(* Proofs about Buddy, for any number of orders and any requests.          *)
(*                                                                         *)
(* What the steps do to the blocks is what the steps of BuddyBlocks do,    *)
(* whose lemmas are cited under BP.                                        *)
(***************************************************************************)
EXTENDS Buddy, FiniteSetTheorems, TLAPS

(* The blocks that clients hold, without what is known of their headers.    *)
HeldBlocks == {[addr |-> b.addr, order |-> b.order] : b \in held}

(* The lists and the block being merged are the free blocks of BuddyBlocks. *)
BP == INSTANCE BuddyBlocksProofs WITH free <- FreeBlocks, held <- HeldBlocks

-----------------------------------------------------------------------------
(* A set of numbers that is not empty has a least one.                      *)
LEMMA Least ==
  ASSUME NEW S, S \subseteq Nat, S # {}
  PROVE  \E n \in S : \A m \in S : n <= m
<1> DEFINE Less == {p \in Nat \X Nat : p[1] < p[2]}
<1>1. IsWellFoundedOn(Less, Nat)
  <2>1. Less = OpToRel(<, Nat)
    BY DEF OpToRel
  <2> QED
    BY <2>1, NatLessThanWellFounded
<1>2. PICK n \in S : \A m \in S : ~ (<<m, n>> \in Less)
  <2> HIDE DEF Less
  <2>1. S \in SUBSET Nat
    OBVIOUS
  <2> QED
    BY <1>1, <2>1, WFMin
<1>3. ASSUME NEW m \in S PROVE n <= m
  <2>1. n \in Nat /\ m \in Nat
    OBVIOUS
  <2>2. <<m, n>> \in Nat \X Nat /\ <<m, n>>[1] = m /\ <<m, n>>[2] = n
    BY <2>1
  <2>3. ~ (m < n)
    BY <1>2, <2>2
  <2> QED
    BY <2>1, <2>3
<1> QED
  BY <1>3

(* The list that starts at head, in a memory m: Chain(k) for any k and m,   *)
(* at this moment or the next.                                              *)
Nodes(head, m) ==
  LET node[n \in Unit] == IF n = 0 THEN head
                          ELSE LET last == node[n - 1]
                               IN IF last = Null THEN Null ELSE m[last].next
  IN {node[n] : n \in Unit} \ {Null}

(* A list of the allocator is the nodes that its head leads to, before and  *)
(* after a step.                                                            *)
LEMMA ChainNodes ==
  /\ \A k : Chain(k) = Nodes(free_lists[k], mem)
  /\ \A k : Chain(k)' = Nodes(free_lists'[k], mem')
BY DEF Chain, Nodes

(* The first nodes of the list, and Null after its end.                     *)
NodeAt(head, m, f, n) == IF n = 0 THEN head
                         ELSE LET last == f[n - 1]
                              IN IF last = Null THEN Null ELSE m[last].next

(* The first nodes from head on, in the order of their links.               *)
Walk(head, m, top, f) == f = [n \in 0 .. top |-> NodeAt(head, m, f, n)]

(* Each entry of the walk is what its definition says of it.                *)
LEMMA WalkAt ==
  ASSUME NEW head, NEW m, NEW top \in Nat, NEW f, Walk(head, m, top, f)
  PROVE  \A n \in 0 .. top : f[n] = NodeAt(head, m, f, n)
<1> DEFINE e(n) == NodeAt(head, m, f, n)
<1>1. f = [n \in 0 .. top |-> e(n)]
  BY DEF Walk
<1> HIDE DEF e
<1>2. \A n \in 0 .. top : f[n] = e(n)
  BY <1>1
<1> QED
  BY <1>2 DEF e

(* What follows a node, and Null what follows the end. *)
After(m, a) == IF a = Null THEN Null ELSE m[a].next

(* The walk starts at the head, and goes on to what follows.                *)
LEMMA WalkSteps ==
  ASSUME NEW head, NEW m, NEW top \in Nat, NEW f, Walk(head, m, top, f)
  PROVE  f[0] = head /\ \A n \in 0 .. top : n # 0 => f[n] = After(m, f[n - 1])
<1>1. 0 \in 0 .. top
  OBVIOUS
<1>2. \A n \in 0 .. top : f[n] = NodeAt(head, m, f, n)
  BY WalkAt
<1>3. NodeAt(head, m, f, 0) = head /\ \A n : n # 0 => NodeAt(head, m, f, n) = After(m, f[n - 1])
  BY DEF NodeAt, After
<1> QED
  BY <1>1, <1>2, <1>3

(* There is a walk of any length.                                           *)
LEMMA WalkExists ==
  ASSUME NEW head, NEW m, NEW top \in Nat
  PROVE  \E f : Walk(head, m, top, f)
<1> DEFINE Bad == {n \in Nat : ~ \E f : Walk(head, m, n, f)}
<1> SUFFICES ASSUME Bad # {} PROVE FALSE
  OBVIOUS
<1>1. PICK t \in Bad : \A n \in Bad : t <= n
  <2>1. Bad \subseteq Nat
    OBVIOUS
  <2> HIDE DEF Bad
  <2> QED
    BY <2>1, Least
<1>2. t \in Nat
  OBVIOUS
<1>3. CASE t = 0
  <2> DEFINE g == [n \in 0 .. t |-> head]
  <2>1. \A n \in 0 .. t : n = 0
    BY <1>3
  <2>2. [n \in 0 .. t |-> NodeAt(head, m, g, n)] = g
    BY <2>1 DEF NodeAt
  <2>3. Walk(head, m, t, g)
    BY <2>2 DEF Walk
  <2> QED
    BY <1>1, <2>3
<1>4. CASE t # 0
  <2> DEFINE u == t - 1
  <2>1. u \in Nat /\ u < t /\ t = u + 1
    BY <1>2, <1>4
  <2> HIDE DEF u
  <2>2. u \notin Bad
    BY <1>1, <1>2, <2>1
  <2>3. PICK f : Walk(head, m, u, f)
    BY <2>1, <2>2
  <2>9. \A n \in 0 .. u : f[n] = NodeAt(head, m, f, n)
    BY <2>1, <2>3, WalkAt
  <2> DEFINE g == [n \in 0 .. t |-> IF n = t THEN NodeAt(head, m, f, t) ELSE f[n]]
  <2>4. \A n \in 0 .. u : n \in 0 .. t /\ n # t /\ g[n] = f[n]
    BY <2>1
  <2>5. \A n \in 0 .. t : g[n] = NodeAt(head, m, g, n)
    <3> TAKE n \in 0 .. t
    <3>1. n # 0 => n - 1 \in 0 .. u
      BY <2>1
    <3>2. n # 0 => g[n - 1] = f[n - 1]
      BY <2>4, <3>1
    <3>3. NodeAt(head, m, g, n) = NodeAt(head, m, f, n)
      BY <3>2 DEF NodeAt
    <3>4. CASE n = t
      BY <3>3, <3>4
    <3>5. CASE n # t
      <4>1. n \in 0 .. u
        BY <2>1, <3>5
      <4>2. f[n] = NodeAt(head, m, f, n)
        BY <2>9, <4>1
      <4> QED
        BY <2>4, <3>3, <4>1, <4>2
    <3> QED
      BY <3>4, <3>5
  <2>6. g = [n \in 0 .. t |-> g[n]]
    OBVIOUS
  <2> HIDE DEF g
  <2>7. [n \in 0 .. t |-> g[n]] = [n \in 0 .. t |-> NodeAt(head, m, g, n)]
    BY <2>5
  <2>8. Walk(head, m, t, g)
    BY <2>6, <2>7 DEF Walk
  <2> QED
    BY <1>1, <2>8
<1> QED
  BY <1>3, <1>4

(* The addresses of the pool are 0 up to the size of its largest block, and *)
(* Null is none of them.                                                    *)
LEMMA UnitRange == /\ Size[MaxOrder] - 1 \in Nat /\ Unit = 0 .. Size[MaxOrder] - 1 /\ 0 \in Unit
                   /\ Null \notin Unit /\ Unit \subseteq Nat /\ Unit \subseteq Int
                   /\ MaxOrder \in Nat /\ MaxOrder \in Order
BY BlocksAssumption DEF Unit, Null, Order

(* The nodes of a list are those of a walk of as many steps as the pool has *)
(* units.                                                                   *)
LEMMA NodesWalk ==
  ASSUME NEW head, NEW m
  PROVE  \E f : /\ Walk(head, m, Size[MaxOrder] - 1, f)
                /\ Nodes(head, m) = {f[n] : n \in Unit} \ {Null}
<1> DEFINE Def(f) == f = [n \in Unit |-> IF n = 0 THEN head
                          ELSE LET last == f[n - 1]
                               IN IF last = Null THEN Null ELSE m[last].next]
           node == CHOOSE f : Def(f)
<1>1. \A f : Def(f) <=> Walk(head, m, Size[MaxOrder] - 1, f)
  BY UnitRange DEF Walk, NodeAt
<1>2. \E f : Def(f)
  BY <1>1, WalkExists, UnitRange
<1>3. Def(node)
  BY <1>2
<1>4. Nodes(head, m) = {node[n] : n \in Unit} \ {Null}
  BY DEF Nodes
<1>5. Walk(head, m, Size[MaxOrder] - 1, node)
  BY <1>1, <1>3
<1> HIDE DEF node, Def
<1> QED
  BY <1>4, <1>5

(* The walk that passes as many nodes as the pool has units.                *)
LEMMA PoolWalk ==
  ASSUME NEW head, NEW m, NEW f, Walk(head, m, Size[MaxOrder] - 1, f)
  PROVE  f[0] = head /\ \A n \in Unit : n # 0 => f[n] = After(m, f[n - 1])
<1> DEFINE top == Size[MaxOrder] - 1
<1>1. top \in Nat /\ Unit = 0 .. top
  BY UnitRange
<1>3. Walk(head, m, top, f)
  OBVIOUS
<1> HIDE DEF top
<1>2. f[0] = head /\ \A n \in 0 .. top : n # 0 => f[n] = After(m, f[n - 1])
  BY <1>1, <1>3, WalkSteps
<1> QED
  BY <1>1, <1>2

(* What the list is, whatever the memory: its head and Null at its end, and *)
(* no more than what the links lead to.                                     *)
LEMMA NodesHead ==
  ASSUME NEW head, NEW m, head # Null
  PROVE  head \in Nodes(head, m)
<1>1. PICK f : /\ Walk(head, m, Size[MaxOrder] - 1, f)
               /\ Nodes(head, m) = {f[n] : n \in Unit} \ {Null}
  BY NodesWalk
<1>2. f[0] = head
  BY <1>1, UnitRange, WalkSteps
<1> QED
  BY <1>1, <1>2, UnitRange

(* Whatever contains the head and what follows each member contains the     *)
(* list.                                                                    *)
LEMMA NodesLeast ==
  ASSUME NEW head, NEW m, NEW S,
         head # Null => head \in S,
         \A a \in S : m[a].next # Null => m[a].next \in S
  PROVE  Nodes(head, m) \subseteq S
<1>1. PICK f : /\ Walk(head, m, Size[MaxOrder] - 1, f)
               /\ Nodes(head, m) = {f[n] : n \in Unit} \ {Null}
  BY NodesWalk
<1> DEFINE Bad == {n \in Unit : f[n] # Null /\ f[n] \notin S}
<1>2. SUFFICES ASSUME Bad # {} PROVE FALSE
  BY <1>1
<1>3. PICK t \in Bad : \A n \in Bad : t <= n
  <2>1. Bad \subseteq Nat
    BY UnitRange
  <2> HIDE DEF Bad
  <2> QED
    BY <1>2, <2>1, Least
<1>4. t \in 0 .. Size[MaxOrder] - 1 /\ t # 0
  <2>1. f[0] = head
    BY <1>1, UnitRange, WalkSteps
  <2> QED
    BY <2>1, UnitRange
<1>5. f[t] = After(m, f[t - 1])
  BY <1>1, <1>4, UnitRange, PoolWalk
<1>6. t - 1 \in Unit /\ t - 1 < t
  BY <1>4, UnitRange
<1>7. t - 1 \notin Bad
  BY <1>3, <1>4, <1>6, UnitRange
<1> QED
  BY <1>3, <1>5, <1>6, <1>7 DEF After

(* A list is linked both ways, and all in the pool; then it is closed: it   *)
(* visits no node twice, and so ends within as many nodes as there are.     *)
Linked(head, m) ==
  /\ head # Null => m[head].prev = Null
  /\ \A a \in Nodes(head, m) : m[a].next # Null => m[m[a].next].prev = a
  /\ Nodes(head, m) \subseteq Unit

(* A linked list has no loop: were the walk still going when every unit has *)
(* been visited, it would have passed through one of them twice, and the    *)
(* links back say that it cannot.                                           *)
LEMMA NodesNext ==
  ASSUME NEW head, NEW m, Linked(head, m), NEW a \in Nodes(head, m),
         m[a].next # Null, m[a].next \in Unit
  PROVE  m[a].next \in Nodes(head, m)
<1> DEFINE top == Size[MaxOrder] - 1
           N == Nodes(head, m)
<1>0. top \in Nat /\ Unit = 0 .. top /\ Null \notin Unit /\ 0 \in Unit
  BY UnitRange
<1>1. PICK f : Walk(head, m, top, f) /\ N = {f[n] : n \in Unit} \ {Null}
  BY NodesWalk
<1> HIDE DEF top, N
<1>2. /\ f[0] = head
      /\ \A n \in 0 .. top : n # 0 => f[n] = After(m, f[n - 1])
  BY <1>0, <1>1, WalkSteps
<1>3. PICK i \in Unit : f[i] = a /\ f[i] # Null
  BY <1>1 DEF N
<1>4. CASE i < top
  <2>1. i + 1 \in Unit /\ i + 1 # 0 /\ (i + 1) - 1 = i
    BY <1>0, <1>4
  <2>2. f[i + 1] = m[a].next
    BY <1>0, <1>2, <1>3, <2>1 DEF After
  <2> QED
    BY <1>1, <2>1, <2>2 DEF N
<1>5. CASE i = top
  <2>1. \A n \in Unit : f[n] # Null
    <3> DEFINE Bad == {k \in Nat : k \in Unit /\ f[top - k] = Null}
    <3>1. SUFFICES ASSUME Bad # {} PROVE FALSE
      <4> SUFFICES ASSUME NEW n \in Unit, f[n] = Null PROVE Bad # {}
        BY <3>1
      <4>1. top - n \in Unit /\ top - n \in Nat /\ top - (top - n) = n
        BY <1>0
      <4> QED
        BY <4>1
    <3>2. PICK k \in Bad : \A j \in Bad : k <= j
      <4>1. Bad \subseteq Nat
        OBVIOUS
      <4> HIDE DEF Bad
      <4> QED
        BY <3>1, <4>1, Least
    <3>3. k # 0 /\ k \in 0 .. top
      BY <1>0, <1>3, <1>5
    <3>4. k - 1 \in Unit /\ k - 1 \in Nat /\ top - (k - 1) \in 0 .. top /\ top - (k - 1) # 0
            /\ (top - (k - 1)) - 1 = top - k
      BY <1>0, <3>3
    <3>5. f[top - (k - 1)] = Null
      BY <1>2, <3>2, <3>4 DEF After
    <3>6. k - 1 \in Bad
      BY <3>4, <3>5
    <3> QED
      BY <3>2, <3>3, <3>6
  <2>2. \A n \in Unit : f[n] \in N /\ f[n] \in Unit
    BY <1>1, <2>1 DEF Linked, N
  <2>3. \A n \in 0 .. top : n # 0 => n - 1 \in Unit /\ f[n] = m[f[n - 1]].next
                                    /\ m[f[n]].prev = f[n - 1]
    <3> SUFFICES ASSUME NEW n \in 0 .. top, n # 0
                 PROVE  n - 1 \in Unit /\ f[n] = m[f[n - 1]].next /\ m[f[n]].prev = f[n - 1]
      OBVIOUS
    <3>1. n - 1 \in Unit
      BY <1>0
    <3>2. f[n] = m[f[n - 1]].next /\ f[n] # Null
      BY <1>0, <1>2, <2>1, <3>1 DEF After
    <3>3. f[n - 1] \in N
      BY <2>2, <3>1
    <3> QED
      BY <3>1, <3>2, <3>3 DEF Linked, N
  <2>4. m[f[0]].prev = Null
    BY <1>0, <1>2, <2>1 DEF Linked
  <2>5. \A p, q \in Unit : p < q => f[p] # f[q]
    <3> DEFINE Bad == {p \in Unit : \E q \in Unit : p < q /\ f[p] = f[q]}
    <3>1. SUFFICES ASSUME Bad # {} PROVE FALSE
      OBVIOUS
    <3>2. PICK p \in Bad : \A j \in Bad : p <= j
      <4>1. Bad \subseteq Nat
        BY UnitRange
      <4> HIDE DEF Bad
      <4> QED
        BY <3>1, <4>1, Least
    <3>3. PICK q \in Unit : p < q /\ f[p] = f[q]
      OBVIOUS
    <3>4. p \in 0 .. top /\ q \in 0 .. top /\ q # 0
      BY <1>0, <3>3
    <3>5. p # 0
      BY <1>0, <2>1, <2>3, <2>4, <3>3, <3>4
    <3>6. p - 1 \in Unit /\ q - 1 \in Unit /\ p - 1 < q - 1 /\ p - 1 < p
      BY <1>0, <3>3, <3>4, <3>5
    <3>7. f[p - 1] = f[q - 1]
      BY <2>3, <3>3, <3>4, <3>5
    <3>8. p - 1 \in Bad
      BY <3>6, <3>7
    <3> QED
      BY <1>0, <3>2, <3>4, <3>6, <3>8
  <2>6. f \in Injection(Unit, Unit)
    <3>1. f \in [Unit -> Unit]
      <4>1. f = [n \in 0 .. top |-> NodeAt(head, m, f, n)]
        BY <1>1 DEF Walk
      <4>2. DOMAIN f = Unit /\ f = [n \in Unit |-> f[n]]
        BY <1>0, <4>1
      <4> QED
        BY <2>2, <4>2
    <3>2. \A p, q \in Unit : f[p] = f[q] => p = q
      BY <1>0, <2>5
    <3> QED
      BY <3>1, <3>2 DEF Injection, IsInjective
  <2>7. IsFiniteSet(Unit)
    BY <1>0, FS_Interval
  <2>8. f \in Surjection(Unit, Unit)
    BY <2>6, <2>7, FS_Injection
  <2>9. PICK n \in Unit : f[n] = m[a].next
    BY <2>8 DEF Surjection
  <2> QED
    BY <1>1, <2>2, <2>9 DEF N
<1> QED
  BY <1>0, <1>3, <1>4, <1>5

(* A closed list: what the links lead to from a node is a node.             *)
LEMMA NodesClosed ==
  ASSUME NEW head \in Pointer, NEW m, Linked(head, m), \A a \in Unit : m[a].next \in Pointer
  PROVE  /\ head # Null => head \in Nodes(head, m)
         /\ Nodes(head, m) \subseteq Unit
         /\ \A a \in Nodes(head, m) : m[a].next # Null => m[a].next \in Nodes(head, m)
<1>1. Nodes(head, m) \subseteq Unit
  BY DEF Linked
<1>2. ASSUME NEW a \in Nodes(head, m), m[a].next # Null PROVE m[a].next \in Nodes(head, m)
  <2>1. m[a].next \in Unit
    BY <1>1, <1>2 DEF Pointer
  <2> QED
    BY <1>2, <2>1, NodesNext
<1> QED
  BY <1>1, <1>2, NodesHead

(* Memory that changes outside of a list leaves the list as it is.          *)
LEMMA NodesKept ==
  ASSUME NEW head \in Pointer, NEW m, NEW w, Linked(head, m),
         \A a \in Unit : m[a].next \in Pointer,
         \A a \in Nodes(head, m) : w[a].next = m[a].next /\ w[a].prev = m[a].prev
  PROVE  Nodes(head, w) = Nodes(head, m) /\ Linked(head, w)
<1> DEFINE N == Nodes(head, m)
           W == Nodes(head, w)
<1>1. /\ head # Null => head \in N
      /\ N \subseteq Unit
      /\ \A a \in N : m[a].next # Null => m[a].next \in N
  BY NodesClosed
<1>2. W \subseteq N
  <2>1. \A a \in N : w[a].next # Null => w[a].next \in N
    BY <1>1
  <2> HIDE DEF N
  <2> QED
    BY <1>1, <2>1, NodesLeast
<1>3. Linked(head, w)
  BY <1>1, <1>2 DEF Linked
<1>4. /\ head # Null => head \in W
      /\ \A a \in W : w[a].next # Null => w[a].next \in W
  <2>1. ASSUME NEW a \in W, w[a].next # Null PROVE w[a].next \in W
    <3>1. w[a].next \in Unit
      BY <1>1, <1>2, <2>1
    <3> QED
      BY <1>3, <2>1, <3>1, NodesNext
  <2> QED
    BY <2>1, NodesHead
<1>5. N \subseteq W
  <2>1. \A a \in W : m[a].next # Null => m[a].next \in W
    BY <1>2, <1>4
  <2> HIDE DEF W
  <2> QED
    BY <1>4, <2>1, NodesLeast
<1> QED
  BY <1>2, <1>3, <1>5

(* A block that is put before the head of a list. *)
LEMMA NodesPushed ==
  ASSUME NEW head \in Pointer, NEW m, NEW w, NEW x \in Unit, Linked(head, m),
         \A a \in Unit : m[a].next \in Pointer,
         x \notin Nodes(head, m),
         w[x].next = head, w[x].prev = Null,
         \A a \in Nodes(head, m) : w[a].next = m[a].next,
         \A a \in Nodes(head, m) : w[a].prev = IF a = head THEN x ELSE m[a].prev
  PROVE  Nodes(x, w) = Nodes(head, m) \cup {x} /\ Linked(x, w)
<1> DEFINE N == Nodes(head, m)
           W == Nodes(x, w)
<1>0. x # Null /\ x \in W
  BY UnitRange, NodesHead
<1>1. /\ head # Null => head \in N
      /\ N \subseteq Unit
      /\ \A a \in N : m[a].next # Null => m[a].next \in N
  BY NodesClosed
<1>2. W \subseteq N \cup {x}
  <2>1. \A a \in N \cup {x} : w[a].next # Null => w[a].next \in N \cup {x}
    BY <1>1
  <2> HIDE DEF N
  <2> QED
    BY <1>1, <2>1, NodesLeast
<1>3. Linked(x, w)
  <2>1. ASSUME NEW a \in W, w[a].next # Null PROVE w[w[a].next].prev = a
    <3>1. CASE a = x
      BY <1>1, <2>1, <3>1
    <3>2. CASE a # x
      <4>1. a \in N /\ w[a].next = m[a].next /\ m[a].next \in N
        BY <1>1, <1>2, <2>1, <3>2
      <4>2. m[m[a].next].prev = a
        BY <2>1, <4>1 DEF Linked
      <4>3. m[a].next # head
        BY <1>1, <2>1, <4>1, <4>2, UnitRange DEF Linked
      <4> QED
        BY <4>1, <4>2, <4>3
    <3> QED
      BY <3>1, <3>2
  <2> QED
    BY <1>1, <1>2, <2>1 DEF Linked
<1>4. \A a \in W : w[a].next # Null => w[a].next \in W
  <2>1. ASSUME NEW a \in W, w[a].next # Null PROVE w[a].next \in W
    <3>1. w[a].next \in Unit
      BY <1>1, <1>2, <2>1
    <3> QED
      BY <1>3, <2>1, <3>1, NodesNext
  <2> QED
    BY <2>1
<1>5. N \subseteq W
  <2>1. head # Null => head \in N \cap W
    BY <1>0, <1>1, <1>4
  <2>2. \A a \in N \cap W : m[a].next # Null => m[a].next \in N \cap W
    BY <1>1, <1>4
  <2>3. N \subseteq N \cap W
    <3> HIDE DEF W
    <3> DEFINE S == N \cap W
    <3>1. (head # Null => head \in S) /\ \A a \in S : m[a].next # Null => m[a].next \in S
      BY <2>1, <2>2
    <3> HIDE DEF S
    <3>2. Nodes(head, m) \subseteq S
      BY <3>1, NodesLeast
    <3> QED
      BY <3>2 DEF S
  <2> QED
    BY <2>3
<1> QED
  BY <1>0, <1>2, <1>3, <1>5

(* A node other than the head follows the node it names as its predecessor. *)
LEMMA NodesPrevious ==
  ASSUME NEW head \in Pointer, NEW m, Linked(head, m), \A a \in Unit : m[a].next \in Pointer,
         NEW y \in Nodes(head, m), NEW p, p = m[y].prev
  PROVE  /\ p = Null <=> y = head
         /\ p # Null => p \in Nodes(head, m) /\ p # y /\ m[p].next = y
<1> DEFINE N == Nodes(head, m)
<1>1. /\ head # Null => head \in N
      /\ N \subseteq Unit /\ Null \notin N
      /\ \A a \in N : m[a].next # Null => m[a].next \in N
  BY NodesClosed, UnitRange
<1>2. \A a, b \in N : m[a].next = b => m[b].prev = a
  BY <1>1 DEF Linked
<1>3. head \in N => m[head].prev = Null
  BY <1>1 DEF Linked
<1>4. p = Null <=> y = head
  <2>1. CASE y = head
    BY <1>3, <2>1
  <2>2. CASE y # head
    <3> SUFFICES ASSUME p = Null PROVE FALSE
      BY <2>2
    <3> DEFINE S == N \ {y}
    <3>1. head # Null => head \in S
      BY <1>1, <2>2
    <3>2. \A a \in S : m[a].next # Null => m[a].next \in S
      <4>1. ASSUME NEW a \in N, m[a].next = y PROVE FALSE
        <5>1. y \in N /\ m[y].prev = a
          BY <1>2, <4>1
        <5> QED
          BY <1>1, <5>1
      <4> QED
        BY <1>1, <4>1
    <3> HIDE DEF S
    <3>3. N \subseteq S
      BY <3>1, <3>2, NodesLeast
    <3> QED
      BY <3>3 DEF S
  <2> QED
    BY <2>1, <2>2
<1>5. p # Null => p \in N /\ p # y /\ m[p].next = y
  <2> SUFFICES ASSUME p # Null PROVE p \in N /\ p # y /\ m[p].next = y
    OBVIOUS
  <2> DEFINE S == N \ {y}
  <2>1. head # Null => head \in S
    BY <1>1, <1>4
  <2>2. PICK a \in S : m[a].next # Null /\ m[a].next \notin S
    <3> SUFFICES ASSUME \A a \in S : m[a].next # Null => m[a].next \in S PROVE FALSE
      OBVIOUS
    <3> HIDE DEF S
    <3>1. N \subseteq S
      BY <2>1, NodesLeast
    <3> QED
      BY <3>1 DEF S
  <2>3. a \in N /\ m[a].next = y
    BY <1>1, <2>2
  <2> QED
    BY <1>2, <2>2, <2>3
<1> QED
  BY <1>4, <1>5

(* w differs from m, and first from head, in that y is unlinked.             *)
Unlinked(head, m, y, first, w) ==
  LET p == m[y].prev
      n == m[y].next
  IN /\ first = IF p = Null THEN n ELSE head
     /\ \A a \in Nodes(head, m) \ {y} : /\ w[a].next = IF a = p THEN n ELSE m[a].next
                                        /\ w[a].prev = IF a = n THEN p ELSE m[a].prev

(* A block that is taken out of a list, from its head or from within, leaves *)
(* the others, linked as before.                                            *)
LEMMA NodesRemoved ==
  ASSUME NEW head \in Pointer, NEW m, NEW w, NEW y, Linked(head, m),
         \A a \in Unit : m[a].next \in Pointer /\ m[a].prev \in Pointer,
         y \in Nodes(head, m), NEW first, Unlinked(head, m, y, first, w)
  PROVE  Nodes(first, w) = Nodes(head, m) \ {y} /\ Linked(first, w)
<1> SUFFICES ASSUME NEW p, NEW n,
         p = m[y].prev, n = m[y].next, first = IF p = Null THEN n ELSE head,
         \A a \in Nodes(head, m) \ {y} : w[a].next = IF a = p THEN n ELSE m[a].next,
         \A a \in Nodes(head, m) \ {y} : w[a].prev = IF a = n THEN p ELSE m[a].prev
    PROVE  Nodes(first, w) = Nodes(head, m) \ {y} /\ Linked(first, w)
  BY DEF Unlinked
<1> DEFINE N == Nodes(head, m)
           W == Nodes(first, w)
<1>1. /\ head # Null => head \in N
      /\ N \subseteq Unit /\ Null \notin N
      /\ \A a \in N : m[a].next # Null => m[a].next \in N
  BY NodesClosed, UnitRange
<1>2. \A a, b \in N : m[a].next = b => m[b].prev = a
  BY <1>1 DEF Linked
<1>3. head \in N => m[head].prev = Null
  BY <1>1 DEF Linked
<1>4. p = Null <=> y = head
  BY NodesPrevious
<1>5. p # Null => p \in N /\ p # y /\ m[p].next = y
  BY NodesPrevious
<1>6. n # Null => n \in N /\ n # y /\ m[n].prev = y
  BY <1>1, <1>2, <1>5, UnitRange
<1>7. first # Null => first \in N \ {y}
  BY <1>1, <1>4, <1>6
<1>8. \A a \in N \ {y} : w[a].next # Null => w[a].next \in N \ {y} /\ w[w[a].next].prev = a
  <2> SUFFICES ASSUME NEW a \in N \ {y}, w[a].next # Null
               PROVE  w[a].next \in N \ {y} /\ w[w[a].next].prev = a
    OBVIOUS
  <2>1. CASE a = p
    BY <1>6, <2>1
  <2>2. CASE a # p
    <3>1. w[a].next = m[a].next /\ m[a].next \in N /\ m[m[a].next].prev = a
      BY <1>1, <1>2, <2>2
    <3>2. m[a].next # y /\ m[a].next # n
      BY <1>6, <2>2, <3>1
    <3> QED
      BY <3>1, <3>2
  <2> QED
    BY <2>1, <2>2
<1>9. W \subseteq N \ {y}
  <2> DEFINE S == N \ {y}
  <2>1. (first # Null => first \in S) /\ \A a \in S : w[a].next # Null => w[a].next \in S
    BY <1>7, <1>8
  <2> HIDE DEF S
  <2>2. W \subseteq S
    BY <2>1, NodesLeast
  <2> QED
    BY <2>2 DEF S
<1>10. first # Null => w[first].prev = Null
  <2> SUFFICES ASSUME first # Null PROVE w[first].prev = Null
    OBVIOUS
  <2>1. first \in N \ {y}
    BY <1>7
  <2>2. CASE p = Null
    BY <2>1, <2>2
  <2>3. CASE p # Null
    <3>1. first = head /\ m[head].prev = Null
      BY <1>3, <2>1, <2>3
    <3>2. head # n
      BY <1>1, <1>6, <2>1, <3>1
    <3> QED
      BY <2>1, <3>1, <3>2
  <2> QED
    BY <2>2, <2>3
<1>11. Linked(first, w)
  <2>1. W \subseteq Unit
    BY <1>1, <1>9
  <2>2. \A a \in W : w[a].next # Null => w[w[a].next].prev = a
    BY <1>8, <1>9
  <2> QED
    BY <1>10, <2>1, <2>2 DEF Linked
<1>12. /\ first # Null => first \in W
       /\ \A a \in W : w[a].next # Null => w[a].next \in W
  <2>1. ASSUME NEW a \in W, w[a].next # Null PROVE w[a].next \in W
    <3>1. w[a].next \in Unit
      BY <1>1, <1>8, <1>9, <2>1
    <3> QED
      BY <1>11, <2>1, <3>1, NodesNext
  <2> QED
    BY <2>1, NodesHead
<1>13. N \ {y} \subseteq W
  <2> DEFINE S == {a \in N : a \in W \/ (a = y /\ (p = Null \/ p \in W))}
  <2>1. head # Null => head \in S
    BY <1>1, <1>4, <1>12
  <2>2. ASSUME NEW a \in S, m[a].next # Null PROVE m[a].next \in S
    <3>1. m[a].next \in N
      BY <1>1, <2>2
    <3>2. CASE a = y
      <4>1. a \notin W
        BY <1>9, <3>2
      <4>2. CASE p = Null
        BY <1>12, <2>2, <3>1, <3>2, <4>2
      <4>3. CASE p # Null
        <5>1. p \in W /\ p \in N \ {y} /\ w[p].next = n
          BY <1>5, <3>2, <4>1, <4>3
        <5> QED
          BY <1>12, <2>2, <3>1, <3>2, <5>1
      <4> QED
        BY <4>2, <4>3
    <3>3. CASE a # y /\ a = p
      <4>1. m[a].next = y /\ a \in W /\ p # Null
        BY <1>1, <1>5, <3>3
      <4> QED
        BY <3>1, <3>3, <4>1
    <3>4. CASE a # y /\ a # p
      <4>1. w[a].next = m[a].next /\ a \in W
        BY <3>4
      <4> QED
        BY <1>12, <2>2, <3>1, <4>1
    <3> QED
      BY <3>2, <3>3, <3>4
  <2>3. \A a \in S : m[a].next # Null => m[a].next \in S
    BY <2>2
  <2> HIDE DEF S, W
  <2>4. N \subseteq S
    BY <2>1, <2>3, NodesLeast
  <2> QED
    BY <2>4 DEF S
<1> QED
  BY <1>9, <1>11, <1>13

-----------------------------------------------------------------------------
(* Sizes and addresses.                                                     *)
LEMMA OrderSizes ==
  /\ \A k \in Order : Size[k] \in Nat \ {0}
  /\ \A k \in Order \ {MaxOrder} : k + 1 \in Order /\ Size[k + 1] = 2 * Size[k]
  /\ Order \subseteq Nat /\ MaxOrder \in Nat /\ MaxOrder \in Order
  /\ \A k \in Order : k # 0 => k - 1 \in Order \ {MaxOrder} /\ (k - 1) + 1 = k
BY BlocksAssumption DEF Order

(* Multiplying by a positive number keeps the order of two numbers and tells *)
(* them apart.                                                              *)
LEMMA TimesOrder ==
  ASSUME NEW n \in Nat \ {0}, NEW a \in Nat, NEW b \in Nat
  PROVE  /\ n * a \in Nat
         /\ a <= b => n * a <= n * b
         /\ n * a < n * b => a < b
         /\ n * a = n * b => a = b
<1>1. a < b => n * a < n * b
  <2> SUFFICES ASSUME a < b PROVE n * a < n * b
    OBVIOUS
  <2> DEFINE d == b - a
  <2>1. d \in Nat \ {0} /\ b = a + d
    OBVIOUS
  <2> HIDE DEF d
  <2>2. n * b = n * a + n * d /\ n * d > 0
    BY <2>1
  <2> QED
    BY <2>2
<1>2. b < a => n * b < n * a
  <2> SUFFICES ASSUME b < a PROVE n * b < n * a
    OBVIOUS
  <2> DEFINE d == a - b
  <2>1. d \in Nat \ {0} /\ a = b + d
    OBVIOUS
  <2> HIDE DEF d
  <2>2. n * a = n * b + n * d /\ n * d > 0
    BY <2>1
  <2> QED
    BY <2>2
<1> DEFINE x == n * a
           y == n * b
<1>3. x \in Nat /\ y \in Nat /\ (a = b => x = y)
  OBVIOUS
<1>4. (a < b => x < y) /\ (b < a => y < x)
  BY <1>1, <1>2
<1> HIDE DEF x, y
<1>5. x \in Nat /\ (a <= b => x <= y) /\ (x < y => a < b) /\ (x = y => a = b)
  BY <1>3, <1>4
<1> QED
  BY <1>5 DEF x, y

(* Division with remainder has one result. *)
LEMMA Remainders ==
  ASSUME NEW n \in Nat \ {0}, NEW q \in Nat, NEW r \in 0 .. n - 1
  PROVE  (n * q + r) % n = r
<1> DEFINE a == n * q + r
           p == a \div n
           t == a % n
<1>1. a \in Nat
  OBVIOUS
<1>2. p \in Nat /\ t \in 0 .. n - 1 /\ a = n * p + t
  BY <1>1
<1>3. n * q + r = n * p + t
  BY <1>2
<1> HIDE DEF a, p, t
<1>4. p = q
  <2>1. CASE p < q
    <3> DEFINE d == q - p
    <3>1. d \in Nat \ {0} /\ q = p + d
      BY <1>2, <2>1
    <3> HIDE DEF d
    <3>2. n * q = n * p + n * d /\ n * d >= n
      BY <1>2, <3>1
    <3> QED
      BY <1>2, <1>3, <3>2
  <2>2. CASE q < p
    <3> DEFINE d == p - q
    <3>1. d \in Nat \ {0} /\ p = q + d
      BY <1>2, <2>2
    <3> HIDE DEF d
    <3>2. n * p = n * q + n * d /\ n * d >= n
      BY <1>2, <3>1
    <3> QED
      BY <1>2, <1>3, <3>2
  <2> QED
    BY <1>2, <2>1, <2>2
<1>5. t = r
  BY <1>2, <1>3, <1>4
<1> QED
  BY <1>5 DEF t, a

(* What leaves no remainder is a multiple.                                  *)
LEMMA MultiplesOf ==
  ASSUME NEW n \in Nat \ {0}, NEW a \in Nat
  PROVE  a % n = 0 <=> \E q \in Nat : a = n * q
<1>1. ASSUME a % n = 0 PROVE \E q \in Nat : a = n * q
  <2> DEFINE q == a \div n
             r == a % n
  <2>1. q \in Nat /\ a = n * q + r
    OBVIOUS
  <2>2. r = 0
    BY <1>1
  <2> HIDE DEF q, r
  <2>3. a = n * q
    BY <2>1, <2>2
  <2> QED
    BY <2>1, <2>3
<1>2. ASSUME NEW q \in Nat, a = n * q PROVE a % n = 0
  <2>1. (n * q + 0) % n = 0
    BY Remainders
  <2>2. n * q + 0 = a
    BY <1>2
  <2> QED
    BY <2>1, <2>2
<1> QED
  BY <1>1, <1>2

(* The size of a block is a multiple of the size of every smaller one.      *)
LEMMA SizesDivide ==
  ASSUME NEW j \in Order, NEW k \in Order, j <= k
  PROVE  \E q \in Nat \ {0} : Size[k] = Size[j] * q
<1> DEFINE Bad == {i \in Nat : i \in Order /\ j <= i /\ ~ \E q \in Nat \ {0} : Size[i] = Size[j] * q}
<1>1. SUFFICES ASSUME Bad # {} PROVE FALSE
  BY OrderSizes
<1>2. PICK t \in Bad : \A i \in Bad : t <= i
  <2>1. Bad \subseteq Nat
    OBVIOUS
  <2> HIDE DEF Bad
  <2> QED
    BY <1>1, <2>1, Least
<1>3. t \in Nat /\ t \in Order /\ j <= t /\ j \in Nat
  BY OrderSizes
<1>4. t # j
  <2>1. Size[j] \in Nat \ {0}
    BY OrderSizes
  <2>2. Size[j] = Size[j] * 1 /\ 1 \in Nat \ {0}
    BY <2>1
  <2> QED
    BY <2>2
<1>5. t - 1 \in Order \ {MaxOrder} /\ (t - 1) + 1 = t /\ j <= t - 1 /\ t - 1 \in Nat
  BY <1>3, <1>4, OrderSizes
<1>6. Size[t] = 2 * Size[t - 1]
  BY <1>5, OrderSizes
<1>7. PICK q \in Nat \ {0} : Size[t - 1] = Size[j] * q
  BY <1>2, <1>3, <1>5
<1> DEFINE s == Size[j]
           q2 == 2 * q
<1>8. s \in Nat \ {0} /\ Size[t] = 2 * (s * q)
  BY <1>6, <1>7, OrderSizes
<1>9. q2 \in Nat \ {0} /\ q2 = 2 * q
  OBVIOUS
<1>10. Size[t] = s * q2
  <2> HIDE DEF s, q2, Bad
  <2> QED
    BY <1>8, <1>9
<1> QED
  BY <1>9, <1>10

(* Of two blocks that start at multiples of their sizes and share an        *)
(* address, the smaller lies in the larger.                                 *)
LEMMA Nested ==
  ASSUME NEW i \in Order, NEW j \in Order, i <= j,
         NEW a \in Nat, a % Size[i] = 0, NEW c \in Nat, c % Size[j] = 0,
         NEW x \in Nat, a <= x, x < a + Size[i], c <= x, x < c + Size[j]
  PROVE  c <= a /\ a + Size[i] <= c + Size[j]
<1> DEFINE s == Size[i]
           l == Size[j]
<1>1. s \in Nat \ {0} /\ l \in Nat \ {0}
  BY OrderSizes
<1>2. PICK q \in Nat \ {0} : l = s * q
  BY SizesDivide
<1>3. PICK u \in Nat : a = s * u
  BY <1>1, MultiplesOf
<1>4. PICK v \in Nat : c = l * v
  BY <1>1, MultiplesOf
<1>5. a <= x /\ x < a + s /\ c <= x /\ x < c + l
  OBVIOUS
<1> HIDE DEF s, l
<1> DEFINE f == q * v
           g == f + q
           h == u + 1
<1>6. f \in Nat /\ g \in Nat /\ h \in Nat
  OBVIOUS
<1>7. c = s * f
  BY <1>1, <1>2, <1>4
<1>8. c + l = s * g
  BY <1>1, <1>2, <1>4, <1>7
<1>9. a + s = s * h
  BY <1>1, <1>3
<1>10. s * f < s * h /\ s * u < s * g
  BY <1>1, <1>3, <1>5, <1>6, <1>7, <1>8, <1>9
<1>11. f < h /\ u < g
  <2> HIDE DEF f, g, h
  <2> QED
    BY <1>1, <1>6, <1>10, TimesOrder
<1>12. f <= u /\ h <= g
  BY <1>6, <1>11
<1>13. s * f <= s * u /\ s * h <= s * g
  <2> HIDE DEF f, g, h
  <2> QED
    BY <1>1, <1>6, <1>12, TimesOrder
<1> QED
  BY <1>3, <1>7, <1>8, <1>9, <1>13 DEF s, l

(* The least of two numbers. *)
LEMMA MinOfTwo ==
  ASSUME NEW a \in Int, NEW b \in Int
  PROVE  Min({a, b}) = IF a <= b THEN a ELSE b
<1>1. CASE a <= b
  <2>1. a \in {a, b} /\ \A y \in {a, b} : a <= y
    BY <1>1
  <2>2. \A x \in {a, b} : (\A y \in {a, b} : x <= y) => x = a
    BY <1>1
  <2> QED
    BY <1>1, <2>1, <2>2 DEF Min
<1>2. CASE ~ (a <= b)
  <2>1. b \in {a, b} /\ \A y \in {a, b} : b <= y
    BY <1>2
  <2>2. \A x \in {a, b} : (\A y \in {a, b} : x <= y) => x = b
    BY <1>2
  <2> QED
    BY <1>2, <2>1, <2>2 DEF Min
<1> QED
  BY <1>1, <1>2

(* A block and its buddy are the two halves of a block.                     *)
LEMMA Buddies ==
  ASSUME NEW k \in Order \ {MaxOrder}, NEW a \in Unit, a % Size[k] = 0
  PROVE  LET x == BuddyOf(a, k)
             p == Min({a, x})
         IN /\ x \in Unit /\ x # a /\ x % Size[k] = 0 /\ BuddyOf(x, k) = a
            /\ p \in Unit /\ p % Size[k + 1] = 0
            /\ {a, x} = {p, p + Size[k]}
            /\ p + Size[k + 1] <= Size[MaxOrder]
<1> DEFINE s == Size[k]
           n == 2 * s
           top == Size[MaxOrder]
           p == n * (a \div n)
<1>1. s \in Nat \ {0} /\ n \in Nat \ {0} /\ Size[k + 1] = n /\ top \in Nat \ {0} /\ a \in Nat /\ a < top
  BY OrderSizes, UnitRange
<1>2. PICK u \in Nat : a = s * u
  BY <1>1, MultiplesOf
<1>3. PICK m \in Nat \ {0} : top = n * m
  <2>1. k + 1 \in Order /\ k + 1 <= MaxOrder
    BY OrderSizes DEF Order
  <2> QED
    BY <1>1, <2>1, SizesDivide, OrderSizes
<1> DEFINE v == a \div n
           r == a % n
<1>4. v \in Nat /\ r \in 0 .. n - 1 /\ a = n * v + r
  <2> HIDE DEF n
  <2> QED
    BY <1>1
<1> HIDE DEF v, r
<1>5. r = 0 \/ r = s
  <2> DEFINE d == u - 2 * v
  <2>1. d \in Int
    BY <1>4
  <2>2. r = s * d
    <3> HIDE DEF r, v
    <3> HIDE DEF s
    <3> QED
      BY <1>1, <1>2, <1>4
  <2> HIDE DEF d
  <2>3. /\ d <= -1 => s * d <= -s
        /\ d >= 2 => s * d >= 2 * s
        /\ d = 0 => s * d = 0
        /\ d = 1 => s * d = s
    <3> HIDE DEF s
    <3> QED
      BY <1>1, <2>1
  <2>4. d = 0 \/ d = 1
    <3> HIDE DEF s
    <3> QED
      BY <1>1, <1>4, <2>1, <2>2, <2>3
  <2> QED
    BY <2>2, <2>3, <2>4
<1>15. p \in Nat
  BY <1>1, <1>4 DEF v
<1>6. p \in Nat /\ p = n * v /\ a = p + r
  BY <1>1, <1>4 DEF v
<1>7. p + n <= top
  <2>1. n * v < n * m
    BY <1>1, <1>3, <1>4
  <2>2. v < m
    <3> HIDE DEF n
    <3> QED
      BY <1>1, <1>4, <2>1, TimesOrder
  <2>3. v + 1 <= m /\ v + 1 \in Nat /\ m \in Nat
    BY <1>4, <2>2
  <2>4. n * (v + 1) <= n * m
    <3> HIDE DEF n
    <3> DEFINE v1 == v + 1
    <3>1. v1 \in Nat /\ v1 <= m
      BY <2>3
    <3> HIDE DEF v1
    <3>2. n * v1 <= n * m
      BY <1>1, <3>1, TimesOrder
    <3> QED
      BY <3>2 DEF v1
  <2>5. n * (v + 1) = n * v + n
    <3> HIDE DEF n
    <3> QED
      BY <1>1, <1>4
  <2> QED
    BY <1>3, <1>6, <2>4, <2>5
<1>8. p % n = 0 /\ (p + s) % n = s /\ p % s = 0 /\ (p + s) % s = 0
  <2>1. p % n = 0
    <3> HIDE DEF n, p
    <3> QED
      BY <1>1, <1>4, <1>6, MultiplesOf
  <2>2. (p + s) % n = s
    <3>1. s \in 0 .. n - 1
      BY <1>1
    <3> HIDE DEF n, p, s
    <3> QED
      BY <1>1, <1>4, <1>6, <3>1, Remainders
  <2> DEFINE e == 2 * v
             o == e + 1
  <2>3. e \in Nat /\ o \in Nat
    BY <1>4
  <2>4. p = s * e /\ p + s = s * o
    <3> HIDE DEF p
    <3> HIDE DEF s
    <3> QED
      BY <1>1, <1>4, <1>6
  <2>5. p % s = 0 /\ (p + s) % s = 0
    <3> DEFINE t == p + s
    <3>1. t \in Nat /\ t = s * o
      BY <1>1, <1>6, <2>4
    <3> HIDE DEF p, s, e, o, t
    <3>2. p % s = 0 /\ t % s = 0
      BY <1>1, <1>6, <2>3, <2>4, <3>1, MultiplesOf
    <3> QED
      BY <3>2 DEF t
  <2> QED
    BY <2>1, <2>2, <2>5
<1> DEFINE t == p + s
<1>9. p \in Unit /\ t \in Unit /\ t = p + s /\ t - s = p /\ p # t /\ p <= t /\ ~ (t <= p)
  <2>1. n = s + s /\ t = p + s /\ top = Size[MaxOrder]
    BY <1>1
  <2> HIDE DEF p, s, n, t, top
  <2>2. p \in Nat /\ s \in Nat /\ s > 0 /\ p + s < top
    BY <1>1, <1>15, <1>7, <2>1
  <2>3. p \in 0 .. top - 1 /\ t \in 0 .. top - 1
    BY <1>1, <2>1, <2>2
  <2>4. t = p + s /\ t - s = p /\ p # t /\ p <= t /\ ~ (t <= p)
    BY <2>1, <2>2
  <2>5. Unit = 0 .. top - 1
    BY <2>1, UnitRange
  <2> QED
    BY <2>3, <2>4, <2>5
<1>10. BuddyOf(p, k) = t /\ BuddyOf(t, k) = p
  <2>1. p % (2 * Size[k]) = 0 /\ t % (2 * Size[k]) # 0
    BY <1>1, <1>8
  <2>2. BuddyOf(p, k) = p + Size[k] /\ BuddyOf(t, k) = t - Size[k]
    <3> HIDE DEF p, t
    <3> QED
      BY <2>1 DEF BuddyOf
  <2> QED
    BY <1>9, <2>2
<1>11. (a = p /\ BuddyOf(a, k) = t) \/ (a = t /\ BuddyOf(a, k) = p)
  BY <1>5, <1>6, <1>10
<1>12. Min({p, t}) = p /\ {p, t} = {t, p}
  <2>1. p \in Int /\ t \in Int
    BY <1>1, <1>6
  <2> HIDE DEF p, t
  <2> QED
    BY <1>9, <2>1, MinOfTwo
<1> DEFINE x == BuddyOf(a, k)
<1>13. /\ x \in Unit /\ x # a /\ x % s = 0 /\ BuddyOf(x, k) = a
       /\ {a, x} = {p, t} /\ Min({a, x}) = p
  <2>1. (a = p /\ x = t) \/ (a = t /\ x = p)
    BY <1>11
  <2>2. p % s = 0 /\ t % s = 0
    BY <1>8
  <2> HIDE DEF x, p, t, s
  <2> QED
    BY <1>9, <1>10, <1>12, <2>1, <2>2
<1>14. p \in Unit /\ p % Size[k + 1] = 0 /\ p + Size[k + 1] <= Size[MaxOrder] /\ t = p + Size[k]
  BY <1>1, <1>7, <1>8, <1>9
<1> HIDE DEF x, p, t
<1> QED
  BY <1>13, <1>14 DEF x

-----------------------------------------------------------------------------
(* A header as the allocator may find it.                                   *)
Node == [order : 0 .. Other, used : BOOLEAN, prev : Pointer, next : Pointer]

(* A block that a client holds, with or without a header of its own.        *)
Holding == [addr : Unit, order : Order, headed : BOOLEAN, size : Nat]

(* What the last call has done and answered. *)
Reply == [op : {"none", "allocating", "alloc", "free", "misfree"}, size : Nat, addr : Pointer]

(* The values of the variables, between any two steps.                      *)
TypeInv ==
  /\ mem \in [Pointer -> Node]
  /\ free_lists \in [Order -> Pointer]
  /\ total_used \in Int
  /\ phase \in {"uninit", "idle", "splitting", "merging", "misfreed"}
  /\ job \in [order : Order, level : Order, block : Pointer, headed : BOOLEAN]
  /\ held \subseteq Holding
  /\ reply \in Reply

(* The call under way, and the time before buddy_init.                      *)
JobInv ==
  /\ phase = "uninit" => /\ held = {} /\ reply.op = "none"
                         /\ \A k \in Order : free_lists[k] = Null
  /\ phase # "uninit" => BP!All # {}
  /\ phase = "splitting" => /\ job.order <= job.level
                            /\ free_lists[job.level] # Null
                            /\ reply.op = "allocating"
                            /\ job.order = WantedOrder(reply.size)
  /\ phase = "merging" => /\ job.block \in Unit
                          /\ \A k \in Order : job.block \notin Chain(k)
                          /\ ~ mem[job.block].used
                          /\ reply.op = "free"

(* A held block never looks like a free one to join_if_free: its header,    *)
(* which the client may have written over if the block was handed out       *)
(* without one, is marked as used or has an order that no list has. The     *)
(* header of a block that is returned with kfree is intact.  A block        *)
(* without one has the order of the size that its client remembers.         *)
Headers ==
  /\ \A b \in held :
       /\ mem[b.addr].used \/ mem[b.addr].order = Other
       /\ b.headed => mem[b.addr].used /\ mem[b.addr].order = b.order
       /\ ~ b.headed => b.order = SizeToOrder(b.size % Narrow)
  /\ \A b, c \in held : b.addr = c.addr => b = c

(* The block returned last is no longer held, nor a part of a held block, so *)
(* that its header stays marked as free and a second kfree of it is ignored. *)
Freed ==
  reply.op = "free" =>
    /\ reply.addr \in Unit
    /\ ~ mem[reply.addr].used
    /\ \A b \in HeldBlocks : reply.addr \notin BP!Covers(b)

(* Two halves are in one list only while the larger block they came from is *)
(* being split further, and then one of them is the head of that list. In   *)
(* contrast to FullyMerged, this holds in the middle of a call too.         *)
Merged ==
  \A k \in Order \ {MaxOrder} : \A a \in Chain(k) :
    BuddyOf(a, k) \in Chain(k)
      => phase = "splitting" /\ k = job.level /\ free_lists[k] \in {a, BuddyOf(a, k)}

(* total_used is what the free blocks leave of the pool, also in the middle *)
(* of a call, less what was said to be the size of a block that was not.    *)
Misreturned == IF phase = "misfreed" THEN reply.size ELSE 0
Counted ==
  phase # "uninit" =>
    total_used + Misreturned + MinBlock * Cardinality(BP!FreeUnits) = Bytes(MaxOrder)

(* After a refusal the lists of the wanted order and of all larger ones are *)
(* empty.                                                                   *)
Refused ==
  phase = "idle" /\ reply.op = "alloc" /\ reply.addr = Null /\ reply.size > 0
      /\ WantedOrder(reply.size) # Other
    => \A k \in Order : k >= WantedOrder(reply.size) => free_lists[k] = Null

(* Each list is linked and closed, and the headers of its nodes tell it.    *)
Lists ==
  \A k \in Order : /\ Linked(free_lists[k], mem)
                   /\ \A a \in Chain(k) : mem[a].order = k /\ ~ mem[a].used

(* The free and the held blocks are an abstract pool in which no two blocks *)
(* overlap, none is lost and each starts at a multiple of its size.         *)
Tiling == BP!IInv /\ BP!Aligned

(* The inductive invariant. The lists are told apart by the headers of their *)
(* nodes (Lists), the headers are safe because blocks do not overlap        *)
(* (Tiling), and blocks do not overlap because the lists hold what they     *)
(* should: none of the parts is inductive alone.                            *)
BuddyInv == TypeInv /\ Lists /\ Tiling /\ JobInv /\ Headers /\ Freed

(* What the types give of each variable.                                    *)
LEMMA Types ==
  ASSUME TypeInv
  PROVE  /\ \A a \in Pointer : /\ mem[a] \in Node
                               /\ mem[a].next \in Pointer /\ mem[a].prev \in Pointer
                               /\ mem[a].used \in BOOLEAN /\ mem[a].order \in 0 .. Other
         /\ \A k \in Order : free_lists[k] \in Pointer
         /\ job.order \in Order /\ job.level \in Order /\ job.block \in Pointer
         /\ \A b \in held : /\ b.addr \in Unit /\ b.order \in Order
                            /\ b.headed \in BOOLEAN /\ b.size \in Nat
         /\ Null \in Pointer /\ Unit \subseteq Pointer
BY DEF TypeInv, Node, Holding, Pointer

(* Sizes of blocks in bytes. *)
LEMMA ByteSizes == \A k \in Order : Bytes(k) \in Nat /\ Bytes(k) = MinBlock * Size[k]
BY OrderSizes, BuddyAssumption DEF Bytes

(* The two modules have the same addresses.                                 *)
LEMMA SameUnit == BP!Unit = Unit
BY DEF BP!Unit, Unit

(* The blocks that the lists and the job stand for, now and next. *)
LEMMA FreeBlock ==
  /\ \A a, k : BP!BlockAt(a, k) \in FreeBlocks
                 <=> \/ k \in Order /\ a \in Chain(k)
                     \/ phase = "merging" /\ a = job.block /\ k = job.order
  /\ \A b \in FreeBlocks : b = BP!BlockAt(b.addr, b.order)
<1>1. \A b : b \in FreeBlocks <=> \/ \E k \in Order : \E a \in Chain(k) : b = [addr |-> a, order |-> k]
                                  \/ phase = "merging" /\ b = [addr |-> job.block, order |-> job.order]
  <2> DEFINE F == UNION {{[addr |-> a, order |-> k] : a \in Chain(k)} : k \in Order}
             G == IF phase = "merging" THEN {[addr |-> job.block, order |-> job.order]} ELSE {}
  <2>1. FreeBlocks = F \cup G
    BY DEF FreeBlocks
  <2>2. \A b : b \in F <=> \E k \in Order : \E a \in Chain(k) : b = [addr |-> a, order |-> k]
    OBVIOUS
  <2>3. \A b : b \in G <=> phase = "merging" /\ b = [addr |-> job.block, order |-> job.order]
    OBVIOUS
  <2> HIDE DEF F, G
  <2> QED
    BY <2>1, <2>2, <2>3
<1>2. \A a, k : BP!BlockAt(a, k) = [addr |-> a, order |-> k]
  BY DEF BP!BlockAt
<1>3. \A a, k, c, l : [addr |-> a, order |-> k] = [addr |-> c, order |-> l] => a = c /\ k = l
  <2> SUFFICES ASSUME NEW a, NEW k, NEW c, NEW l,
                      [addr |-> a, order |-> k] = [addr |-> c, order |-> l]
               PROVE  a = c /\ k = l
    OBVIOUS
  <2>1. [addr |-> a, order |-> k].addr = [addr |-> c, order |-> l].addr
    OBVIOUS
  <2>2. [addr |-> a, order |-> k].order = [addr |-> c, order |-> l].order
    OBVIOUS
  <2> QED
    BY <2>1, <2>2
<1>4. ASSUME NEW a, NEW k
      PROVE  BP!BlockAt(a, k) \in FreeBlocks
                 <=> \/ k \in Order /\ a \in Chain(k)
                     \/ phase = "merging" /\ a = job.block /\ k = job.order
  BY <1>1, <1>2, <1>3
<1>5. ASSUME NEW b \in FreeBlocks PROVE b = BP!BlockAt(b.addr, b.order)
  BY <1>1, <1>2
<1> QED
  BY <1>4, <1>5

(* The same after a step.                                                   *)
LEMMA FreeBlockNext ==
  /\ \A a, k : BP!BlockAt(a, k) \in FreeBlocks'
                 <=> \/ k \in Order /\ a \in Chain(k)'
                     \/ phase' = "merging" /\ a = job'.block /\ k = job'.order
  /\ \A b \in FreeBlocks' : b = BP!BlockAt(b.addr, b.order)
<1>1. \A b : b \in FreeBlocks' <=> \/ \E k \in Order : \E a \in Chain(k)' : b = [addr |-> a, order |-> k]
                                   \/ phase' = "merging" /\ b = [addr |-> job'.block, order |-> job'.order]
  <2> DEFINE F == UNION {{[addr |-> a, order |-> k] : a \in Chain(k)'} : k \in Order}
             G == IF phase' = "merging" THEN {[addr |-> job'.block, order |-> job'.order]} ELSE {}
  <2>1. FreeBlocks' = F \cup G
    BY DEF FreeBlocks
  <2>2. \A b : b \in F <=> \E k \in Order : \E a \in Chain(k)' : b = [addr |-> a, order |-> k]
    OBVIOUS
  <2>3. \A b : b \in G <=> phase' = "merging" /\ b = [addr |-> job'.block, order |-> job'.order]
    OBVIOUS
  <2> HIDE DEF F, G
  <2> QED
    BY <2>1, <2>2, <2>3
<1>2. \A a, k : BP!BlockAt(a, k) = [addr |-> a, order |-> k]
  BY DEF BP!BlockAt
<1>3. \A a, k, c, l : [addr |-> a, order |-> k] = [addr |-> c, order |-> l] => a = c /\ k = l
  <2> SUFFICES ASSUME NEW a, NEW k, NEW c, NEW l,
                      [addr |-> a, order |-> k] = [addr |-> c, order |-> l]
               PROVE  a = c /\ k = l
    OBVIOUS
  <2>1. [addr |-> a, order |-> k].addr = [addr |-> c, order |-> l].addr
    OBVIOUS
  <2>2. [addr |-> a, order |-> k].order = [addr |-> c, order |-> l].order
    OBVIOUS
  <2> QED
    BY <2>1, <2>2
<1>4. ASSUME NEW a, NEW k
      PROVE  BP!BlockAt(a, k) \in FreeBlocks'
                 <=> \/ k \in Order /\ a \in Chain(k)'
                     \/ phase' = "merging" /\ a = job'.block /\ k = job'.order
  BY <1>1, <1>2, <1>3
<1>5. ASSUME NEW b \in FreeBlocks' PROVE b = BP!BlockAt(b.addr, b.order)
  BY <1>1, <1>2
<1> QED
  BY <1>4, <1>5

(* A block of the tiling lies in the pool, at a multiple of its size, and   *)
(* no other block has an address of it.                                     *)
LEMMA BlockFacts ==
  ASSUME Tiling, NEW b \in BP!All
  PROVE  /\ b = BP!BlockAt(b.addr, b.order)
         /\ b.addr \in Unit /\ b.addr \in Nat /\ b.order \in Order /\ Size[b.order] \in Nat \ {0}
         /\ b.addr % Size[b.order] = 0
         /\ b.addr + Size[b.order] <= Size[MaxOrder]
         /\ \A x \in Nat : b.addr <= x /\ x < b.addr + Size[b.order]
                             => x \in Unit /\ x \in BP!Covers(b)
         /\ \A x \in BP!Covers(b) : x \in Nat /\ b.addr <= x /\ x < b.addr + Size[b.order]
<1>0. BP!IInv
  BY DEF Tiling
<1>1. b \in BP!Block /\ BP!Covers(b) \subseteq Unit
  <2>1. b \in BP!Block /\ BP!Covers(b) \subseteq BP!Unit /\ BP!Covers(b) # {}
    BY <1>0, BP!InPool, BlocksAssumption
  <2> QED
    BY <2>1, SameUnit
<1>2. b.addr \in Unit /\ b.order \in Order
  BY <1>1, SameUnit DEF BP!Block, Order
<1>3. b = BP!BlockAt(b.addr, b.order)
  BY <1>1 DEF BP!Block, BP!BlockAt
<1>4. b.addr % Size[b.order] = 0
  BY DEF Tiling, BP!Aligned, BP!All
<1>5. Size[b.order] \in Nat \ {0} /\ b.addr \in Nat
  BY <1>2, OrderSizes, UnitRange
<1>6. BP!Covers(b) = b.addr .. b.addr + Size[b.order] - 1
  BY DEF BP!Covers
<1>7. b.addr + Size[b.order] - 1 \in BP!Covers(b)
  BY <1>5, <1>6
<1>8. b.addr + Size[b.order] <= Size[MaxOrder]
  <2>1. b.addr + Size[b.order] - 1 \in Unit
    BY <1>1, <1>7
  <2>2. Size[MaxOrder] \in Nat
    BY UnitRange, OrderSizes
  <2> QED
    BY <1>5, <2>1, <2>2, UnitRange
<1>9. \A x \in Nat : b.addr <= x /\ x < b.addr + Size[b.order] => x \in BP!Covers(b)
  BY <1>5, <1>6
<1>10. \A x \in BP!Covers(b) : x \in Nat /\ b.addr <= x /\ x < b.addr + Size[b.order]
  BY <1>5, <1>6
<1> QED
  BY <1>1, <1>2, <1>3, <1>4, <1>5, <1>8, <1>9, <1>10

(* Blocks that share an address are one block.                              *)
LEMMA Apart ==
  ASSUME Tiling, NEW b \in BP!All, NEW c \in BP!All, NEW x,
         x \in BP!Covers(b), x \in BP!Covers(c)
  PROVE  b = c
BY DEF Tiling, BP!IInv, BP!Tiled, BP!Disjoint, BP!All

(* Where the buddy of a block would be a block starts, of no larger order.  *)
LEMMA BlockAtBuddy ==
  ASSUME Tiling, NEW b \in BP!All, b.order # MaxOrder
  PROVE  /\ BuddyOf(b.addr, b.order) \in Unit
         /\ \E c \in BP!All : c.addr = BuddyOf(b.addr, b.order) /\ c.order <= b.order /\ c # b
<1> DEFINE k == b.order
           a == b.addr
           x == BuddyOf(a, k)
           p == Min({a, x})
<1>1. k \in Order \ {MaxOrder} /\ a \in Unit /\ a \in Nat /\ a % Size[k] = 0
  BY BlockFacts
<1>2. /\ x \in Unit /\ x # a /\ x % Size[k] = 0 /\ BuddyOf(x, k) = a
      /\ p \in Unit /\ p % Size[k + 1] = 0
      /\ {a, x} = {p, p + Size[k]}
      /\ p + Size[k + 1] <= Size[MaxOrder]
  <2> HIDE DEF k, a
  <2> QED
    BY <1>1, Buddies
<1>3. PICK c \in BP!All : x \in BP!Covers(c)
  BY <1>2, SameUnit DEF Tiling, BP!IInv, BP!Tiled, BP!All
<1> HIDE DEF x, p
<1> DEFINE j == c.order
           e == c.addr
           s == Size[k]
<1>4. /\ e \in Nat /\ j \in Order /\ e % Size[j] = 0 /\ e <= x /\ x < e + Size[j]
      /\ x \in Nat /\ p \in Nat
      /\ \A y \in Nat : e <= y /\ y < e + Size[j] => y \in BP!Covers(c)
  BY <1>2, <1>3, BlockFacts, UnitRange
<1>5. s \in Nat \ {0} /\ k + 1 \in Order /\ Size[k + 1] = s + s /\ k \in Nat /\ j \in Nat
  <2>1. k \in Order \ {MaxOrder} /\ j \in Order
    BY <1>1, <1>4
  <2> HIDE DEF k, j
  <2> QED
    BY <2>1, OrderSizes
<1>6. a \in BP!Covers(b)
  BY <1>1, <1>5, BlockFacts
<1>7. (a = p /\ x = p + s) \/ (a = p + s /\ x = p)
  BY <1>2
<1>8. b # c
  <2> SUFFICES ASSUME b = c PROVE FALSE
    OBVIOUS
  <2>1. a <= x /\ x < a + s
    BY <1>4
  <2> HIDE DEF a, s
  <2>2. a = p /\ x = p + s
    BY <1>1, <1>4, <1>5, <1>7, <2>1
  <2> QED
    BY <1>1, <1>5, <2>1, <2>2
<1> HIDE DEF k, a, j, e, s
<1>9. j <= k
  <2> SUFFICES ASSUME ~ (j <= k) PROVE FALSE
    OBVIOUS
  <2>1. k + 1 <= j
    BY <1>5
  <2>2. p <= x /\ x < p + Size[k + 1] /\ p <= a /\ a < p + Size[k + 1]
    BY <1>1, <1>4, <1>5, <1>7
  <2>3. e <= p /\ p + Size[k + 1] <= e + Size[j]
    BY <1>2, <1>4, <1>5, <2>1, <2>2, Nested
  <2>4. e <= a /\ a < e + Size[j]
    <3>1. Size[j] \in Nat /\ Size[k + 1] \in Nat
      BY <1>4, <1>5, OrderSizes
    <3> QED
      BY <1>1, <1>4, <2>2, <2>3, <3>1
  <2>5. a \in BP!Covers(c)
    BY <1>1, <1>4, <2>4
  <2> QED
    BY <1>3, <1>6, <1>8, <2>5, Apart
<1>10. e = x
  <2>1. x <= x /\ x < x + Size[k]
    BY <1>4, <1>5 DEF s
  <2>2. x <= e
    BY <1>1, <1>2, <1>4, <1>9, <2>1, Nested
  <2> QED
    BY <1>4, <2>2
<1> QED
  BY <1>2, <1>3, <1>8, <1>9, <1>10 DEF x, e, j, k, a

-----------------------------------------------------------------------------
(* What the lists and the blocks are, together. *)
LEMMA EmptyList == ASSUME NEW m PROVE Nodes(Null, m) = {} /\ Linked(Null, m)
<1>1. ASSUME NEW S, S = {} PROVE Nodes(Null, m) \subseteq S
  <2>1. /\ Null # Null => Null \in S
        /\ \A a \in S : m[a].next # Null => m[a].next \in S
    BY <1>1
  <2> QED
    BY <2>1, NodesLeast
<1>2. PICK S : S = {}
  OBVIOUS
<1>3. Nodes(Null, m) = {}
  BY <1>1, <1>2
<1> QED
  BY <1>3 DEF Linked

(* What the invariant gives of a list.                                      *)
LEMMA Chains ==
  ASSUME TypeInv, Lists, NEW k \in Order
  PROVE  /\ Chain(k) = Nodes(free_lists[k], mem) /\ Linked(free_lists[k], mem)
         /\ Chain(k) \subseteq Unit /\ Null \notin Chain(k)
         /\ free_lists[k] # Null => free_lists[k] \in Chain(k) /\ mem[free_lists[k]].prev = Null
         /\ free_lists[k] = Null => Chain(k) = {}
         /\ \A a \in Chain(k) : /\ mem[a].order = k /\ ~ mem[a].used
                                /\ mem[a].next # Null => /\ mem[a].next \in Chain(k)
                                                         /\ mem[mem[a].next].prev = a
<1>1. Chain(k) = Nodes(free_lists[k], mem) /\ Linked(free_lists[k], mem)
  BY ChainNodes DEF Lists
<1>2. free_lists[k] \in Pointer /\ \A a \in Unit : mem[a].next \in Pointer
  BY Types
<1>3. /\ free_lists[k] # Null => free_lists[k] \in Nodes(free_lists[k], mem)
      /\ Nodes(free_lists[k], mem) \subseteq Unit
      /\ \A a \in Nodes(free_lists[k], mem) :
           mem[a].next # Null => mem[a].next \in Nodes(free_lists[k], mem)
  BY <1>1, <1>2, NodesClosed
<1>4. free_lists[k] = Null => Chain(k) = {}
  BY <1>1, EmptyList
<1>5. \A a \in Chain(k) : mem[a].order = k /\ ~ mem[a].used
  BY DEF Lists
<1>6. /\ free_lists[k] # Null => mem[free_lists[k]].prev = Null
      /\ \A a \in Chain(k) : mem[a].next # Null => mem[mem[a].next].prev = a
  BY <1>1 DEF Linked
<1> QED
  BY <1>1, <1>3, <1>4, <1>5, <1>6, UnitRange

(* The links back stay within the list.                                     *)
LEMMA Previous ==
  ASSUME TypeInv, Lists, NEW k \in Order, NEW y \in Chain(k), mem[y].prev # Null
  PROVE  mem[y].prev \in Chain(k)
<1>1. Chain(k) = Nodes(free_lists[k], mem) /\ Linked(free_lists[k], mem)
  BY Chains
<1>2. free_lists[k] \in Pointer /\ \A a \in Unit : mem[a].next \in Pointer
  BY Types
<1> QED
  BY <1>1, <1>2, NodesPrevious

(* A list whose links are not written stays as it is.                       *)
LEMMA ChainKept ==
  ASSUME TypeInv, Lists, NEW k \in Order, free_lists'[k] = free_lists[k],
         \A a \in Chain(k) : mem'[a].next = mem[a].next /\ mem'[a].prev = mem[a].prev
  PROVE  Chain(k)' = Chain(k) /\ Linked(free_lists'[k], mem')
<1>1. Chain(k) = Nodes(free_lists[k], mem) /\ Linked(free_lists[k], mem)
  BY Chains
<1>2. free_lists[k] \in Pointer /\ \A a \in Unit : mem[a].next \in Pointer
  BY Types
<1>3. /\ Nodes(free_lists[k], mem') = Nodes(free_lists[k], mem)
      /\ Linked(free_lists[k], mem')
  BY <1>1, <1>2, NodesKept
<1> QED
  BY <1>1, <1>3, ChainNodes

(* A list whose head becomes a block that was in none has that block in     *)
(* addition.                                                                *)
LEMMA ChainPushed ==
  ASSUME TypeInv, Lists, NEW k \in Order, NEW x \in Unit, x \notin Chain(k),
         free_lists'[k] = x, mem'[x].next = free_lists[k], mem'[x].prev = Null,
         \A a \in Chain(k) : mem'[a].next = mem[a].next,
         \A a \in Chain(k) : mem'[a].prev = IF a = free_lists[k] THEN x ELSE mem[a].prev
  PROVE  Chain(k)' = Chain(k) \cup {x} /\ Linked(free_lists'[k], mem')
<1>1. Chain(k) = Nodes(free_lists[k], mem) /\ Linked(free_lists[k], mem)
  BY Chains
<1>2. free_lists[k] \in Pointer /\ \A a \in Unit : mem[a].next \in Pointer
  BY Types
<1>3. /\ Nodes(x, mem') = Nodes(free_lists[k], mem) \cup {x}
      /\ Linked(x, mem')
  BY <1>1, <1>2, NodesPushed
<1> QED
  BY <1>1, <1>3, ChainNodes

(* A list that a node is taken out of has the others left.                  *)
LEMMA ChainRemoved ==
  ASSUME TypeInv, Lists, NEW k \in Order, NEW y \in Chain(k),
         Unlinked(free_lists[k], mem, y, free_lists'[k], mem')
  PROVE  Chain(k)' = Chain(k) \ {y} /\ Linked(free_lists'[k], mem')
<1>1. Chain(k) = Nodes(free_lists[k], mem) /\ Linked(free_lists[k], mem)
  BY Chains
<1>2. free_lists[k] \in Pointer /\ \A a \in Unit : mem[a].next \in Pointer /\ mem[a].prev \in Pointer
  BY Types
<1>3. /\ Nodes(free_lists'[k], mem') = Nodes(free_lists[k], mem) \ {y}
      /\ Linked(free_lists'[k], mem')
  BY <1>1, <1>2, NodesRemoved
<1> QED
  BY <1>1, <1>3, ChainNodes

(* Two nodes pushed one after the other. *)
LEMMA ChainPushedTwice ==
  ASSUME TypeInv, Lists, NEW k \in Order, NEW x \in Unit, NEW y \in Unit, x # y,
         x \notin Chain(k), y \notin Chain(k),
         free_lists'[k] = x, mem'[x].next = y, mem'[x].prev = Null,
         mem'[y].next = free_lists[k], mem'[y].prev = x,
         mem' \in [Pointer -> Node],
         \A a \in Chain(k) : mem'[a].next = mem[a].next,
         \A a \in Chain(k) : mem'[a].prev = IF a = free_lists[k] THEN y ELSE mem[a].prev
  PROVE  Chain(k)' = Chain(k) \cup {x, y} /\ Linked(free_lists'[k], mem')
<1>1. Chain(k) = Nodes(free_lists[k], mem) /\ Linked(free_lists[k], mem)
  BY Chains
<1>2. /\ free_lists[k] \in Pointer /\ \A a \in Unit : mem[a].next \in Pointer
      /\ Unit \subseteq Pointer /\ Null \in Pointer
      /\ Nodes(free_lists[k], mem) \subseteq Unit
  BY <1>1, Types, Chains
<1> DEFINE w == [mem' EXCEPT ![y].prev = Null]
<1>3. /\ w \in [Pointer -> Node]
      /\ \A a \in Unit : /\ w[a].next = mem'[a].next
                         /\ w[a].prev = IF a = y THEN Null ELSE mem'[a].prev
  BY <1>2 DEF Node
<1> HIDE DEF w
<1>4. /\ Nodes(y, w) = Nodes(free_lists[k], mem) \cup {y}
      /\ Linked(y, w)
  <2>1. /\ w[y].next = free_lists[k] /\ w[y].prev = Null
        /\ \A a \in Nodes(free_lists[k], mem) : w[a].next = mem[a].next
        /\ \A a \in Nodes(free_lists[k], mem) : w[a].prev = IF a = free_lists[k] THEN y ELSE mem[a].prev
    BY <1>1, <1>2, <1>3
  <2>2. y \notin Nodes(free_lists[k], mem)
    BY <1>1
  <2> QED
    BY <1>1, <1>2, <2>1, <2>2, NodesPushed
<1>5. /\ Nodes(x, mem') = Nodes(y, w) \cup {x}
      /\ Linked(x, mem')
  <2>1. x \notin Nodes(y, w) /\ Nodes(y, w) \subseteq Unit
    BY <1>1, <1>2, <1>4
  <2>2. \A a \in Nodes(y, w) : mem'[a].next = w[a].next
    BY <1>3, <2>1
  <2>3. \A a \in Nodes(y, w) : mem'[a].prev = IF a = y THEN x ELSE w[a].prev
    BY <1>3, <2>1
  <2>4. \A a \in Unit : w[a].next \in Pointer
    BY <1>2, <1>3 DEF Node
  <2>5. y \in Pointer
    BY <1>2
  <2> QED
    BY <1>4, <2>1, <2>2, <2>3, <2>4, <2>5, NodesPushed
<1> QED
  BY <1>1, <1>4, <1>5, ChainNodes

(* The abstract pool stays as it should be through its own steps.           *)
LEMMA TilingStep ==
  ASSUME Tiling, [BP!Next]_(BP!vars)
  PROVE  Tiling' /\ (BP!All # {} => BP!All' # {})
<1>1. BP!IInv /\ BP!Aligned
  BY DEF Tiling
<1>2. BP!IInv'
  BY <1>1, BP!StepIInv, BlocksAssumption
<1>3. BP!Aligned'
  BY <1>1, BP!StepAligned, BlocksAssumption
<1>4. BP!All # {} => BP!All' # {}
  BY BP!StepSome, BlocksAssumption
<1> QED
  BY <1>2, <1>3, <1>4 DEF Tiling

(* A block starts where it says, and no two at one address. *)
LEMMA Starts ==
  ASSUME Tiling, NEW b \in BP!All, NEW c \in BP!All, c.addr = b.addr
  PROVE  b = c
<1>1. b.addr \in BP!Covers(b)
  BY BlockFacts
<1>2. c.addr \in BP!Covers(c)
  BY BlockFacts
<1> QED
  BY <1>1, <1>2, Apart

(* A node of a list stands for a block.                                     *)
LEMMA ListBlock ==
  ASSUME NEW k \in Order, NEW a \in Chain(k)
  PROVE  /\ BP!BlockAt(a, k) \in FreeBlocks /\ BP!BlockAt(a, k) \in BP!All
         /\ BP!BlockAt(a, k).addr = a /\ BP!BlockAt(a, k).order = k
BY FreeBlock DEF BP!All, BP!BlockAt

(* So does the block being merged.                                          *)
LEMMA JobBlock ==
  ASSUME phase = "merging"
  PROVE  /\ BP!BlockAt(job.block, job.order) \in FreeBlocks
         /\ BP!BlockAt(job.block, job.order) \in BP!All
         /\ BP!BlockAt(job.block, job.order).addr = job.block
         /\ BP!BlockAt(job.block, job.order).order = job.order
BY FreeBlock DEF BP!All, BP!BlockAt

(* So does what a client holds.                                             *)
LEMMA HeldBlock ==
  ASSUME NEW b \in held
  PROVE  /\ BP!BlockAt(b.addr, b.order) \in HeldBlocks
         /\ BP!BlockAt(b.addr, b.order) \in BP!All
         /\ BP!BlockAt(b.addr, b.order).addr = b.addr
         /\ BP!BlockAt(b.addr, b.order).order = b.order
BY DEF BP!All, BP!BlockAt, HeldBlocks

(* No block is both free and held.                                          *)
LEMMA FreeNotHeld ==
  ASSUME Tiling PROVE \A b \in FreeBlocks : b \notin HeldBlocks
BY DEF Tiling, BP!IInv, BP!Tiled, BP!Disjoint

(* No node is where a held block or the block being merged starts, and none *)
(* is in two lists.                                                         *)
LEMMA NodesApart ==
  ASSUME BuddyInv, NEW k \in Order, NEW a \in Chain(k)
  PROVE  /\ phase = "merging" => a # job.block
         /\ \A b \in held : a # b.addr
         /\ \A j \in Order : a \in Chain(j) => j = k
<1> USE DEF BuddyInv
<1>1. \A j \in Order : a \in Chain(j) => j = k
  BY DEF Lists
<1>2. phase = "merging" => a # job.block
  BY DEF JobInv
<1>3. ASSUME NEW b \in held, a = b.addr PROVE FALSE
  <2>1. BP!BlockAt(a, k) = BP!BlockAt(b.addr, b.order)
    BY <1>3, Starts, ListBlock, HeldBlock
  <2> QED
    BY <2>1, FreeNotHeld, ListBlock, HeldBlock
<1> QED
  BY <1>1, <1>2, <1>3

-----------------------------------------------------------------------------
(* A header with one field written, and the memory with it. *)
LEMMA HeaderWritten ==
  ASSUME NEW r \in Node, NEW v
  PROVE  /\ v \in Pointer => /\ [r EXCEPT !.prev = v] \in Node
                             /\ [r EXCEPT !.next = v] \in Node
         /\ v \in 0 .. Other => [r EXCEPT !.order = v] \in Node
         /\ v \in BOOLEAN => [r EXCEPT !.used = v] \in Node
BY DEF Node

(* Writing a field of a header leaves its other fields.                     *)
LEMMA FieldsWritten ==
  ASSUME NEW r \in Node, NEW v
  PROVE  /\ [r EXCEPT !.prev = v].prev = v /\ [r EXCEPT !.prev = v].next = r.next
         /\ [r EXCEPT !.prev = v].order = r.order /\ [r EXCEPT !.prev = v].used = r.used
         /\ [r EXCEPT !.next = v].prev = r.prev /\ [r EXCEPT !.next = v].next = v
         /\ [r EXCEPT !.next = v].order = r.order /\ [r EXCEPT !.next = v].used = r.used
         /\ [r EXCEPT !.order = v].prev = r.prev /\ [r EXCEPT !.order = v].next = r.next
         /\ [r EXCEPT !.order = v].order = v /\ [r EXCEPT !.order = v].used = r.used
         /\ [r EXCEPT !.used = v].prev = r.prev /\ [r EXCEPT !.used = v].next = r.next
         /\ [r EXCEPT !.used = v].order = r.order /\ [r EXCEPT !.used = v].used = v
BY DEF Node

(* Writing a header leaves the other headers.                               *)
LEMMA HeaderStored ==
  ASSUME NEW m \in [Pointer -> Node], NEW x \in Pointer, NEW r \in Node
  PROVE  /\ [m EXCEPT ![x] = r] \in [Pointer -> Node]
         /\ \A a \in Pointer : [m EXCEPT ![x] = r][a] = IF a = x THEN r ELSE m[a]
OBVIOUS

(* Writing the link to the previous node changes that and nothing else.     *)
LEMMA SetPrev ==
  ASSUME NEW m \in [Pointer -> Node], NEW x \in Pointer, NEW v \in Pointer
  PROVE  /\ [m EXCEPT ![x].prev = v] \in [Pointer -> Node]
         /\ \A a \in Pointer :
              /\ [m EXCEPT ![x].prev = v][a].next = m[a].next
              /\ [m EXCEPT ![x].prev = v][a].prev = IF a = x THEN v ELSE m[a].prev
              /\ [m EXCEPT ![x].prev = v][a].order = m[a].order
              /\ [m EXCEPT ![x].prev = v][a].used = m[a].used
<1> DEFINE r == [m[x] EXCEPT !.prev = v]
           w == [m EXCEPT ![x] = r]
<1>1. m[x] \in Node
  OBVIOUS
<1>2. r \in Node
  BY <1>1, HeaderWritten
<1>3. r.next = m[x].next /\ r.prev = v /\ r.order = m[x].order /\ r.used = m[x].used
  BY <1>1, FieldsWritten
<1>4. [m EXCEPT ![x].prev = v] = w
  OBVIOUS
<1> HIDE DEF r
<1>5. /\ w \in [Pointer -> Node]
      /\ \A a \in Pointer : w[a] = IF a = x THEN r ELSE m[a]
  BY <1>2, HeaderStored
<1> HIDE DEF w
<1> QED
  BY <1>3, <1>4, <1>5

(* Writing the link to the next node changes that and nothing else.         *)
LEMMA SetNext ==
  ASSUME NEW m \in [Pointer -> Node], NEW x \in Pointer, NEW v \in Pointer
  PROVE  /\ [m EXCEPT ![x].next = v] \in [Pointer -> Node]
         /\ \A a \in Pointer :
              /\ [m EXCEPT ![x].next = v][a].next = IF a = x THEN v ELSE m[a].next
              /\ [m EXCEPT ![x].next = v][a].prev = m[a].prev
              /\ [m EXCEPT ![x].next = v][a].order = m[a].order
              /\ [m EXCEPT ![x].next = v][a].used = m[a].used
<1> DEFINE r == [m[x] EXCEPT !.next = v]
           w == [m EXCEPT ![x] = r]
<1>1. m[x] \in Node
  OBVIOUS
<1>2. r \in Node
  BY <1>1, HeaderWritten
<1>3. r.next = v /\ r.prev = m[x].prev /\ r.order = m[x].order /\ r.used = m[x].used
  BY <1>1, FieldsWritten
<1>4. [m EXCEPT ![x].next = v] = w
  OBVIOUS
<1> HIDE DEF r
<1>5. /\ w \in [Pointer -> Node]
      /\ \A a \in Pointer : w[a] = IF a = x THEN r ELSE m[a]
  BY <1>2, HeaderStored
<1> HIDE DEF w
<1> QED
  BY <1>3, <1>4, <1>5

(* Writing the order changes that and nothing else.                         *)
LEMMA SetOrder ==
  ASSUME NEW m \in [Pointer -> Node], NEW x \in Pointer, NEW v \in 0 .. Other
  PROVE  /\ [m EXCEPT ![x].order = v] \in [Pointer -> Node]
         /\ \A a \in Pointer :
              /\ [m EXCEPT ![x].order = v][a].next = m[a].next
              /\ [m EXCEPT ![x].order = v][a].prev = m[a].prev
              /\ [m EXCEPT ![x].order = v][a].order = IF a = x THEN v ELSE m[a].order
              /\ [m EXCEPT ![x].order = v][a].used = m[a].used
<1> DEFINE r == [m[x] EXCEPT !.order = v]
           w == [m EXCEPT ![x] = r]
<1>1. m[x] \in Node
  OBVIOUS
<1>2. r \in Node
  BY <1>1, HeaderWritten
<1>3. r.next = m[x].next /\ r.prev = m[x].prev /\ r.order = v /\ r.used = m[x].used
  BY <1>1, FieldsWritten
<1>4. [m EXCEPT ![x].order = v] = w
  OBVIOUS
<1> HIDE DEF r
<1>5. /\ w \in [Pointer -> Node]
      /\ \A a \in Pointer : w[a] = IF a = x THEN r ELSE m[a]
  BY <1>2, HeaderStored
<1> HIDE DEF w
<1> QED
  BY <1>3, <1>4, <1>5

(* Writing the mark of use changes that and nothing else.                   *)
LEMMA SetUsed ==
  ASSUME NEW m \in [Pointer -> Node], NEW x \in Pointer, NEW v \in BOOLEAN
  PROVE  /\ [m EXCEPT ![x].used = v] \in [Pointer -> Node]
         /\ \A a \in Pointer :
              /\ [m EXCEPT ![x].used = v][a].next = m[a].next
              /\ [m EXCEPT ![x].used = v][a].prev = m[a].prev
              /\ [m EXCEPT ![x].used = v][a].order = m[a].order
              /\ (a = x => [m EXCEPT ![x].used = v][a].used = v)
              /\ (a # x => [m EXCEPT ![x].used = v][a].used = m[a].used)
<1> DEFINE r == [m[x] EXCEPT !.used = v]
           w == [m EXCEPT ![x] = r]
<1>1. m[x] \in Node
  OBVIOUS
<1>2. r \in Node
  BY <1>1, HeaderWritten
<1>3. r.next = m[x].next /\ r.prev = m[x].prev /\ r.order = m[x].order /\ r.used = v
  BY <1>1, FieldsWritten
<1>4. [m EXCEPT ![x].used = v] = w
  OBVIOUS
<1> HIDE DEF r
<1>5. /\ w \in [Pointer -> Node]
      /\ \A a \in Pointer : w[a] = IF a = x THEN r ELSE m[a]
  BY <1>2, HeaderStored
<1> HIDE DEF w
<1> QED
  BY <1>3, <1>4, <1>5

(* A write through a link that may be Null changes nothing when it is.      *)
LEMMA SetPrevUnlessNull ==
  ASSUME NEW m \in [Pointer -> Node], NEW x \in Pointer, NEW v \in Pointer
  PROVE  LET w == [m EXCEPT ![x].prev = IF x = Null THEN @ ELSE v]
         IN /\ w \in [Pointer -> Node]
            /\ \A a \in Pointer : /\ w[a].prev = IF a = x /\ x # Null THEN v ELSE m[a].prev
                                  /\ w[a].next = m[a].next
                                  /\ w[a].order = m[a].order /\ w[a].used = m[a].used
<1> DEFINE w == [m EXCEPT ![x].prev = IF x = Null THEN @ ELSE v]
           e == IF x = Null THEN m[x].prev ELSE v
<1>1. m[x].prev \in Pointer
  BY DEF Node
<1>2. e \in Pointer
  BY <1>1
<1>3. w = [m EXCEPT ![x].prev = e]
  OBVIOUS
<1>5. (x = Null => e = m[x].prev) /\ (x # Null => e = v)
  OBVIOUS
<1> HIDE DEF w, e
<1>4. /\ w \in [Pointer -> Node]
      /\ \A a \in Pointer : /\ w[a].prev = IF a = x THEN e ELSE m[a].prev
                            /\ w[a].next = m[a].next
                            /\ w[a].order = m[a].order /\ w[a].used = m[a].used
  BY <1>2, <1>3, SetPrev
<1>6. w \in [Pointer -> Node] /\ \A a \in Pointer : /\ w[a].prev = IF a = x /\ x # Null THEN v ELSE m[a].prev
                                  /\ w[a].next = m[a].next
                                  /\ w[a].order = m[a].order /\ w[a].used = m[a].used
  BY <1>4, <1>5
<1> QED
  BY <1>6 DEF w

(* The same for the link to the next node.                                  *)
LEMMA SetNextUnlessNull ==
  ASSUME NEW m \in [Pointer -> Node], NEW x \in Pointer, NEW v \in Pointer
  PROVE  LET w == [m EXCEPT ![x].next = IF x = Null THEN @ ELSE v]
         IN /\ w \in [Pointer -> Node]
            /\ \A a \in Pointer : /\ w[a].next = IF a = x /\ x # Null THEN v ELSE m[a].next
                                  /\ w[a].prev = m[a].prev
                                  /\ w[a].order = m[a].order /\ w[a].used = m[a].used
<1> DEFINE w == [m EXCEPT ![x].next = IF x = Null THEN @ ELSE v]
           e == IF x = Null THEN m[x].next ELSE v
<1>1. m[x].next \in Pointer
  BY DEF Node
<1>2. e \in Pointer
  BY <1>1
<1>3. w = [m EXCEPT ![x].next = e]
  OBVIOUS
<1>5. (x = Null => e = m[x].next) /\ (x # Null => e = v)
  OBVIOUS
<1> HIDE DEF w, e
<1>4. /\ w \in [Pointer -> Node]
      /\ \A a \in Pointer : /\ w[a].next = IF a = x THEN e ELSE m[a].next
                            /\ w[a].prev = m[a].prev
                            /\ w[a].order = m[a].order /\ w[a].used = m[a].used
  BY <1>2, <1>3, SetNext
<1>6. w \in [Pointer -> Node] /\ \A a \in Pointer : /\ w[a].next = IF a = x /\ x # Null THEN v ELSE m[a].next
                                  /\ w[a].prev = m[a].prev
                                  /\ w[a].order = m[a].order /\ w[a].used = m[a].used
  BY <1>4, <1>5
<1> QED
  BY <1>6 DEF w

(* What each step does to the headers. *)
LEMMA SplitMemory ==
  ASSUME TypeInv, SplitBlock, job.level - 1 \in Order, free_lists[job.level] \in Unit,
         free_lists[job.level] + Size[job.level - 1] \in Unit
  PROVE  LET k == job.level
             block == free_lists[k]
             rest == mem[block].next
             buddy == block + Size[k - 1]
             head == free_lists[k - 1]
         IN /\ mem' \in [Pointer -> Node]
            /\ \A a \in Pointer :
                 /\ mem'[a].next = IF a = buddy THEN head ELSE IF a = block THEN buddy ELSE mem[a].next
                 /\ mem'[a].prev = IF a = buddy THEN block
                                   ELSE IF a = head /\ head # Null THEN buddy
                                   ELSE IF a = rest /\ rest # Null THEN Null ELSE mem[a].prev
                 /\ mem'[a].order = IF a \in {buddy, block} THEN k - 1 ELSE mem[a].order
                 /\ (a = buddy => ~ mem'[a].used) /\ (a # buddy => mem'[a].used = mem[a].used)
<1> DEFINE k == job.level
           block == free_lists[k]
           rest == mem[block].next
           buddy == block + Size[k - 1]
           head == free_lists[k - 1]
<1> DEFINE w1 == [mem EXCEPT ![rest].prev = IF rest = Null THEN @ ELSE Null]
           w2 == [w1 EXCEPT ![head].prev = IF head = Null THEN @ ELSE buddy]
           w3 == [w2 EXCEPT ![block].next = buddy]
           w4 == [w3 EXCEPT ![block].order = k - 1]
           w5 == [w4 EXCEPT ![buddy] = [order |-> k - 1, used |-> FALSE, prev |-> block, next |-> head]]
<1>0. /\ rest \in Pointer /\ head \in Pointer /\ block \in Pointer /\ buddy \in Pointer
      /\ Null \in Pointer /\ k - 1 \in 0 .. Other /\ mem \in [Pointer -> Node]
  BY Types, UnitRange DEF TypeInv, Order, Other
<1>6. mem' = w5
  <2>1. mem' = [mem EXCEPT ![rest].prev = IF rest = Null THEN @ ELSE Null,
                           ![head].prev = IF head = Null THEN @ ELSE buddy,
                           ![block].next = buddy,
                           ![block].order = k - 1,
                           ![buddy] = [order |-> k - 1, used |-> FALSE,
                                       prev |-> block, next |-> head]]
    BY DEF SplitBlock
  <2> HIDE DEF k, block, rest, buddy, head
  <2> QED
    BY <2>1
<1> HIDE DEF k, block, rest, buddy, head
<1>1. /\ w1 \in [Pointer -> Node]
      /\ \A a \in Pointer : /\ w1[a].next = mem[a].next /\ w1[a].order = mem[a].order
                            /\ w1[a].used = mem[a].used
                            /\ w1[a].prev = IF a = rest /\ rest # Null THEN Null ELSE mem[a].prev
  BY <1>0, SetPrevUnlessNull DEF w1
<1> HIDE DEF w1
<1>2. /\ w2 \in [Pointer -> Node]
      /\ \A a \in Pointer : /\ w2[a].next = w1[a].next /\ w2[a].order = w1[a].order
                            /\ w2[a].used = w1[a].used
                            /\ w2[a].prev = IF a = head /\ head # Null THEN buddy ELSE w1[a].prev
  BY <1>0, <1>1, SetPrevUnlessNull DEF w2
<1> HIDE DEF w2
<1>3. /\ w3 \in [Pointer -> Node]
      /\ \A a \in Pointer : /\ w3[a].next = IF a = block THEN buddy ELSE w2[a].next
                            /\ w3[a].order = w2[a].order
                            /\ w3[a].used = w2[a].used /\ w3[a].prev = w2[a].prev
  BY <1>0, <1>2, SetNext DEF w3
<1> HIDE DEF w3
<1>4. /\ w4 \in [Pointer -> Node]
      /\ \A a \in Pointer : /\ w4[a].next = w3[a].next
                            /\ w4[a].order = IF a = block THEN k - 1 ELSE w3[a].order
                            /\ w4[a].used = w3[a].used /\ w4[a].prev = w3[a].prev
  BY <1>0, <1>3, SetOrder DEF w4
<1> HIDE DEF w4
<1>5. /\ w5 \in [Pointer -> Node]
      /\ \A a \in Pointer : /\ w5[a].next = IF a = buddy THEN head ELSE w4[a].next
                            /\ w5[a].order = IF a = buddy THEN k - 1 ELSE w4[a].order
                            /\ (a = buddy => ~ w5[a].used) /\ (a # buddy => w5[a].used = w4[a].used)
                            /\ w5[a].prev = IF a = buddy THEN block ELSE w4[a].prev
  BY <1>0, <1>4 DEF Node
<1> HIDE DEF w5
<1>7. /\ mem' \in [Pointer -> Node]
      /\ \A a \in Pointer :
           /\ mem'[a].next = IF a = buddy THEN head ELSE IF a = block THEN buddy ELSE mem[a].next
           /\ mem'[a].prev = IF a = buddy THEN block
                             ELSE IF a = head /\ head # Null THEN buddy
                             ELSE IF a = rest /\ rest # Null THEN Null ELSE mem[a].prev
           /\ mem'[a].order = IF a \in {buddy, block} THEN k - 1 ELSE mem[a].order
           /\ (a = buddy => ~ mem'[a].used) /\ (a # buddy => mem'[a].used = mem[a].used)
  BY <1>1, <1>2, <1>3, <1>4, <1>5, <1>6
<1> QED
  BY <1>7 DEF k, block, rest, buddy, head

(* Handing a block out marks it and makes the node after it the first one.  *)
LEMMA HandOutMemory ==
  ASSUME TypeInv, HandOut, NEW block, NEW rest,
         block = free_lists[job.order], rest = mem[block].next, block \in Unit
  PROVE  /\ mem' \in [Pointer -> Node]
         /\ \A a \in Pointer :
              /\ mem'[a].next = mem[a].next
              /\ mem'[a].prev = IF a = rest /\ rest # Null THEN Null ELSE mem[a].prev
              /\ mem'[a].order = mem[a].order
              /\ (a = block => mem'[a].used) /\ (a # block => mem'[a].used = mem[a].used)
<1> DEFINE w1 == [mem EXCEPT ![block].used = TRUE]
           w2 == [w1 EXCEPT ![rest].prev = IF rest = Null THEN @ ELSE Null]
<1>0. /\ rest \in Pointer /\ block \in Pointer /\ Null \in Pointer /\ mem \in [Pointer -> Node]
  BY Types DEF TypeInv
<1>1. mem' = w2
  BY DEF HandOut
<1>2. /\ w1 \in [Pointer -> Node]
      /\ \A a \in Pointer : /\ w1[a].next = mem[a].next /\ w1[a].order = mem[a].order
                            /\ (a = block => w1[a].used) /\ (a # block => w1[a].used = mem[a].used)
                            /\ w1[a].prev = mem[a].prev
  <2>1. PICK v \in BOOLEAN : v = TRUE
    OBVIOUS
  <2>2. w1 = [mem EXCEPT ![block].used = v]
    BY <2>1
  <2> HIDE DEF w1
  <2>3. /\ w1 \in [Pointer -> Node]
        /\ \A a \in Pointer : /\ w1[a].next = mem[a].next /\ w1[a].order = mem[a].order
                              /\ (a = block => w1[a].used = v) /\ (a # block => w1[a].used = mem[a].used)
                              /\ w1[a].prev = mem[a].prev
    BY <1>0, <2>2, SetUsed
  <2> QED
    BY <2>1, <2>3
<1> HIDE DEF w1
<1>3. /\ w2 \in [Pointer -> Node]
      /\ \A a \in Pointer : /\ w2[a].next = w1[a].next /\ w2[a].order = w1[a].order
                            /\ w2[a].used = w1[a].used
                            /\ w2[a].prev = IF a = rest /\ rest # Null THEN Null ELSE w1[a].prev
  BY <1>0, <1>2, SetPrevUnlessNull, SMTT(30) DEF w2
<1> HIDE DEF w2
<1> QED
  BY <1>1, <1>2, <1>3

(* add_into_list puts a block before the head of the list of its order.     *)
LEMMA AddIntoListMemory ==
  ASSUME TypeInv, AddIntoList, NEW x, NEW k, NEW head,
         x = job.block, k = job.order, head = free_lists[k], x \in Unit
  PROVE  /\ mem' \in [Pointer -> Node]
         /\ \A a \in Pointer :
              /\ mem'[a].next = IF a = x THEN head ELSE mem[a].next
              /\ mem'[a].prev = IF a = head THEN x ELSE IF a = x THEN Null ELSE mem[a].prev
              /\ mem'[a].order = IF a = x THEN k ELSE mem[a].order
              /\ mem'[a].used = mem[a].used
<1> DEFINE w1 == [mem EXCEPT ![x].prev = Null]
           w2 == [w1 EXCEPT ![x].next = head]
           w3 == [w2 EXCEPT ![head].prev = x]
           w4 == [w3 EXCEPT ![x].order = k]
<1>0. /\ head \in Pointer /\ x \in Pointer /\ Null \in Pointer /\ mem \in [Pointer -> Node]
      /\ k \in 0 .. Other
  BY Types, UnitRange DEF TypeInv, Order, Other
<1>1. mem' = w4
  BY DEF AddIntoList
<1>2. /\ w1 \in [Pointer -> Node]
      /\ \A a \in Pointer : /\ w1[a].next = mem[a].next /\ w1[a].order = mem[a].order
                            /\ w1[a].used = mem[a].used
                            /\ w1[a].prev = IF a = x THEN Null ELSE mem[a].prev
  BY <1>0, SetPrev DEF w1
<1> HIDE DEF w1
<1>3. /\ w2 \in [Pointer -> Node]
      /\ \A a \in Pointer : /\ w2[a].next = IF a = x THEN head ELSE w1[a].next
                            /\ w2[a].order = w1[a].order
                            /\ w2[a].used = w1[a].used /\ w2[a].prev = w1[a].prev
  BY <1>0, <1>2, SetNext DEF w2
<1> HIDE DEF w2
<1>4. /\ w3 \in [Pointer -> Node]
      /\ \A a \in Pointer : /\ w3[a].next = w2[a].next /\ w3[a].order = w2[a].order
                            /\ w3[a].used = w2[a].used
                            /\ w3[a].prev = IF a = head THEN x ELSE w2[a].prev
  BY <1>0, <1>3, SetPrev DEF w3
<1> HIDE DEF w3
<1>5. /\ w4 \in [Pointer -> Node]
      /\ \A a \in Pointer : /\ w4[a].next = w3[a].next /\ w4[a].prev = w3[a].prev
                            /\ w4[a].used = w3[a].used
                            /\ w4[a].order = IF a = x THEN k ELSE w3[a].order
  BY <1>0, <1>4, SetOrder DEF w4
<1> HIDE DEF w4
<1> QED
  BY <1>1, <1>2, <1>3, <1>4, <1>5

(* Joining takes the buddy out of its list.                                 *)
LEMMA JoinBuddyMemory ==
  ASSUME TypeInv, JoinBuddy, NEW y, NEW p, NEW n,
         y = BuddyOf(job.block, job.order), p = mem[y].prev, n = mem[y].next, y \in Unit
  PROVE  /\ mem' \in [Pointer -> Node]
         /\ \A a \in Pointer :
              /\ mem'[a].next = IF a = p /\ p # Null THEN n ELSE mem[a].next
              /\ mem'[a].prev = IF a = n /\ n # Null THEN p ELSE mem[a].prev
              /\ mem'[a].order = mem[a].order
              /\ mem'[a].used = mem[a].used
<1> DEFINE w1 == [mem EXCEPT ![p].next = IF p = Null THEN @ ELSE n]
           w2 == [w1 EXCEPT ![n].prev = IF n = Null THEN @ ELSE p]
<1>0. /\ p \in Pointer /\ n \in Pointer /\ Null \in Pointer /\ mem \in [Pointer -> Node]
  BY Types DEF TypeInv
<1>1. mem' = w2
  BY DEF JoinBuddy
<1>2. /\ w1 \in [Pointer -> Node]
      /\ \A a \in Pointer : /\ w1[a].next = IF a = p /\ p # Null THEN n ELSE mem[a].next
                            /\ w1[a].order = mem[a].order
                            /\ w1[a].used = mem[a].used /\ w1[a].prev = mem[a].prev
  BY <1>0, SetNextUnlessNull DEF w1
<1> HIDE DEF w1
<1>3. /\ w2 \in [Pointer -> Node]
      /\ \A a \in Pointer : /\ w2[a].next = w1[a].next /\ w2[a].order = w1[a].order
                            /\ w2[a].used = w1[a].used
                            /\ w2[a].prev = IF a = n /\ n # Null THEN p ELSE w1[a].prev
  BY <1>0, <1>2, SetPrevUnlessNull, SMTT(30) DEF w2
<1> HIDE DEF w2
<1> QED
  BY <1>1, <1>2, <1>3

(* free_block writes the order into the header and marks it as free.        *)
LEMMA FreeMemory ==
  ASSUME TypeInv, NEW x \in Unit, NEW k \in 0 .. Other,
         mem' = [mem EXCEPT ![x].used = FALSE, ![x].order = k]
  PROVE  /\ mem' \in [Pointer -> Node]
         /\ \A a \in Pointer : /\ mem'[a].next = mem[a].next /\ mem'[a].prev = mem[a].prev
                               /\ mem'[a].order = IF a = x THEN k ELSE mem[a].order
                               /\ (a = x => ~ mem'[a].used) /\ (a # x => mem'[a].used = mem[a].used)
<1> DEFINE w1 == [mem EXCEPT ![x].used = FALSE]
           w2 == [w1 EXCEPT ![x].order = k]
<1>0. x \in Pointer /\ mem \in [Pointer -> Node]
  BY Types DEF TypeInv
<1>1. mem' = w2
  OBVIOUS
<1>2. /\ w1 \in [Pointer -> Node]
      /\ \A a \in Pointer : /\ w1[a].next = mem[a].next /\ w1[a].order = mem[a].order
                            /\ (a = x => ~ w1[a].used) /\ (a # x => w1[a].used = mem[a].used)
                            /\ w1[a].prev = mem[a].prev
  <2>1. PICK v \in BOOLEAN : v = FALSE
    OBVIOUS
  <2>2. w1 = [mem EXCEPT ![x].used = v]
    BY <2>1
  <2> HIDE DEF w1
  <2>3. /\ w1 \in [Pointer -> Node]
        /\ \A a \in Pointer : /\ w1[a].next = mem[a].next /\ w1[a].order = mem[a].order
                              /\ (a = x => w1[a].used = v) /\ (a # x => w1[a].used = mem[a].used)
                              /\ w1[a].prev = mem[a].prev
    BY <1>0, <2>2, SetUsed
  <2> QED
    BY <2>1, <2>3
<1> HIDE DEF w1
<1>3. /\ w2 \in [Pointer -> Node]
      /\ \A a \in Pointer : /\ w2[a].next = w1[a].next /\ w2[a].prev = w1[a].prev
                            /\ w2[a].used = w1[a].used
                            /\ w2[a].order = IF a = x THEN k ELSE w1[a].order
  BY <1>0, <1>2, SetOrder DEF w2
<1> HIDE DEF w2
<1>4. /\ w2 \in [Pointer -> Node]
      /\ \A a \in Pointer : /\ w2[a].next = mem[a].next /\ w2[a].prev = mem[a].prev
                            /\ w2[a].order = IF a = x THEN k ELSE mem[a].order
                            /\ (a = x => ~ w2[a].used) /\ (a # x => w2[a].used = mem[a].used)
  <2>1. ASSUME NEW a \in Pointer
        PROVE  /\ w2[a].next = mem[a].next /\ w2[a].prev = mem[a].prev
               /\ w2[a].order = IF a = x THEN k ELSE mem[a].order
    BY <1>2, <1>3
  <2>2. ASSUME NEW a \in Pointer
        PROVE  (a = x => ~ w2[a].used) /\ (a # x => w2[a].used = mem[a].used)
    BY <1>2, <1>3, Zenon
  <2> QED
    BY <1>3, <2>1, <2>2
<1> QED
  BY <1>1, <1>4

-----------------------------------------------------------------------------
(* What each step does to the lists and the blocks. *)
LEMMA BlockAtEq == \A a, k, c, l : BP!BlockAt(a, k) = BP!BlockAt(c, l) <=> a = c /\ k = l
<1>1. \A a, k : BP!BlockAt(a, k).addr = a /\ BP!BlockAt(a, k).order = k
  BY DEF BP!BlockAt
<1> QED
  BY <1>1

(* To know the free blocks after a step, it is enough to know which nodes   *)
(* the lists have and which block is being merged.                          *)
LEMMA FreeBlocksAre ==
  ASSUME NEW S, \A b \in S : b = BP!BlockAt(b.addr, b.order),
         \A a, k : BP!BlockAt(a, k) \in S
                     <=> \/ k \in Order /\ a \in Chain(k)'
                         \/ phase' = "merging" /\ a = job'.block /\ k = job'.order
  PROVE  FreeBlocks' = S
<1>1. ASSUME NEW b \in S PROVE b \in FreeBlocks'
  <2>1. b = BP!BlockAt(b.addr, b.order)
    OBVIOUS
  <2>2. BP!BlockAt(b.addr, b.order) \in S
    BY <2>1
  <2>3. BP!BlockAt(b.addr, b.order) \in FreeBlocks'
    BY <2>2, FreeBlockNext
  <2> QED
    BY <2>1, <2>3
<1>2. ASSUME NEW b \in FreeBlocks' PROVE b \in S
  <2>1. b = BP!BlockAt(b.addr, b.order)
    BY FreeBlockNext
  <2>2. BP!BlockAt(b.addr, b.order) \in FreeBlocks'
    BY <2>1
  <2>3. BP!BlockAt(b.addr, b.order) \in S
    BY <2>2, FreeBlockNext
  <2> QED
    BY <2>1, <2>3
<1> QED
  BY <1>1, <1>2

(* What changes no header and no head changes no list.                      *)
LEMMA SameLists == UNCHANGED <<mem, free_lists>> => \A k : Chain(k)' = Chain(k)
BY ChainNodes

(* The invariant holds at the start.                                        *)
LEMMA InitInv == Init => BuddyInv
<1> SUFFICES ASSUME Init PROVE BuddyInv
  OBVIOUS
<1>0. Null \in Pointer /\ 0 \in Order /\ Other \in 0 .. Other
  BY UnitRange DEF Pointer, Order, Other
<1>1. TypeInv
  BY <1>0 DEF Init, TypeInv, Node, NoJob, Reply
<1>2. \A k \in Order : Chain(k) = {} /\ Linked(free_lists[k], mem)
  <2>1. \A k \in Order : free_lists[k] = Null
    BY DEF Init
  <2> QED
    BY <2>1, ChainNodes, EmptyList
<1>3. Lists
  BY <1>2 DEF Lists
<1>4. FreeBlocks = {} /\ HeldBlocks = {}
  BY <1>2, FreeBlock DEF Init, HeldBlocks
<1>5. BP!Init
  BY <1>4 DEF BP!Init
<1>6. BP!IInv
  BY <1>5, BP!InitIInv, BlocksAssumption
<1>7. Tiling
  BY <1>4, <1>6 DEF Tiling, BP!Aligned
<1>8. JobInv /\ Headers /\ Freed
  BY DEF Init, JobInv, Headers, Freed
<1> QED
  BY <1>1, <1>3, <1>7, <1>8 DEF BuddyInv

(* buddy_init provides the one block of the pool.                           *)
LEMMA BuddyInitStep ==
  ASSUME BuddyInv, BuddyInit
  PROVE  /\ BuddyInv' /\ BP!Provide
         /\ \A k \in Order : Chain(k)' = IF k = MaxOrder THEN {0} ELSE {}
<1> USE DEF BuddyInv
<1>0. /\ phase = "uninit" /\ phase' = "idle" /\ held = {} /\ held' = {}
      /\ \A k \in Order : free_lists[k] = Null
      /\ job' = job /\ reply' = reply /\ total_used' = 0
  BY DEF BuddyInit, JobInv
<1> DEFINE r == [order |-> MaxOrder, used |-> FALSE, prev |-> Null, next |-> Null]
<1>1. r \in Node /\ mem' = [mem EXCEPT ![0] = r] /\ 0 \in Pointer /\ 0 \in Unit
  BY UnitRange DEF BuddyInit, Node, Pointer, Other
<1>2. r.order = MaxOrder /\ r.used = FALSE /\ r.prev = Null /\ r.next = Null
  OBVIOUS
<1> HIDE DEF r
<1>3. /\ mem' \in [Pointer -> Node]
      /\ \A a \in Pointer : mem'[a] = IF a = 0 THEN r ELSE mem[a]
  BY <1>1, HeaderStored DEF TypeInv
<1>4. /\ free_lists' \in [Order -> Pointer]
      /\ \A k \in Order : free_lists'[k] = IF k = MaxOrder THEN 0 ELSE Null
  BY UnitRange DEF BuddyInit, Pointer
<1>5. ASSUME NEW k \in Order
      PROVE  Chain(k)' = (IF k = MaxOrder THEN {0} ELSE {}) /\ Linked(free_lists'[k], mem')
  <2>1. Chain(k) = {} /\ free_lists[k] = Null
    BY <1>0, Chains
  <2>2. CASE k = MaxOrder
    <3>1. /\ free_lists'[k] = 0 /\ mem'[0].next = free_lists[k] /\ mem'[0].prev = Null
      BY <1>1, <1>2, <1>3, <1>4, <2>1, <2>2
    <3>2. Chain(k)' = Chain(k) \cup {0} /\ Linked(free_lists'[k], mem')
      BY <1>1, <2>1, <3>1, ChainPushed
    <3> QED
      BY <2>1, <2>2, <3>2
  <2>3. CASE k # MaxOrder
    BY <1>4, <2>3, ChainNodes, EmptyList
  <2> QED
    BY <2>2, <2>3
<1>6. FreeBlocks = {} /\ HeldBlocks = {} /\ HeldBlocks' = {}
  <2>1. \A k \in Order : Chain(k) = {}
    BY <1>0, Chains
  <2> QED
    BY <1>0, <2>1, FreeBlock DEF HeldBlocks
<1>7. FreeBlocks' = {BP!BlockAt(0, MaxOrder)}
  <2> DEFINE S == {BP!BlockAt(0, MaxOrder)}
  <2>1. \A b \in S : b = BP!BlockAt(b.addr, b.order)
    BY DEF BP!BlockAt
  <2>2. \A a, k : BP!BlockAt(a, k) \in S <=> a = 0 /\ k = MaxOrder
    BY BlockAtEq
  <2>3. \A a, k : k \in Order /\ a \in Chain(k)' <=> a = 0 /\ k = MaxOrder
    BY <1>5, UnitRange
  <2> HIDE DEF S
  <2>4. FreeBlocks' = S
    BY <1>0, <2>1, <2>2, <2>3, FreeBlocksAre
  <2> QED
    BY <2>4 DEF S
<1>8. BP!Provide
  BY <1>6, <1>7 DEF BP!Provide
<1>9. Tiling' /\ BP!All' # {}
  <2>1. Tiling'
    BY <1>8, TilingStep DEF BP!Next
  <2> QED
    BY <1>7, <2>1 DEF BP!All
<1>10. TypeInv'
  BY <1>0, <1>3, <1>4 DEF TypeInv
<1>11. Lists'
  <2>1. mem'[0] = r
    BY <1>1, <1>3
  <2>2. mem'[0].order = MaxOrder /\ ~ mem'[0].used
    BY <1>2, <2>1
  <2>3. ASSUME NEW k \in Order, NEW a \in Chain(k)'
        PROVE  mem'[a].order = k /\ ~ mem'[a].used
    BY <1>5, <2>2
  <2> QED
    BY <1>5, <2>3 DEF Lists
<1>12. JobInv' /\ Headers' /\ Freed'
  <2>1. Freed'
    BY <1>0, <1>2, <1>3, <1>6, Types DEF Freed
  <2> QED
    BY <1>0, <1>9, <2>1 DEF JobInv, Headers
<1> QED
  BY <1>5, <1>8, <1>9, <1>10, <1>11, <1>12

(* The least of a set of numbers, and what the allocator takes it for. *)
LEMMA MinOfSet ==
  ASSUME NEW S, S \subseteq Nat, S # {}
  PROVE  Min(S) \in S /\ \A n \in S : Min(S) <= n
<1>1. PICK n \in S : \A m \in S : n <= m
  BY Least
<1> QED
  BY <1>1 DEF Min

(* The order a request wants is one that has a list, or none.               *)
LEMMA OrderWanted ==
  ASSUME NEW size
  PROVE  /\ WantedOrder(size) \in 0 .. Other
         /\ WantedOrder(size) # Other => WantedOrder(size) \in Order
<1> DEFINE n == (size + Header) % Narrow
           fit == {k \in Order : MinBlock * Size[k] >= n}
<1>1. WantedOrder(size) = IF fit = {} THEN Other ELSE Min(fit)
  BY DEF WantedOrder, SizeToOrder, Bytes
<1>2. fit \subseteq Order /\ fit \subseteq Nat /\ Order \subseteq 0 .. Other /\ Other \in 0 .. Other
  BY OrderSizes DEF Order, Other
<1> HIDE DEF fit
<1>3. fit # {} => Min(fit) \in Order
  BY <1>2, MinOfSet
<1> QED
  BY <1>1, <1>2, <1>3

(* Both ways to ask for a block are calls of alloc.                         *)
LEMMA AllocCall ==
  ASSUME Kmalloc \/ KmallocWithoutHeader
  PROVE  \E size \in Nat, headed \in BOOLEAN : Alloc(size, headed)
<1>1. CASE Kmalloc
  BY <1>1, BuddyAssumption DEF Kmalloc
<1>2. CASE KmallocWithoutHeader
  <2>1. PICK size \in Requests : size >= Header /\ Alloc(size - Header, FALSE)
    BY <1>2 DEF KmallocWithoutHeader
  <2>2. size - Header \in Nat
    BY <2>1, BuddyAssumption
  <2> QED
    BY <2>1, <2>2
<1> QED
  BY <1>1, <1>2

(* alloc, up to its first split, changes no list.                           *)
LEMMA AllocStep ==
  ASSUME BuddyInv, NEW size \in Nat, NEW headed \in BOOLEAN, Alloc(size, headed)
  PROVE  /\ BuddyInv' /\ UNCHANGED <<FreeBlocks, HeldBlocks>>
         /\ \A k \in Order : Chain(k)' = Chain(k)
<1> USE DEF BuddyInv
<1>1. /\ phase = "idle" /\ mem' = mem /\ free_lists' = free_lists
      /\ total_used' = total_used /\ held' = held /\ HeldBlocks' = HeldBlocks
  BY DEF Alloc, HeldBlocks
<1>2. \/ /\ phase' = "splitting" /\ Levels(size) # {}
         /\ job' = [order |-> WantedOrder(size), level |-> Min(Levels(size)),
                    block |-> Null, headed |-> headed]
         /\ reply' = [op |-> "allocating", size |-> size, addr |-> Null]
      \/ /\ phase' = "idle" /\ job' = job
         /\ reply' = [op |-> "alloc", size |-> size, addr |-> Null]
  BY <1>1 DEF Alloc
<1>3. phase' = "splitting" => /\ job'.order \in Order /\ job'.level \in Order
                              /\ job' \in [order : Order, level : Order, block : Pointer, headed : BOOLEAN]
                              /\ job'.order <= job'.level /\ free_lists[job'.level] # Null
                              /\ job'.order = WantedOrder(reply'.size)
  <2> SUFFICES ASSUME phase' = "splitting"
               PROVE  /\ job'.order \in Order /\ job'.level \in Order
                      /\ job' \in [order : Order, level : Order, block : Pointer, headed : BOOLEAN]
                      /\ job'.order <= job'.level /\ free_lists[job'.level] # Null
                      /\ job'.order = WantedOrder(reply'.size)
    OBVIOUS
  <2> DEFINE o == WantedOrder(size)
             l == Min(Levels(size))
  <2>1. Levels(size) \subseteq Order /\ Levels(size) \subseteq Nat
    BY OrderSizes DEF Levels
  <2>2. l \in Levels(size)
    BY <1>2, <2>1, MinOfSet
  <2>3. l \in Order /\ l >= o /\ free_lists[l] # Null
    BY <2>2 DEF Levels
  <2>4. o \in Order
    <3>1. o \in 0 .. MaxOrder + 1 /\ MaxOrder \in Nat
      BY OrderWanted, UnitRange DEF Other
    <3>2. l \in 0 .. MaxOrder /\ o <= l
      BY <2>3 DEF Order
    <3> HIDE DEF o, l
    <3>3. o \in 0 .. MaxOrder
      BY <3>1, <3>2
    <3> QED
      BY <3>3 DEF Order
  <2>5. /\ job' = [order |-> o, level |-> l, block |-> Null, headed |-> headed]
        /\ reply'.size = size /\ o = WantedOrder(size)
    BY <1>2
  <2> HIDE DEF o, l
  <2> QED
    BY <2>3, <2>4, <2>5, Types, OrderSizes
<1>4. \A k \in Order : Chain(k)' = Chain(k)
  BY <1>1, SameLists
<1>5. FreeBlocks' = FreeBlocks
  <2>1. \A b \in FreeBlocks : b = BP!BlockAt(b.addr, b.order)
    BY FreeBlock
  <2>2. \A a, k : BP!BlockAt(a, k) \in FreeBlocks <=> k \in Order /\ a \in Chain(k)
    BY <1>1, FreeBlock
  <2>3. phase' # "merging"
    BY <1>2
  <2>4. \A a, k : BP!BlockAt(a, k) \in FreeBlocks
                    <=> \/ k \in Order /\ a \in Chain(k)'
                        \/ phase' = "merging" /\ a = job'.block /\ k = job'.order
    BY <1>4, <2>2, <2>3
  <2> QED
    BY <2>1, <2>4, FreeBlocksAre
<1>6. Tiling' /\ BP!All' = BP!All
  BY <1>1, <1>5, TilingStep DEF BP!vars, BP!All
<1>7. TypeInv'
  <2>1. reply' \in Reply
    BY <1>2, Types DEF Reply
  <2>2. job' \in [order : Order, level : Order, block : Pointer, headed : BOOLEAN]
    BY <1>2, <1>3 DEF TypeInv
  <2> QED
    BY <1>1, <1>2, <2>1, <2>2 DEF TypeInv
<1>8. Lists'
  BY <1>1, <1>4 DEF Lists
<1>9. JobInv'
  BY <1>1, <1>2, <1>3, <1>6 DEF JobInv
<1>10. Headers' /\ Freed'
  BY <1>1, <1>2 DEF Headers, Freed
<1> QED
  BY <1>1, <1>4, <1>5, <1>6, <1>7, <1>8, <1>9, <1>10

(* The level to be split has a block, whose halves are Size apart.          *)
LEMMA SplitFacts ==
  ASSUME BuddyInv, SplitBlock
  PROVE  LET k == job.level
             block == free_lists[k]
             rest == mem[block].next
             buddy == block + Size[k - 1]
             head == free_lists[k - 1]
         IN /\ k \in Order /\ k > 0 /\ k - 1 \in Order \ {MaxOrder} /\ k - 1 # k
            /\ block \in Unit /\ block \in Chain(k) /\ buddy \in Unit /\ buddy # block
            /\ \A j \in Order : buddy \notin Chain(j)
            /\ \A b \in held : b.addr # buddy
            /\ rest # Null => rest \in Chain(k) /\ rest # block
            /\ head # Null => head \in Chain(k - 1)
<1> USE DEF BuddyInv
<1> DEFINE k == job.level
           block == free_lists[k]
           rest == mem[block].next
           buddy == block + Size[k - 1]
           head == free_lists[k - 1]
           b == BP!BlockAt(block, k)
<1>1. phase = "splitting" /\ k > job.order /\ k \in Order /\ job.order \in Order /\ block # Null
  BY Types DEF SplitBlock, JobInv
<1>2. k > 0 /\ k \in Nat /\ k - 1 \in Order \ {MaxOrder} /\ k - 1 # k /\ (k - 1) + 1 = k
  <2>1. k \in Order /\ k > job.order /\ job.order \in Order
    BY <1>1
  <2> HIDE DEF k
  <2>2. k # 0 /\ k > 0 /\ k \in Nat
    BY <2>1 DEF Order
  <2> QED
    BY <2>1, <2>2, OrderSizes
<1>3. /\ block \in Unit /\ block \in Chain(k) /\ mem[block].prev = Null
      /\ rest # Null => rest \in Chain(k) /\ mem[rest].prev = block
  BY <1>1, Chains
<1>4. head # Null => head \in Chain(k - 1)
  BY <1>2, Chains
<1>5. rest # Null => rest # block
  BY <1>1, <1>3
<1>6. /\ b \in FreeBlocks /\ b \in BP!All /\ b.addr = block /\ b.order = k
  BY <1>1, <1>3, ListBlock
<1>7. /\ Size[k - 1] \in Nat \ {0} /\ Size[k] = Size[k - 1] + Size[k - 1]
  <2> HIDE DEF k
  <2>1. Size[(k - 1) + 1] = 2 * Size[k - 1] /\ Size[k - 1] \in Nat \ {0}
    BY <1>2, OrderSizes
  <2> QED
    BY <1>2, <2>1
<1>8. /\ \A x \in Nat : block <= x /\ x < block + Size[k] => x \in Unit /\ x \in BP!Covers(b)
      /\ block \in Nat
  <2> HIDE DEF b, k, block
  <2> QED
    BY <1>6, BlockFacts
<1>9. buddy \in Unit /\ buddy \in BP!Covers(b) /\ buddy # block
  <2> DEFINE s == Size[k - 1]
             x == buddy
  <2>1. x = block + s /\ s \in Nat \ {0} /\ Size[k] = s + s
    BY <1>7
  <2> HIDE DEF s, b, k, block, x
  <2>2. x \in Nat /\ block <= x /\ x < block + Size[k] /\ x # block
    BY <1>8, <2>1
  <2>3. x \in Unit /\ x \in BP!Covers(b) /\ x # block
    BY <1>8, <2>2
  <2> QED
    BY <2>3 DEF x
<1> HIDE DEF b, k, block, rest, buddy, head
<1>10. ASSUME NEW c \in BP!All, c.addr = buddy PROVE FALSE
  <2>1. buddy \in BP!Covers(c)
    BY <1>10, BlockFacts
  <2>2. c = b
    BY <1>6, <1>9, <2>1, Apart
  <2> QED
    BY <1>6, <1>9, <1>10, <2>2
<1>11. \A j \in Order : buddy \notin Chain(j)
  BY <1>10, ListBlock
<1>12. \A h \in held : h.addr # buddy
  BY <1>10, HeldBlock
<1> QED
  BY <1>1, <1>2, <1>3, <1>4, <1>5, <1>9, <1>11, <1>12 DEF k, block, rest, buddy, head

(* A split replaces the first block of the list by its two halves, one order *)
(* below.                                                                   *)
LEMMA SplitStep ==
  ASSUME BuddyInv, SplitBlock
  PROVE  /\ BuddyInv'
         /\ LET k == job.level
                block == free_lists[k]
                buddy == block + Size[k - 1]
            IN /\ BP!BlockAt(block, k) \in BP!Block /\ BP!Split(BP!BlockAt(block, k))
               /\ \A j \in Order : Chain(j)' = IF j = k THEN Chain(k) \ {block}
                                               ELSE IF j = k - 1 THEN Chain(j) \cup {block, buddy}
                                               ELSE Chain(j)
<1> USE DEF BuddyInv
<1> DEFINE k == job.level
           block == free_lists[k]
           rest == mem[block].next
           buddy == block + Size[k - 1]
           head == free_lists[k - 1]
           b == BP!BlockAt(block, k)
<1>1. /\ k \in Order /\ k > 0 /\ k - 1 \in Order \ {MaxOrder} /\ k - 1 # k
      /\ block \in Unit /\ block \in Chain(k) /\ buddy \in Unit /\ buddy # block
      /\ \A j \in Order : buddy \notin Chain(j)
      /\ \A h \in held : h.addr # buddy
      /\ rest # Null => rest \in Chain(k) /\ rest # block
      /\ head # Null => head \in Chain(k - 1)
  BY SplitFacts
<1>2. /\ mem' \in [Pointer -> Node]
      /\ \A a \in Pointer :
           /\ mem'[a].next = IF a = buddy THEN head ELSE IF a = block THEN buddy ELSE mem[a].next
           /\ mem'[a].prev = IF a = buddy THEN block
                             ELSE IF a = head /\ head # Null THEN buddy
                             ELSE IF a = rest /\ rest # Null THEN Null ELSE mem[a].prev
           /\ mem'[a].order = IF a \in {buddy, block} THEN k - 1 ELSE mem[a].order
           /\ (a = buddy => ~ mem'[a].used) /\ (a # buddy => mem'[a].used = mem[a].used)
  <2>1. job.level - 1 \in Order /\ free_lists[job.level] \in Unit
         /\ free_lists[job.level] + Size[job.level - 1] \in Unit
    BY <1>1
  <2> QED
    BY <2>1, SplitMemory
<1>3. /\ phase = "splitting" /\ phase' = "splitting" /\ held' = held /\ reply' = reply
      /\ total_used' = total_used /\ HeldBlocks' = HeldBlocks /\ k > job.order
  BY DEF SplitBlock, HeldBlocks
<1>4. /\ free_lists' \in [Order -> Pointer]
      /\ \A j \in Order : free_lists'[j] = IF j = k - 1 THEN block ELSE IF j = k THEN rest ELSE free_lists[j]
  <2>1. free_lists' = [free_lists EXCEPT ![k] = rest, ![k - 1] = block]
    BY DEF SplitBlock
  <2>2. rest \in Pointer /\ block \in Pointer /\ free_lists \in [Order -> Pointer]
    BY <1>1, Types DEF TypeInv
  <2> HIDE DEF k, rest, block
  <2> QED
    BY <1>1, <2>1, <2>2
<1>5. job' \in [order : Order, level : Order, block : Pointer, headed : BOOLEAN]
      /\ job'.level = k - 1 /\ job'.order = job.order
  <2>1. job' = [job EXCEPT !.level = k - 1]
    BY DEF SplitBlock
  <2> HIDE DEF k
  <2> QED
    BY <1>1, <2>1 DEF TypeInv
<1>6. mem[block].prev = Null
  BY <1>1, Chains, UnitRange
<1>7. \A j \in Order : \A a \in Chain(j) : /\ a \in Pointer /\ a \in Unit /\ a # Null /\ a # buddy
                                           /\ mem[a].order = j /\ ~ mem[a].used
  BY <1>1, Chains, Types
<1>8. b \in FreeBlocks /\ b \in BP!All /\ b.addr = block /\ b.order = k /\ b \in BP!Block
  <2>1. b \in FreeBlocks /\ b \in BP!All /\ b.addr = block /\ b.order = k
    BY <1>1, ListBlock
  <2>2. b \in BP!Block
    BY <2>1 DEF Tiling, BP!IInv, BP!TypeOK, BP!All
  <2> QED
    BY <2>1, <2>2
<1>9. BP!Lower(b) = BP!BlockAt(block, k - 1) /\ BP!Upper(b) = BP!BlockAt(buddy, k - 1)
  BY <1>8 DEF BP!Lower, BP!Upper
<1> HIDE DEF b, k, block, rest, buddy, head
<1>10. ASSUME NEW j \in Order, j = k
       PROVE  Chain(j)' = Chain(j) \ {block} /\ Linked(free_lists'[j], mem')
  <2>1. /\ free_lists'[k] = rest /\ mem[block].next = rest /\ free_lists[k] = block
    BY <1>1, <1>4 DEF rest, block
  <2>2. head # Null => head \notin Chain(k)
    BY <1>1, <1>7
  <2>3. \A a \in Chain(k) \ {block} : /\ mem'[a].next = mem[a].next
                                      /\ mem'[a].prev = IF a = rest THEN Null ELSE mem[a].prev
    BY <1>1, <1>2, <1>7, <2>2
  <2>4. \A a \in Chain(k) \ {block} : a # Null
    BY <1>7, <1>1
  <2>5. Unlinked(free_lists[k], mem, block, free_lists'[k], mem')
    <3>1. Nodes(free_lists[k], mem) = Chain(k)
      BY <1>1, Chains
    <3> QED
      BY <1>6, <2>1, <2>3, <2>4, <3>1 DEF Unlinked
  <2> QED
    <3>1. block \in Chain(j) /\ Unlinked(free_lists[j], mem, block, free_lists'[j], mem')
      BY <1>1, <1>10, <2>5
    <3> QED
      BY <3>1, ChainRemoved
<1>11. ASSUME NEW j \in Order, j = k - 1
       PROVE  Chain(j)' = Chain(j) \cup {block, buddy} /\ Linked(free_lists'[j], mem')
  <2>1. /\ block # buddy /\ block \notin Chain(k - 1) /\ buddy \notin Chain(k - 1)
        /\ k - 1 \in Order /\ block \in Unit /\ buddy \in Unit
    BY <1>1, <1>7
  <2>2. /\ free_lists'[k - 1] = block /\ head = free_lists[k - 1]
    BY <1>1, <1>4 DEF head
  <2>3. block \in Pointer /\ buddy \in Pointer /\ block # head /\ block # rest
    BY <1>1, <1>7, <2>1, UnitRange DEF Pointer
  <2>4. /\ mem'[block].next = buddy /\ mem'[block].prev = Null
        /\ mem'[buddy].next = head /\ mem'[buddy].prev = block
    BY <1>2, <1>6, <2>1, <2>3
  <2>5. rest # Null => rest \notin Chain(k - 1)
    BY <1>1, <1>7
  <2>6. \A a \in Chain(k - 1) : /\ mem'[a].next = mem[a].next
                                /\ mem'[a].prev = IF a = head THEN buddy ELSE mem[a].prev
    BY <1>1, <1>2, <1>7, <2>1, <2>5
  <2> QED
    BY <1>2, <1>11, <2>1, <2>2, <2>4, <2>6, ChainPushedTwice
<1>12. ASSUME NEW j \in Order, j # k, j # k - 1
       PROVE  Chain(j)' = Chain(j) /\ Linked(free_lists'[j], mem')
  <2>1. head # Null => head \notin Chain(j)
    BY <1>1, <1>7, <1>12
  <2>2. rest # Null => rest \notin Chain(j)
    BY <1>1, <1>7, <1>12
  <2>3. block \notin Chain(j)
    BY <1>1, <1>7, <1>12
  <2>4. \A a \in Chain(j) : mem'[a].next = mem[a].next /\ mem'[a].prev = mem[a].prev
    BY <1>2, <1>7, <2>1, <2>2, <2>3
  <2>5. free_lists'[j] = free_lists[j]
    BY <1>4, <1>12
  <2> QED
    BY <2>4, <2>5, ChainKept
<1>13. \A j \in Order : Chain(j)' = IF j = k THEN Chain(k) \ {block}
                                    ELSE IF j = k - 1 THEN Chain(j) \cup {block, buddy}
                                    ELSE Chain(j)
  BY <1>1, <1>10, <1>11, <1>12
<1>14. \A j \in Order : Linked(free_lists'[j], mem')
  BY <1>10, <1>11, <1>12
<1>15. Lists'
  <2>1. ASSUME NEW j \in Order, NEW a \in Chain(j)'
        PROVE  mem'[a].order = j /\ ~ mem'[a].used
    <3>1. CASE a = block \/ a = buddy
      <4>1. j = k - 1
        BY <1>1, <1>7, <1>13, <3>1
      <4>2. a \in Pointer /\ ~ mem[block].used
        BY <1>1, <1>7, <3>1, UnitRange DEF Pointer
      <4>3. mem'[a].order = k - 1
        BY <1>2, <3>1, <4>2
      <4>4. ~ mem'[a].used
        BY <1>1, <1>2, <3>1, <4>2
      <4> QED
        BY <4>1, <4>3, <4>4
    <3>2. CASE a # block /\ a # buddy
      <4>1. a \in Chain(j)
        BY <1>13, <3>2
      <4> QED
        BY <1>2, <1>7, <3>2, <4>1
    <3> QED
      BY <3>1, <3>2
  <2> QED
    BY <1>14, <2>1 DEF Lists
<1>16. FreeBlocks' = (FreeBlocks \ {b}) \cup {BP!Lower(b), BP!Upper(b)}
  <2> DEFINE S == (FreeBlocks \ {b}) \cup {BP!Lower(b), BP!Upper(b)}
  <2>1. \A c \in S : c = BP!BlockAt(c.addr, c.order)
    BY <1>9, FreeBlock DEF BP!BlockAt
  <2>2. ASSUME NEW a, NEW j
        PROVE  BP!BlockAt(a, j) \in S <=> j \in Order /\ a \in Chain(j)'
    <3>1. BP!BlockAt(a, j) = b <=> a = block /\ j = k
      BY BlockAtEq DEF b
    <3>2. BP!BlockAt(a, j) \in {BP!Lower(b), BP!Upper(b)} <=> (a = block \/ a = buddy) /\ j = k - 1
      BY <1>9, BlockAtEq
    <3>3. BP!BlockAt(a, j) \in FreeBlocks <=> j \in Order /\ a \in Chain(j)
      BY <1>3, FreeBlock
    <3> QED
      BY <1>1, <1>13, <3>1, <3>2, <3>3
  <2> HIDE DEF S
  <2>3. FreeBlocks' = S
    <3>1. phase' # "merging"
      BY <1>3
    <3>2. \A a, j : BP!BlockAt(a, j) \in S
                      <=> \/ j \in Order /\ a \in Chain(j)'
                          \/ phase' = "merging" /\ a = job'.block /\ j = job'.order
      BY <2>2, <3>1
    <3> QED
      BY <2>1, <3>2, FreeBlocksAre
  <2> QED
    BY <2>3 DEF S
<1>17. BP!Split(b)
  BY <1>1, <1>3, <1>8, <1>16 DEF BP!Split
<1>18. Tiling' /\ BP!All' # {}
  <2>1. Tiling'
    BY <1>8, <1>17, TilingStep DEF BP!Next
  <2> QED
    BY <1>16, <2>1 DEF BP!All
<1>19. TypeInv'
  BY <1>2, <1>3, <1>4, <1>5 DEF TypeInv
<1>20. JobInv'
  <2>1. job'.order <= job'.level
    <3>1. job.order \in Nat /\ k \in Nat /\ job.order < k
      BY <1>1, <1>3, Types, OrderSizes
    <3> QED
      BY <1>5, <3>1
  <2>2. free_lists'[job'.level] # Null
    BY <1>1, <1>4, <1>5, UnitRange
  <2>3. job'.order = WantedOrder(reply'.size)
    BY <1>3, <1>5 DEF JobInv
  <2> QED
    BY <1>3, <1>18, <2>1, <2>2, <2>3 DEF JobInv
<1>21. Headers'
  <2>1. ASSUME NEW h \in held PROVE mem'[h.addr].used = mem[h.addr].used /\ mem'[h.addr].order = mem[h.addr].order
    <3>1. h.addr # buddy /\ h.addr # block /\ h.addr \in Pointer
      BY <1>1, NodesApart, Types
    <3> QED
      BY <1>2, <3>1
  <2> QED
    BY <1>3, <2>1 DEF Headers
<1>22. Freed'
  BY <1>3 DEF JobInv, Freed
<1> QED
  BY <1>8, <1>13, <1>15, <1>17, <1>18, <1>19, <1>20, <1>21, <1>22 DEF b, k, block, buddy

(* The first block of the wanted order is handed out: it is held from then  *)
(* on.                                                                      *)
LEMMA HandOutStep ==
  ASSUME BuddyInv, HandOut
  PROVE  /\ BuddyInv'
         /\ LET o == job.order
                block == free_lists[o]
            IN /\ o \in Order /\ block \in Chain(o) /\ total_used' = total_used + Bytes(o)
               /\ BP!BlockAt(block, o) \in BP!Block /\ BP!Take(BP!BlockAt(block, o))
               /\ \A j \in Order : Chain(j)' = IF j = o THEN Chain(o) \ {block} ELSE Chain(j)
<1> USE DEF BuddyInv
<1> DEFINE o == job.order
           block == free_lists[o]
           rest == mem[block].next
           b == BP!BlockAt(block, o)
           h == Handed(block)
<1>1. /\ phase = "splitting" /\ job.level = job.order /\ phase' = "idle" /\ job' = NoJob
      /\ total_used' = total_used + Bytes(o) /\ held' = held \cup {h}
      /\ reply' = [op |-> "alloc", size |-> reply.size, addr |-> block]
  BY DEF HandOut
<1>2. o \in Order /\ block # Null
  BY <1>1, Types DEF JobInv
<1>3. /\ block \in Unit /\ block \in Chain(o) /\ mem[block].prev = Null
      /\ rest # Null => rest \in Chain(o) /\ mem[rest].prev = block
  BY <1>2, Chains
<1>4. rest # Null => rest # block
  BY <1>2, <1>3
<1>5. /\ mem' \in [Pointer -> Node]
      /\ \A a \in Pointer :
           /\ mem'[a].next = mem[a].next
           /\ mem'[a].prev = IF a = rest /\ rest # Null THEN Null ELSE mem[a].prev
           /\ mem'[a].order = mem[a].order
           /\ (a = block => mem'[a].used) /\ (a # block => mem'[a].used = mem[a].used)
  BY <1>3, HandOutMemory
<1>6. /\ free_lists' \in [Order -> Pointer]
      /\ \A j \in Order : free_lists'[j] = IF j = o THEN rest ELSE free_lists[j]
  <2>1. free_lists' = [free_lists EXCEPT ![o] = rest]
    BY DEF HandOut
  <2>2. rest \in Pointer /\ free_lists \in [Order -> Pointer]
    BY <1>3, Types DEF TypeInv
  <2> HIDE DEF o, rest
  <2> QED
    BY <1>2, <2>1, <2>2
<1>7. \A j \in Order : \A a \in Chain(j) : /\ a \in Pointer /\ a \in Unit /\ a # Null
                                           /\ mem[a].order = j /\ ~ mem[a].used
  BY Chains, Types
<1>8. b \in FreeBlocks /\ b \in BP!All /\ b.addr = block /\ b.order = o /\ b \in BP!Block
  <2>1. b \in FreeBlocks /\ b \in BP!All /\ b.addr = block /\ b.order = o
    BY <1>2, <1>3, ListBlock
  <2>2. b \in BP!Block
    BY <2>1 DEF Tiling, BP!IInv, BP!TypeOK, BP!All
  <2> QED
    BY <2>1, <2>2
<1>9. job.headed \in BOOLEAN /\ h.addr = block /\ h.order = o /\ h.headed = job.headed
        /\ h \in Holding /\ (~ h.headed => h.order = SizeToOrder(h.size % Narrow))
  <2>1. job.headed \in BOOLEAN /\ reply.size \in Nat
    BY DEF TypeInv, Reply
  <2> DEFINE n == IF job.headed THEN 0 ELSE reply.size + Header
  <2>2. h = [addr |-> block, order |-> o, headed |-> job.headed, size |-> n]
    BY DEF Handed
  <2>3. n \in Nat /\ (~ job.headed => o = SizeToOrder(n % Narrow))
    BY <1>1, <2>1, BuddyAssumption DEF JobInv, WantedOrder
  <2> HIDE DEF o, block, h, n
  <2> QED
    BY <1>2, <1>3, <2>1, <2>2, <2>3 DEF Holding
<1>10. HeldBlocks' = HeldBlocks \cup {b}
  BY <1>1, <1>9 DEF HeldBlocks, BP!BlockAt
<1> HIDE DEF b, h, o, block, rest
<1>11. ASSUME NEW j \in Order, j = o
       PROVE  Chain(j)' = Chain(j) \ {block} /\ Linked(free_lists'[j], mem')
  <2>1. /\ free_lists'[j] = rest /\ mem[block].next = rest /\ free_lists[j] = block
    BY <1>6, <1>11 DEF rest, block
  <2>2. \A a \in Chain(j) \ {block} : /\ mem'[a].next = mem[a].next /\ a # Null
                                      /\ mem'[a].prev = IF a = rest THEN Null ELSE mem[a].prev
    BY <1>5, <1>7
  <2>3. block \in Chain(j) /\ Unlinked(free_lists[j], mem, block, free_lists'[j], mem')
    <3>1. Nodes(free_lists[j], mem) = Chain(j)
      BY Chains
    <3> QED
      BY <1>3, <1>11, <2>1, <2>2, <3>1 DEF Unlinked
  <2> QED
    BY <2>3, ChainRemoved
<1>12. ASSUME NEW j \in Order, j # o
       PROVE  Chain(j)' = Chain(j) /\ Linked(free_lists'[j], mem')
  <2>1. rest # Null => rest \notin Chain(j)
    BY <1>2, <1>3, <1>7, <1>12
  <2>2. \A a \in Chain(j) : mem'[a].next = mem[a].next /\ mem'[a].prev = mem[a].prev
    BY <1>5, <1>7, <2>1
  <2>3. free_lists'[j] = free_lists[j]
    BY <1>6, <1>12
  <2> QED
    BY <2>2, <2>3, ChainKept
<1>13. \A j \in Order : Chain(j)' = IF j = o THEN Chain(o) \ {block} ELSE Chain(j)
  BY <1>11, <1>12
<1>14. Lists'
  <2>1. ASSUME NEW j \in Order, NEW a \in Chain(j)'
        PROVE  mem'[a].order = j /\ ~ mem'[a].used
    <3>1. a \in Chain(j) /\ a # block
      BY <1>2, <1>3, <1>7, <1>13
    <3> QED
      BY <1>5, <1>7, <3>1
  <2> QED
    BY <1>11, <1>12, <2>1 DEF Lists
<1>15. FreeBlocks' = FreeBlocks \ {b}
  <2> DEFINE S == FreeBlocks \ {b}
  <2>1. \A c \in S : c = BP!BlockAt(c.addr, c.order)
    BY FreeBlock
  <2>2. ASSUME NEW a, NEW j
        PROVE  BP!BlockAt(a, j) \in S <=> j \in Order /\ a \in Chain(j)'
    <3>1. BP!BlockAt(a, j) = b <=> a = block /\ j = o
      BY BlockAtEq DEF b
    <3>2. BP!BlockAt(a, j) \in FreeBlocks <=> j \in Order /\ a \in Chain(j)
      BY <1>1, FreeBlock
    <3> QED
      BY <1>2, <1>13, <3>1, <3>2
  <2> HIDE DEF S
  <2>3. FreeBlocks' = S
    <3>1. phase' # "merging"
      BY <1>1
    <3>2. \A a, j : BP!BlockAt(a, j) \in S
                      <=> \/ j \in Order /\ a \in Chain(j)'
                          \/ phase' = "merging" /\ a = job'.block /\ j = job'.order
      BY <2>2, <3>1
    <3> QED
      BY <2>1, <3>2, FreeBlocksAre
  <2> QED
    BY <2>3 DEF S
<1>16. BP!Take(b)
  BY <1>8, <1>10, <1>15 DEF BP!Take
<1>17. Tiling' /\ BP!All' # {}
  <2>1. Tiling'
    BY <1>8, <1>16, TilingStep DEF BP!Next
  <2> QED
    BY <1>10, <2>1 DEF BP!All
<1>18. TypeInv'
  <2>1. job' \in [order : Order, level : Order, block : Pointer, headed : BOOLEAN]
    BY <1>1, Types, OrderSizes DEF NoJob, Order
  <2>2. reply' \in Reply
    BY <1>1, <1>3, Types DEF TypeInv, Reply
  <2>3. total_used' \in Int
    BY <1>1, <1>2, ByteSizes DEF TypeInv
  <2>4. held' \subseteq Holding
    BY <1>1, <1>9 DEF TypeInv
  <2> QED
    BY <1>1, <1>5, <1>6, <2>1, <2>2, <2>3, <2>4 DEF TypeInv
<1>19. JobInv'
  BY <1>1, <1>17 DEF JobInv
<1>20. Headers'
  <2>1. \A c \in held : c.addr # block /\ c.addr \in Pointer
    BY <1>2, <1>3, NodesApart, Types
  <2>2. block \in Pointer /\ mem[block].order = o
    BY <1>2, <1>3, <1>7
  <2>3. /\ mem'[h.addr].used /\ mem'[h.addr].order = h.order
        /\ ~ h.headed => h.order = SizeToOrder(h.size % Narrow)
    BY <1>5, <1>9, <2>2
  <2>4. \A c \in held : /\ mem'[c.addr].used \/ mem'[c.addr].order = Other
                        /\ c.headed => mem'[c.addr].used /\ mem'[c.addr].order = c.order
                        /\ ~ c.headed => c.order = SizeToOrder(c.size % Narrow)
    BY <1>5, <2>1 DEF Headers
  <2>5. \A c, d \in held' : c.addr = d.addr => c = d
    BY <1>1, <1>9, <2>1 DEF Headers
  <2> QED
    BY <1>1, <2>3, <2>4, <2>5 DEF Headers
<1>21. Freed'
  BY <1>1 DEF Freed
<1>22. total_used' = total_used + Bytes(o)
  BY <1>1
<1> QED
  BY <1>2, <1>3, <1>8, <1>13, <1>14, <1>16, <1>17, <1>18, <1>19, <1>20, <1>21, <1>22 DEF b, o, block

(* The part of kfree and kfree_without_header that frees what is held.      *)
LEMMA FreeStep ==
  ASSUME BuddyInv, NEW h \in held, phase = "idle", phase' = "merging",
         mem' = [mem EXCEPT ![h.addr].used = FALSE, ![h.addr].order = h.order],
         free_lists' = free_lists, total_used' = total_used - Bytes(h.order),
         held' = held \ {h},
         job' = [order |-> h.order, level |-> 0, block |-> h.addr, headed |-> TRUE],
         reply' = [op |-> "free", size |-> 0, addr |-> h.addr]
  PROVE  /\ BuddyInv'
         /\ BP!BlockAt(h.addr, h.order) \in BP!Block /\ BP!Give(BP!BlockAt(h.addr, h.order))
         /\ \A j \in Order : Chain(j)' = Chain(j)
<1> USE DEF BuddyInv
<1> DEFINE x == h.addr
           o == h.order
           b == BP!BlockAt(x, o)
<1>1. x \in Unit /\ x \in Pointer /\ o \in Order /\ o \in 0 .. Other
  BY Types, UnitRange DEF Order, Other
<1>2. /\ mem' \in [Pointer -> Node]
      /\ \A a \in Pointer : /\ mem'[a].next = mem[a].next /\ mem'[a].prev = mem[a].prev
                            /\ mem'[a].order = IF a = x THEN o ELSE mem[a].order
                            /\ (a = x => ~ mem'[a].used) /\ (a # x => mem'[a].used = mem[a].used)
  BY <1>1, FreeMemory
<1>3. job'.order = o /\ job'.block = x /\ reply'.op = "free" /\ reply'.addr = x
        /\ job' \in [order : Order, level : Order, block : Pointer, headed : BOOLEAN]
        /\ reply' \in Reply
  <2>1. 0 \in Order
    BY UnitRange DEF Order
  <2> HIDE DEF x, o
  <2>2. job' = [order |-> o, level |-> 0, block |-> x, headed |-> TRUE]
        /\ reply' = [op |-> "free", size |-> 0, addr |-> x]
    BY DEF x, o
  <2> QED
    BY <1>1, <2>1, <2>2 DEF Reply
<1>4. b \in HeldBlocks /\ b \in BP!All /\ b.addr = x /\ b.order = o /\ b \in BP!Block
        /\ b \notin FreeBlocks
  <2>1. b \in HeldBlocks /\ b \in BP!All /\ b.addr = x /\ b.order = o
    BY HeldBlock
  <2>2. b \in BP!Block
    BY <2>1 DEF Tiling, BP!IInv, BP!TypeOK, BP!All
  <2> QED
    BY <2>1, <2>2, FreeNotHeld
<1>5. HeldBlocks' = HeldBlocks \ {b}
  <2>1. \A c \in held : c # h => BP!BlockAt(c.addr, c.order) # b
    BY BlockAtEq DEF Headers
  <2>2. HeldBlocks = {BP!BlockAt(c.addr, c.order) : c \in held}
    BY DEF HeldBlocks, BP!BlockAt
  <2>3. HeldBlocks' = {BP!BlockAt(c.addr, c.order) : c \in held'}
    BY DEF HeldBlocks, BP!BlockAt
  <2> HIDE DEF b
  <2>4. BP!BlockAt(h.addr, h.order) = b
    BY DEF b
  <2> QED
    BY <2>1, <2>2, <2>3, <2>4
<1> HIDE DEF b, x, o
<1>6. \A j \in Order : \A a \in Chain(j) : /\ a \in Pointer /\ a # x
                                           /\ mem[a].order = j /\ ~ mem[a].used
  BY Chains, Types, NodesApart DEF x
<1>7. \A j \in Order : Chain(j)' = Chain(j) /\ Linked(free_lists'[j], mem')
  BY <1>2, <1>6, ChainKept
<1>8. Lists'
  <2>1. ASSUME NEW j \in Order, NEW a \in Chain(j)'
        PROVE  mem'[a].order = j /\ ~ mem'[a].used
    <3>1. a \in Chain(j) /\ a \in Pointer /\ a # x /\ mem[a].order = j /\ ~ mem[a].used
      BY <1>6, <1>7
    <3> QED
      BY <1>2, <3>1
  <2> QED
    BY <1>7, <2>1 DEF Lists
<1>9. FreeBlocks' = FreeBlocks \cup {b}
  <2> DEFINE S == FreeBlocks \cup {b}
  <2>1. \A c \in S : c = BP!BlockAt(c.addr, c.order)
    BY <1>4, FreeBlock DEF b
  <2>2. ASSUME NEW a, NEW j
        PROVE  BP!BlockAt(a, j) \in S
                 <=> \/ j \in Order /\ a \in Chain(j)'
                     \/ phase' = "merging" /\ a = job'.block /\ j = job'.order
    <3>1. BP!BlockAt(a, j) = b <=> a = x /\ j = o
      BY BlockAtEq DEF b
    <3>2. BP!BlockAt(a, j) \in FreeBlocks <=> j \in Order /\ a \in Chain(j)
      BY FreeBlock
    <3> QED
      BY <1>3, <1>7, <3>1, <3>2
  <2> HIDE DEF S
  <2>3. FreeBlocks' = S
    BY <2>1, <2>2, FreeBlocksAre
  <2> QED
    BY <2>3 DEF S
<1>10. BP!Give(b)
  BY <1>4, <1>5, <1>9 DEF BP!Give
<1>11. Tiling' /\ BP!All' # {}
  <2>1. Tiling'
    BY <1>4, <1>10, TilingStep DEF BP!Next
  <2> QED
    BY <1>9, <2>1 DEF BP!All
<1>12. TypeInv'
  <2>1. total_used' \in Int
    BY <1>1, ByteSizes DEF TypeInv, o
  <2>2. held' \subseteq Holding
    BY DEF TypeInv
  <2> QED
    BY <1>2, <1>3, <2>1, <2>2 DEF TypeInv
<1>13. JobInv'
  <2>1. \A k \in Order : x \notin Chain(k)'
    BY <1>6, <1>7
  <2>2. ~ mem'[x].used
    BY <1>1, <1>2
  <2> QED
    BY <1>1, <1>3, <1>11, <2>1, <2>2 DEF JobInv
<1>14. Headers'
  <2>1. \A c \in held' : c \in held /\ c.addr # x /\ c.addr \in Pointer
    BY Types DEF Headers, x
  <2> QED
    BY <1>2, <2>1 DEF Headers
<1>15. Freed'
  <2>1. ASSUME NEW c \in HeldBlocks', x \in BP!Covers(c) PROVE FALSE
    <3>1. c \in BP!All /\ c # b
      BY <1>5 DEF BP!All
    <3>2. x \in BP!Covers(b)
      BY <1>4, BlockFacts
    <3> QED
      BY <1>4, <2>1, <3>1, <3>2, Apart
  <2> QED
    BY <1>1, <1>2, <1>3, <2>1 DEF Freed
<1> QED
  BY <1>4, <1>7, <1>8, <1>10, <1>11, <1>12, <1>13, <1>14, <1>15 DEF b, x, o

(* A block that is returned with its own size gets a header with its order. *)
LEMMA WholeSize ==
  ASSUME BuddyInv, NEW h \in held, ~ h.headed, h.size = Bytes(h.order)
  PROVE  SizeToOrder(h.size) = h.order
<1> DEFINE b == BP!BlockAt(h.addr, h.order)
<1>1. b \in BP!All /\ b.addr = h.addr /\ b.order = h.order
  BY HeldBlock
<1> HIDE DEF b
<1>2. /\ b.addr \in Nat /\ b.addr + Size[b.order] <= Size[MaxOrder]
      /\ h.order \in Order
  <2>1. TypeInv /\ Tiling
    BY DEF BuddyInv
  <2>2. b.addr \in Nat /\ b.addr + Size[b.order] <= Size[MaxOrder]
    BY <1>1, <2>1, BlockFacts
  <2>3. h.order \in Order
    BY <2>1, Types
  <2> QED
    BY <2>2, <2>3
<1>3. Size[h.order] \in Nat \ {0} /\ Size[MaxOrder] \in Nat \ {0} /\ Size[h.order] <= Size[MaxOrder]
  <2>1. Size[h.order] \in Nat \ {0} /\ Size[MaxOrder] \in Nat \ {0} /\ b.order = h.order
    BY <1>1, <1>2, OrderSizes
  <2> QED
    BY <1>2, <2>1
<1>4. Bytes(h.order) <= Bytes(MaxOrder) /\ Bytes(h.order) \in Nat /\ Bytes(MaxOrder) \in Nat
  <2>1. MinBlock * Size[h.order] <= MinBlock * Size[MaxOrder]
    BY <1>3, TimesOrder, BuddyAssumption
  <2> QED
    BY <1>2, <2>1, ByteSizes, OrderSizes
<1>5. h.size \in Nat /\ Narrow \in Nat /\ h.size < Narrow
  <2>1. Bytes(MaxOrder) < Narrow /\ Narrow \in Nat
    BY BuddyAssumption DEF Bytes
  <2> QED
    BY <1>4, <2>1
<1>6. h.size % Narrow = h.size
  BY <1>5
<1> QED
  BY <1>6 DEF BuddyInv, Headers

(* A return with another size changes no block and no list.                 *)
LEMMA MisfreeStep ==
  ASSUME BuddyInv, Misfree
  PROVE  /\ BuddyInv' /\ UNCHANGED <<FreeBlocks, HeldBlocks>>
         /\ UNCHANGED <<mem, free_lists, job, held>>
         /\ phase = "idle" /\ phase' = "misfreed" /\ reply'.op = "misfree"
         /\ reply'.size \in Nat /\ total_used' = total_used - reply'.size
         /\ \A j \in Order : Chain(j)' = Chain(j)
<1> USE DEF BuddyInv
<1>1. PICK h \in held :
        /\ phase = "idle" /\ phase' = "misfreed"
        /\ total_used' = total_used - Cleared(h.size)
        /\ reply' = [op |-> "misfree", size |-> Cleared(h.size), addr |-> h.addr]
        /\ UNCHANGED <<mem, free_lists, job, held>>
  BY DEF Misfree
<1>2. h.addr \in Pointer /\ h.size \in Nat
  BY Types
<1>3. Cleared(h.size) \in Nat
  BY <1>2 DEF Cleared
<1>4. reply'.op = "misfree" /\ reply'.size = Cleared(h.size) /\ reply' \in Reply
  BY <1>1, <1>2, <1>3 DEF Reply
<1>5. HeldBlocks' = HeldBlocks /\ \A k : Chain(k)' = Chain(k)
  BY <1>1, SameLists DEF HeldBlocks
<1>6. FreeBlocks' = FreeBlocks
  <2>1. \A c \in FreeBlocks : c = BP!BlockAt(c.addr, c.order)
    BY FreeBlock
  <2>2. \A a, j : BP!BlockAt(a, j) \in FreeBlocks
                    <=> \/ j \in Order /\ a \in Chain(j)'
                        \/ phase' = "merging" /\ a = job'.block /\ j = job'.order
    BY <1>1, <1>5, FreeBlock
  <2> QED
    BY <2>1, <2>2, FreeBlocksAre
<1>7. Tiling' /\ BP!All' = BP!All
  BY <1>5, <1>6, TilingStep DEF BP!vars, BP!All
<1>8. TypeInv' /\ Lists'
  BY <1>1, <1>3, <1>4, <1>5 DEF TypeInv, Lists
<1>9. JobInv' /\ Headers' /\ Freed'
  BY <1>1, <1>4, <1>7 DEF JobInv, Headers, Freed
<1> QED
  BY <1>1, <1>3, <1>4, <1>5, <1>6, <1>7, <1>8, <1>9

(* kfree and the return of a block without a header give back a held block, *)
(* and nothing else.                                                        *)
LEMMA KfreeStep ==
  ASSUME BuddyInv, Kfree \/ KfreeWithoutHeader
  PROVE  /\ BuddyInv'
         /\ phase = "idle" /\ phase' = "merging" /\ reply'.op = "free"
         /\ \E h \in held : /\ BP!BlockAt(h.addr, h.order) \in BP!Block
                            /\ BP!Give(BP!BlockAt(h.addr, h.order))
                            /\ total_used' = total_used - Bytes(h.order)
         /\ \A j \in Order : Chain(j)' = Chain(j)
<1>1. \E h \in held : /\ phase = "idle" /\ phase' = "merging"
         /\ mem' = [mem EXCEPT ![h.addr].used = FALSE, ![h.addr].order = h.order]
         /\ free_lists' = free_lists /\ total_used' = total_used - Bytes(h.order)
         /\ held' = held \ {h}
         /\ job' = [order |-> h.order, level |-> 0, block |-> h.addr, headed |-> TRUE]
         /\ reply' = [op |-> "free", size |-> 0, addr |-> h.addr]
  <2>1. CASE Kfree
    <3>1. PICK h \in held : h.headed /\ Free(h.addr, mem[h.addr]) /\ held' = held \ {h}
      BY <2>1 DEF Kfree
    <3>2. mem[h.addr].used /\ mem[h.addr].order = h.order
      BY <3>1 DEF BuddyInv, Headers
    <3> QED
      BY <3>1, <3>2 DEF Free
  <2>2. CASE KfreeWithoutHeader
    <3>1. PICK h \in held : /\ ~ h.headed /\ h.size = Bytes(h.order)
                            /\ Free(h.addr, [order |-> SizeToOrder(h.size), used |-> TRUE])
                            /\ held' = held \ {h}
      BY <2>2 DEF KfreeWithoutHeader
    <3>2. SizeToOrder(h.size) = h.order
      BY <3>1, WholeSize DEF BuddyInv
    <3> QED
      BY <3>1, <3>2 DEF Free
  <2> QED
    BY <2>1, <2>2
<1>2. PICK h \in held : /\ phase = "idle" /\ phase' = "merging"
         /\ mem' = [mem EXCEPT ![h.addr].used = FALSE, ![h.addr].order = h.order]
         /\ free_lists' = free_lists /\ total_used' = total_used - Bytes(h.order)
         /\ held' = held \ {h}
         /\ job' = [order |-> h.order, level |-> 0, block |-> h.addr, headed |-> TRUE]
         /\ reply' = [op |-> "free", size |-> 0, addr |-> h.addr]
  BY <1>1
<1>3. reply'.op = "free"
  BY <1>2
<1> QED
  BY <1>2, <1>3, FreeStep

(* Freeing again what was freed finds a header that says so. *)
LEMMA KfreeAgainStep ==
  ASSUME BuddyInv, KfreeAgain
  PROVE  /\ BuddyInv' /\ UNCHANGED <<FreeBlocks, HeldBlocks>>
         /\ UNCHANGED <<mem, free_lists, total_used, phase, job, held>>
         /\ reply'.op = "free"
<1> USE DEF BuddyInv
<1>1. /\ reply.op = "free" /\ Free(reply.addr, mem[reply.addr]) /\ held' = held
      /\ ~ mem[reply.addr].used
  BY DEF KfreeAgain, Freed
<1>2. UNCHANGED <<mem, free_lists, total_used, phase, job, held>>
  BY <1>1 DEF Free
<1>3. reply' = [op |-> "free", size |-> 0, addr |-> reply.addr]
  BY <1>1 DEF Free
<1>4. /\ reply'.op = "free" /\ reply'.addr = reply.addr
      /\ reply' \in Reply
  BY <1>3 DEF TypeInv, Reply
<1>5. HeldBlocks' = HeldBlocks /\ FreeBlocks' = FreeBlocks /\ \A k : Chain(k)' = Chain(k)
  BY <1>2 DEF HeldBlocks, FreeBlocks, Chain
<1>6. Tiling' /\ BP!All' = BP!All
  BY <1>5, TilingStep DEF BP!vars, BP!All
<1>7. TypeInv' /\ Lists'
  BY <1>2, <1>4, <1>5 DEF TypeInv, Lists
<1>8. phase = "idle" /\ phase' = "idle"
  BY <1>1, <1>2 DEF Free
<1>9. JobInv' /\ Headers'
  BY <1>2, <1>6, <1>8 DEF JobInv, Headers
<1>10. Freed'
  <2>1. \A b : BP!Covers(b)' = BP!Covers(b)
    BY DEF BP!Covers
  <2> QED
    BY <1>1, <1>2, <1>4, <1>5 DEF Freed
<1> QED
  BY <1>2, <1>4, <1>5, <1>6, <1>7, <1>9, <1>10

(* The end of a merge puts the block into a list, which frees no other.     *)
LEMMA AddIntoListStep ==
  ASSUME BuddyInv, AddIntoList
  PROVE  /\ BuddyInv' /\ UNCHANGED <<FreeBlocks, HeldBlocks>>
         /\ LET x == job.block
                o == job.order
            IN /\ o \in Order /\ x \in Unit
               /\ \A j \in Order : Chain(j)' = IF j = o THEN Chain(o) \cup {x} ELSE Chain(j)
<1> USE DEF BuddyInv
<1> DEFINE x == job.block
           o == job.order
           head == free_lists[o]
<1>1. /\ phase = "merging" /\ phase' = "idle" /\ job' = NoJob /\ reply' = reply
      /\ total_used' = total_used /\ held' = held /\ HeldBlocks' = HeldBlocks
  BY DEF AddIntoList, HeldBlocks
<1>2. /\ o \in Order /\ x \in Unit /\ x \in Pointer /\ ~ mem[x].used /\ reply.op = "free"
      /\ \A k \in Order : x \notin Chain(k)
  BY <1>1, Types DEF JobInv
<1>3. /\ mem' \in [Pointer -> Node]
      /\ \A a \in Pointer :
           /\ mem'[a].next = IF a = x THEN head ELSE mem[a].next
           /\ mem'[a].prev = IF a = head THEN x ELSE IF a = x THEN Null ELSE mem[a].prev
           /\ mem'[a].order = IF a = x THEN o ELSE mem[a].order
           /\ mem'[a].used = mem[a].used
  BY <1>2, AddIntoListMemory
<1>4. /\ free_lists' \in [Order -> Pointer]
      /\ \A j \in Order : free_lists'[j] = IF j = o THEN x ELSE free_lists[j]
  <2>1. free_lists' = [free_lists EXCEPT ![o] = x]
    BY DEF AddIntoList
  <2>2. free_lists \in [Order -> Pointer]
    BY DEF TypeInv
  <2> HIDE DEF o, x
  <2> QED
    BY <1>2, <2>1, <2>2
<1>5. \A j \in Order : \A a \in Chain(j) : /\ a \in Pointer /\ a \in Unit /\ a # Null
                                           /\ mem[a].order = j /\ ~ mem[a].used
  BY Chains, Types
<1>6. head # Null => head \in Chain(o)
  BY <1>2, Chains
<1>7. \A h \in held : h.addr # x /\ h.addr \in Pointer
  <2>1. ASSUME NEW h \in held, h.addr = x PROVE FALSE
    <3>1. BP!BlockAt(h.addr, h.order) = BP!BlockAt(job.block, job.order)
      BY <1>1, <2>1, HeldBlock, JobBlock, Starts
    <3> QED
      BY <1>1, <3>1, HeldBlock, JobBlock, FreeNotHeld
  <2> QED
    BY <2>1, Types
<1> HIDE DEF x, o, head
<1>8. ASSUME NEW j \in Order, j = o
      PROVE  Chain(j)' = Chain(j) \cup {x} /\ Linked(free_lists'[j], mem')
  <2>1. x # head
    BY <1>2, <1>6, UnitRange
  <2>2. free_lists'[j] = x /\ free_lists[j] = head /\ mem'[x].next = head /\ mem'[x].prev = Null
    BY <1>2, <1>3, <1>4, <1>8, <2>1 DEF head
  <2>3. /\ \A a \in Chain(j) : mem'[a].next = mem[a].next
        /\ \A a \in Chain(j) : mem'[a].prev = IF a = free_lists[j] THEN x ELSE mem[a].prev
    BY <1>2, <1>3, <1>5, <2>2
  <2> QED
    BY <1>2, <2>2, <2>3, ChainPushed
<1>9. ASSUME NEW j \in Order, j # o
      PROVE  Chain(j)' = Chain(j) /\ Linked(free_lists'[j], mem')
  <2>1. head \notin Chain(j) /\ x \notin Chain(j)
    BY <1>2, <1>5, <1>6, <1>9
  <2>2. \A a \in Chain(j) : mem'[a].next = mem[a].next /\ mem'[a].prev = mem[a].prev
    BY <1>3, <1>5, <2>1
  <2>3. free_lists'[j] = free_lists[j]
    BY <1>4, <1>9
  <2> QED
    BY <2>2, <2>3, ChainKept
<1>10. \A j \in Order : Chain(j)' = IF j = o THEN Chain(o) \cup {x} ELSE Chain(j)
  BY <1>8, <1>9
<1>11. Lists'
  <2>1. ASSUME NEW j \in Order, NEW a \in Chain(j)'
        PROVE  mem'[a].order = j /\ ~ mem'[a].used
    <3>1. CASE a = x
      <4>1. j = o
        BY <1>2, <1>10, <3>1
      <4> QED
        BY <1>2, <1>3, <3>1, <4>1
    <3>2. CASE a # x
      <4>1. a \in Chain(j)
        BY <1>10, <3>2
      <4> QED
        BY <1>3, <1>5, <3>2, <4>1
    <3> QED
      BY <3>1, <3>2
  <2> QED
    BY <1>8, <1>9, <2>1 DEF Lists
<1>12. FreeBlocks' = FreeBlocks
  <2>1. \A b \in FreeBlocks : b = BP!BlockAt(b.addr, b.order)
    BY FreeBlock
  <2>2. ASSUME NEW a, NEW j
        PROVE  BP!BlockAt(a, j) \in FreeBlocks
                 <=> \/ j \in Order /\ a \in Chain(j)'
                     \/ phase' = "merging" /\ a = job'.block /\ j = job'.order
    <3>1. BP!BlockAt(a, j) \in FreeBlocks <=> \/ j \in Order /\ a \in Chain(j)
                                              \/ a = x /\ j = o
      BY <1>1, FreeBlock DEF x, o
    <3>2. phase' # "merging"
      BY <1>1
    <3> QED
      BY <1>2, <1>10, <3>1, <3>2
  <2> QED
    BY <2>1, <2>2, FreeBlocksAre
<1>13. Tiling' /\ BP!All' = BP!All
  BY <1>1, <1>12, TilingStep DEF BP!vars, BP!All
<1>14. TypeInv'
  <2>1. job' \in [order : Order, level : Order, block : Pointer, headed : BOOLEAN]
    BY <1>1, Types, OrderSizes DEF NoJob, Order
  <2> QED
    BY <1>1, <1>3, <1>4, <2>1 DEF TypeInv
<1>15. JobInv'
  BY <1>1, <1>13 DEF JobInv
<1>16. Headers'
  <2>1. \A h \in held : mem'[h.addr].used = mem[h.addr].used /\ mem'[h.addr].order = mem[h.addr].order
    BY <1>3, <1>7
  <2> QED
    BY <1>1, <2>1 DEF Headers
<1>17. Freed'
  <2>1. reply.addr \in Unit /\ ~ mem[reply.addr].used /\ \A b \in HeldBlocks : reply.addr \notin BP!Covers(b)
    BY <1>2 DEF Freed
  <2>2. reply.addr \in Pointer
    BY <2>1, Types
  <2>3. ~ mem'[reply.addr].used
    BY <1>3, <2>1, <2>2
  <2> QED
    BY <1>1, <2>1, <2>3 DEF Freed
<1> QED
  BY <1>1, <1>2, <1>10, <1>11, <1>12, <1>13, <1>14, <1>15, <1>16, <1>17 DEF x, o

(* In merge_blocks the header at the buddy's address says whether the buddy *)
(* is free as a whole: a block that starts there is no larger, and if it is *)
(* smaller or in use its header says so.                                    *)
LEMMA BuddyHeader ==
  ASSUME BuddyInv, phase = "merging", job.order # MaxOrder
  PROVE  BuddyIsFree <=> BuddyOf(job.block, job.order) \in Chain(job.order)
<1> USE DEF BuddyInv
<1> DEFINE x == job.block
           o == job.order
           y == BuddyOf(x, o)
           b == BP!BlockAt(x, o)
<1>1. b \in FreeBlocks /\ b \in BP!All /\ b.addr = x /\ b.order = o /\ o \in Order
  BY JobBlock, Types
<1>2. BuddyIsFree <=> ~ mem[y].used /\ mem[y].order = o
  BY DEF BuddyIsFree
<1>3. \E c \in BP!All : c.addr = y /\ c.order <= o /\ c # b
  <2>1. /\ BuddyOf(b.addr, b.order) \in Unit
        /\ \E c \in BP!All : c.addr = BuddyOf(b.addr, b.order) /\ c.order <= b.order /\ c # b
    <3> HIDE DEF b
    <3> QED
      BY <1>1, BlockAtBuddy
  <2> QED
    BY <1>1, <2>1
<1>4. PICK c \in BP!All : c.addr = y /\ c.order <= o /\ c # b
  BY <1>3
<1> HIDE DEF x, o, y
<1>5. ASSUME ~ mem[y].used, mem[y].order = o PROVE y \in Chain(o)
  <2>1. CASE c \in HeldBlocks
    <3>1. PICK h \in held : c.addr = h.addr
      BY <2>1 DEF HeldBlocks
    <3>2. mem[y].order = Other
      BY <1>4, <1>5, <3>1 DEF Headers
    <3> QED
      BY <1>1, <1>5, <3>2, UnitRange DEF Other, Order
  <2>2. CASE c \in FreeBlocks
    <3>1. c = BP!BlockAt(y, c.order)
      BY <1>4, <2>2, FreeBlock
    <3>2. BP!BlockAt(y, c.order) \in FreeBlocks
      BY <2>2, <3>1
    <3>3. ~ (y = x /\ c.order = o)
      BY <1>4, <3>1 DEF b
    <3>4. c.order \in Order /\ y \in Chain(c.order)
      BY <3>2, <3>3, FreeBlock DEF x, o
    <3>5. mem[y].order = c.order
      BY <3>4, Chains
    <3> QED
      BY <1>5, <3>4, <3>5
  <2> QED
    BY <2>1, <2>2 DEF BP!All
<1>6. ASSUME y \in Chain(o) PROVE ~ mem[y].used /\ mem[y].order = o
  BY <1>1, <1>6, Chains
<1> QED
  BY <1>2, <1>5, <1>6 DEF x, o, y

(* A merge replaces the block and its free buddy by the block of which they *)
(* are the halves.                                                          *)
LEMMA JoinBuddyStep ==
  ASSUME BuddyInv, JoinBuddy
  PROVE  /\ BuddyInv'
         /\ LET o == job.order
                y == BuddyOf(job.block, o)
                p == Min({job.block, y})
            IN /\ o \in Order \ {MaxOrder} /\ y \in Chain(o)
               /\ phase' = "merging" /\ job'.order = o + 1 /\ job'.block = p
               /\ BP!BlockAt(p, o + 1) \in BP!Block /\ BP!Merge(BP!BlockAt(p, o + 1))
               /\ \A j \in Order : Chain(j)' = IF j = o THEN Chain(o) \ {y} ELSE Chain(j)
<1> USE DEF BuddyInv
<1> DEFINE x == job.block
           o == job.order
           y == BuddyOf(x, o)
           q == mem[y].prev
           n == mem[y].next
           p == Min({x, y})
           b == BP!BlockAt(x, o)
           c == BP!BlockAt(y, o)
           d == BP!BlockAt(p, o + 1)
<1>1. /\ phase = "merging" /\ phase' = "merging" /\ reply' = reply
      /\ total_used' = total_used /\ held' = held /\ HeldBlocks' = HeldBlocks
      /\ BuddyIsFree /\ o # MaxOrder
  BY DEF JoinBuddy, HeldBlocks, BuddyIsFree
<1>2. /\ o \in Order \ {MaxOrder} /\ x \in Unit /\ x \in Pointer /\ ~ mem[x].used /\ reply.op = "free"
      /\ \A k \in Order : x \notin Chain(k)
  BY <1>1, Types DEF JobInv
<1>3. y \in Chain(o)
  BY <1>1, BuddyHeader
<1>4. /\ b \in FreeBlocks /\ b \in BP!All /\ b.addr = x /\ b.order = o
      /\ c \in FreeBlocks /\ c \in BP!All /\ c.addr = y /\ c.order = o
  BY <1>1, <1>2, <1>3, JobBlock, ListBlock
<1>5. x % Size[o] = 0
  <2> HIDE DEF b
  <2>1. b.addr % Size[b.order] = 0
    BY <1>4, BlockFacts
  <2> QED
    BY <1>4, <2>1
<1>6. /\ y \in Unit /\ y # x /\ p \in Unit /\ p % Size[o + 1] = 0 /\ {x, y} = {p, p + Size[o]}
  <2> HIDE DEF x, o
  <2> QED
    BY <1>2, <1>5, Buddies
<1>7. o + 1 \in Order /\ o + 1 # o /\ o + 1 > 0 /\ (o + 1) - 1 = o
  <2>1. o \in Order \ {MaxOrder}
    BY <1>2
  <2> HIDE DEF o
  <2> QED
    BY <2>1, OrderSizes DEF Order
<1>8. /\ mem' \in [Pointer -> Node]
      /\ \A a \in Pointer :
           /\ mem'[a].next = IF a = q /\ q # Null THEN n ELSE mem[a].next
           /\ mem'[a].prev = IF a = n /\ n # Null THEN q ELSE mem[a].prev
           /\ mem'[a].order = mem[a].order
           /\ mem'[a].used = mem[a].used
  BY <1>6, JoinBuddyMemory
<1>9. /\ free_lists' \in [Order -> Pointer]
      /\ \A j \in Order : free_lists'[j] = IF j = o /\ q = Null THEN n ELSE free_lists[j]
  <2>1. free_lists' = [free_lists EXCEPT ![o] = IF q = Null THEN n ELSE @]
    BY DEF JoinBuddy
  <2>2. free_lists \in [Order -> Pointer] /\ n \in Pointer
    BY <1>6, Types DEF TypeInv
  <2> HIDE DEF o, q, n
  <2> QED
    BY <1>2, <2>1, <2>2
<1>10. /\ job' \in [order : Order, level : Order, block : Pointer, headed : BOOLEAN]
       /\ job'.block = p /\ job'.order = o + 1
  <2>1. job' = [job EXCEPT !.block = p, !.order = o + 1]
    BY DEF JoinBuddy
  <2>2. p \in Pointer /\ o + 1 \in Order
    BY <1>6, <1>7, Types
  <2> HIDE DEF p, o
  <2> QED
    BY <2>1, <2>2 DEF TypeInv
<1>11. \A j \in Order : \A a \in Chain(j) : /\ a \in Pointer /\ a \in Unit /\ a # Null
                                            /\ mem[a].order = j /\ ~ mem[a].used
  BY Chains, Types
<1>12. /\ n # Null => n \in Chain(o)
       /\ q # Null => q \in Chain(o)
  <2>1. n # Null => n \in Chain(o)
    BY <1>2, <1>3, Chains
  <2>2. q # Null => q \in Chain(o)
    <3> HIDE DEF x, o, y
    <3> QED
      BY <1>2, <1>3, Previous
  <2> QED
    BY <2>1, <2>2
<1> HIDE DEF b, c, d, x, o, y, q, n, p
<1>13. ASSUME NEW j \in Order, j = o
       PROVE  Chain(j)' = Chain(j) \ {y} /\ Linked(free_lists'[j], mem')
  <2>1. \A a \in Chain(j) \ {y} : /\ mem'[a].next = IF a = q THEN n ELSE mem[a].next
                                  /\ mem'[a].prev = IF a = n THEN q ELSE mem[a].prev
    BY <1>8, <1>11
  <2>2. free_lists'[j] = IF q = Null THEN n ELSE free_lists[j]
    BY <1>9, <1>13
  <2>3. y \in Chain(j) /\ Unlinked(free_lists[j], mem, y, free_lists'[j], mem')
    <3>1. Nodes(free_lists[j], mem) = Chain(j)
      BY Chains
    <3> QED
      BY <1>3, <1>13, <2>1, <2>2, <3>1 DEF Unlinked, q, n
  <2> QED
    BY <2>3, ChainRemoved
<1>14. ASSUME NEW j \in Order, j # o
       PROVE  Chain(j)' = Chain(j) /\ Linked(free_lists'[j], mem')
  <2>1. (n # Null => n \notin Chain(j)) /\ (q # Null => q \notin Chain(j))
    BY <1>2, <1>11, <1>12, <1>14
  <2>2. \A a \in Chain(j) : mem'[a].next = mem[a].next /\ mem'[a].prev = mem[a].prev
    BY <1>8, <1>11, <2>1
  <2>3. free_lists'[j] = free_lists[j]
    BY <1>9, <1>14
  <2> QED
    BY <2>2, <2>3, ChainKept
<1>15. \A j \in Order : Chain(j)' = IF j = o THEN Chain(o) \ {y} ELSE Chain(j)
  BY <1>13, <1>14
<1>16. Lists'
  <2>1. ASSUME NEW j \in Order, NEW a \in Chain(j)'
        PROVE  mem'[a].order = j /\ ~ mem'[a].used
    <3>1. a \in Chain(j)
      BY <1>15
    <3> QED
      BY <1>8, <1>11, <3>1
  <2> QED
    BY <1>13, <1>14, <2>1 DEF Lists
<1>17. {BP!Lower(d), BP!Upper(d)} = {b, c} /\ d.order = o + 1 /\ d.addr = p
  <2>1. d.order = o + 1 /\ d.addr = p
    BY DEF d, BP!BlockAt
  <2>2. BP!Lower(d) = BP!BlockAt(p, o) /\ BP!Upper(d) = BP!BlockAt(p + Size[o], o)
    BY <1>7, <2>1 DEF BP!Lower, BP!Upper
  <2>3. (x = p /\ y = p + Size[o]) \/ (y = p /\ x = p + Size[o])
    BY <1>6
  <2> QED
    BY <2>1, <2>2, <2>3 DEF b, c
<1>18. FreeBlocks' = (FreeBlocks \ {BP!Lower(d), BP!Upper(d)}) \cup {d}
  <2> DEFINE S == (FreeBlocks \ {b, c}) \cup {d}
  <2>1. \A e \in S : e = BP!BlockAt(e.addr, e.order)
    BY <1>17, FreeBlock DEF d
  <2>2. ASSUME NEW a, NEW j
        PROVE  BP!BlockAt(a, j) \in S
                 <=> \/ j \in Order /\ a \in Chain(j)'
                     \/ phase' = "merging" /\ a = job'.block /\ j = job'.order
    <3>1. /\ BP!BlockAt(a, j) = b <=> a = x /\ j = o
          /\ BP!BlockAt(a, j) = c <=> a = y /\ j = o
          /\ BP!BlockAt(a, j) = d <=> a = p /\ j = o + 1
      BY BlockAtEq DEF b, c, d
    <3>2. BP!BlockAt(a, j) \in FreeBlocks <=> \/ j \in Order /\ a \in Chain(j)
                                              \/ a = x /\ j = o
      BY <1>1, FreeBlock DEF x, o
    <3> QED
      BY <1>1, <1>2, <1>3, <1>10, <1>15, <3>1, <3>2
  <2> HIDE DEF S
  <2>3. FreeBlocks' = S
    BY <2>1, <2>2, FreeBlocksAre
  <2> QED
    BY <1>17, <2>3 DEF S
<1>19. d \in BP!Block
  BY <1>6, <1>7, SameUnit DEF d, BP!BlockAt, BP!Block, Order
<1>20. BP!Merge(d)
  BY <1>1, <1>4, <1>6, <1>7, <1>17, <1>18 DEF BP!Merge
<1>21. Tiling' /\ BP!All' # {}
  <2>1. Tiling'
    BY <1>19, <1>20, TilingStep DEF BP!Next
  <2> QED
    BY <1>18, <2>1 DEF BP!All
<1>22. TypeInv'
  BY <1>1, <1>8, <1>9, <1>10 DEF TypeInv
<1>23. JobInv'
  <2>1. p \in {x, y}
    BY <1>6
  <2>2. \A j \in Order : y \notin Chain(j)'
    BY <1>3, <1>2, <1>11, <1>15
  <2>3. \A j \in Order : p \notin Chain(j)'
    BY <1>2, <1>15, <2>1, <2>2
  <2>4. ~ mem[y].used /\ y \in Pointer
    BY <1>2, <1>3, <1>11
  <2>5. ~ mem'[p].used
    BY <1>2, <1>8, <2>1, <2>4
  <2> QED
    BY <1>1, <1>2, <1>6, <1>10, <1>21, <2>3, <2>5 DEF JobInv
<1>24. Headers'
  <2>1. \A h \in held : mem'[h.addr].used = mem[h.addr].used /\ mem'[h.addr].order = mem[h.addr].order
    BY <1>8, Types
  <2> QED
    BY <1>1, <2>1 DEF Headers
<1>25. Freed'
  <2>1. reply.addr \in Unit /\ ~ mem[reply.addr].used /\ \A e \in HeldBlocks : reply.addr \notin BP!Covers(e)
    BY <1>2 DEF Freed
  <2>2. reply.addr \in Pointer
    BY <2>1, Types
  <2>3. ~ mem'[reply.addr].used
    BY <1>8, <2>1, <2>2
  <2> QED
    BY <1>1, <2>1, <2>3 DEF Freed
<1> QED
  BY <1>1, <1>2, <1>3, <1>10, <1>15, <1>16, <1>19, <1>20, <1>21, <1>22, <1>23, <1>24, <1>25
     DEF d, x, o, y, p

(* What a client writes over is no node and no other block's header. *)
LEMMA ClientWritesStep ==
  ASSUME BuddyInv, ClientWrites
  PROVE  /\ BuddyInv' /\ UNCHANGED <<FreeBlocks, HeldBlocks>>
         /\ phase = "idle" /\ UNCHANGED <<free_lists, total_used, phase, job, held, reply>>
         /\ \A j \in Order : Chain(j)' = Chain(j)
<1> USE DEF BuddyInv
<1>1. PICK h \in held, data \in ClientData :
        /\ phase = "idle"
        /\ mem' = [a \in Pointer |->
             IF a \in h.addr + 1 .. h.addr + Size[h.order] - 1 THEN Written(data)
             ELSE IF a # h.addr THEN mem[a]
             ELSE IF h.headed THEN [mem[a] EXCEPT !.prev = Null, !.next = Null]
             ELSE Written([data EXCEPT !.order = Other])]
        /\ UNCHANGED <<free_lists, total_used, phase, job, held, reply>>
  BY DEF ClientWrites
<1> DEFINE b == BP!BlockAt(h.addr, h.order)
           w == [data EXCEPT !.order = Other]
           own == IF h.headed THEN [mem[h.addr] EXCEPT !.prev = Null, !.next = Null] ELSE Written(w)
<1>2. b \in HeldBlocks /\ b \in BP!All /\ b.addr = h.addr /\ b.order = h.order
  BY HeldBlock
<1>3. h.addr \in Unit /\ h.addr \in Nat /\ h.addr \in Pointer /\ Size[h.order] \in Nat \ {0}
        /\ Null \in Pointer
  BY Types, OrderSizes, UnitRange
<1>4. \A a \in Pointer : a \in BP!Covers(b) <=> a = h.addr \/ a \in h.addr + 1 .. h.addr + Size[h.order] - 1
  <2>1. BP!Covers(b) = h.addr .. h.addr + Size[h.order] - 1
    BY <1>2 DEF BP!Covers
  <2> QED
    BY <1>3, <2>1
<1>5. Written(data) \in Node /\ own \in Node
        /\ own.used = (IF h.headed THEN mem[h.addr].used ELSE data.used)
        /\ own.order = (IF h.headed THEN mem[h.addr].order ELSE Other)
  <2>1. data \in [order : 0 .. Other, used : BOOLEAN]
    BY BuddyAssumption DEF Other
  <2>2. w.order = Other /\ w.used = data.used /\ Other \in 0 .. Other
    BY <2>1, UnitRange DEF Other
  <2>3. /\ Written(data) \in Node /\ Written(w) \in Node
        /\ Written(w).used = data.used /\ Written(w).order = Other
    <3> HIDE DEF w
    <3> QED
      BY <1>3, <2>1, <2>2 DEF Written, Node
  <2> DEFINE r == mem[h.addr]
             e == [r EXCEPT !.prev = Null, !.next = Null]
  <2>4. r \in Node
    BY <1>3, Types
  <2>5. e \in Node /\ e.used = r.used /\ e.order = r.order
    <3> HIDE DEF r
    <3> QED
      BY <1>3, <2>4 DEF Node
  <2>6. own = IF h.headed THEN e ELSE Written(w)
    OBVIOUS
  <2> HIDE DEF w, e, own
  <2> QED
    BY <2>3, <2>5, <2>6
<1>6. \A a \in Pointer : mem'[a] = IF a = h.addr THEN own
                                   ELSE IF a \in BP!Covers(b) THEN Written(data) ELSE mem[a]
  <2>1. h.addr \notin h.addr + 1 .. h.addr + Size[h.order] - 1
    BY <1>3
  <2>2. mem'[h.addr] = own
    BY <1>1, <1>3, <2>1
  <2> HIDE DEF own, w
  <2>3. ASSUME NEW a \in Pointer, a # h.addr
        PROVE  mem'[a] = IF a \in h.addr + 1 .. h.addr + Size[h.order] - 1 THEN Written(data) ELSE mem[a]
    BY <1>1, <2>3
  <2> HIDE DEF b
  <2> QED
    BY <1>4, <2>2, <2>3
<1>7. mem' \in [Pointer -> Node]
  <2>1. \A a \in Pointer : mem'[a] \in Node
    BY <1>5, <1>6, Types
  <2>2. DOMAIN mem' = Pointer /\ mem' = [a \in DOMAIN mem' |-> mem'[a]]
    BY <1>1
  <2> HIDE DEF own, b, w
  <2> QED
    BY <2>1, <2>2
<1> HIDE DEF b, w, own
<1>8. HeldBlocks' = HeldBlocks
  BY <1>1 DEF HeldBlocks
<1>9. \A j \in Order : \A a \in Chain(j) : /\ a \in Pointer /\ a \notin BP!Covers(b) /\ a # h.addr
                                           /\ mem[a].order = j /\ ~ mem[a].used
  <2> SUFFICES ASSUME NEW j \in Order, NEW a \in Chain(j)
               PROVE  /\ a \in Pointer /\ a \notin BP!Covers(b) /\ a # h.addr
                      /\ mem[a].order = j /\ ~ mem[a].used
    OBVIOUS
  <2> DEFINE c == BP!BlockAt(a, j)
  <2>1. c \in FreeBlocks /\ c \in BP!All /\ c.addr = a
    BY ListBlock
  <2>2. a \in BP!Covers(c)
    BY <2>1, BlockFacts
  <2>3. a \notin BP!Covers(b)
    BY <1>2, <2>1, <2>2, Apart, FreeNotHeld
  <2> QED
    BY <2>3, Chains, Types, NodesApart
<1>10. \A j \in Order : Chain(j)' = Chain(j) /\ Linked(free_lists'[j], mem')
  <2> SUFFICES ASSUME NEW j \in Order PROVE Chain(j)' = Chain(j) /\ Linked(free_lists'[j], mem')
    OBVIOUS
  <2>1. \A a \in Chain(j) : mem'[a].next = mem[a].next /\ mem'[a].prev = mem[a].prev
    BY <1>6, <1>9
  <2>2. free_lists'[j] = free_lists[j]
    BY <1>1
  <2> QED
    BY <2>1, <2>2, ChainKept
<1>11. FreeBlocks' = FreeBlocks
  <2>1. \A c \in FreeBlocks : c = BP!BlockAt(c.addr, c.order)
    BY FreeBlock
  <2>2. \A a, j : BP!BlockAt(a, j) \in FreeBlocks
                    <=> \/ j \in Order /\ a \in Chain(j)'
                        \/ phase' = "merging" /\ a = job'.block /\ j = job'.order
    BY <1>1, <1>10, FreeBlock
  <2> QED
    BY <2>1, <2>2, FreeBlocksAre
<1>12. Tiling' /\ BP!All' = BP!All
  BY <1>8, <1>11, TilingStep DEF BP!vars, BP!All
<1>13. TypeInv'
  BY <1>1, <1>7 DEF TypeInv
<1>14. Lists'
  <2>1. ASSUME NEW j \in Order, NEW a \in Chain(j)'
        PROVE  mem'[a].order = j /\ ~ mem'[a].used
    <3>1. a \in Chain(j)
      BY <1>10
    <3>2. mem'[a] = mem[a]
      BY <1>6, <1>9, <3>1
    <3> QED
      BY <1>9, <3>1, <3>2
  <2> QED
    BY <1>10, <2>1 DEF Lists
<1>15. JobInv'
  BY <1>1, <1>12 DEF JobInv
<1>16. Headers'
  <2>1. ASSUME NEW c \in held
        PROVE  /\ mem'[c.addr].used \/ mem'[c.addr].order = Other
               /\ c.headed => mem'[c.addr].used /\ mem'[c.addr].order = c.order
    <3>1. c.addr \in Pointer /\ c.headed \in BOOLEAN
      BY Types
    <3>2. CASE c = h
      <4>1. mem'[c.addr] = own
        BY <1>6, <3>1, <3>2
      <4>2. h.headed => mem[h.addr].used /\ mem[h.addr].order = h.order
        BY DEF Headers
      <4>3. CASE h.headed
        BY <1>5, <3>2, <4>1, <4>2, <4>3
      <4>4. CASE ~ h.headed
        <5>1. mem'[c.addr].order = Other
          BY <1>5, <4>1, <4>4
        <5> QED
          BY <3>2, <4>4, <5>1
      <4> QED
        BY <4>3, <4>4
    <3>3. CASE c # h
      <4> DEFINE d == BP!BlockAt(c.addr, c.order)
      <4>1. d \in BP!All /\ d.addr = c.addr
        BY HeldBlock
      <4>2. c.addr # h.addr
        BY <3>3 DEF Headers
      <4>3. c.addr \in BP!Covers(d) /\ d # b
        BY <1>2, <4>1, <4>2, BlockFacts
      <4>4. c.addr \notin BP!Covers(b)
        BY <1>2, <4>1, <4>3, Apart
      <4>5. mem'[c.addr] = mem[c.addr]
        BY <1>6, <3>1, <4>2, <4>4
      <4> QED
        BY <4>5 DEF Headers
    <3> QED
      BY <3>2, <3>3
  <2>2. held' = held
    BY <1>1
  <2> QED
    BY <2>1, <2>2 DEF Headers
<1>17. Freed'
  <2> SUFFICES ASSUME reply.op = "free"
               PROVE  /\ reply.addr \in Unit /\ ~ mem'[reply.addr].used
                      /\ \A c \in HeldBlocks : reply.addr \notin BP!Covers(c)
    BY <1>1, <1>8 DEF Freed
  <2>1. /\ reply.addr \in Unit /\ ~ mem[reply.addr].used
        /\ \A c \in HeldBlocks : reply.addr \notin BP!Covers(c)
    BY DEF Freed
  <2>2. reply.addr \notin BP!Covers(b) /\ reply.addr \in Pointer
    BY <1>2, <2>1, Types
  <2>3. mem'[reply.addr] = mem[reply.addr]
    BY <1>3, <1>4, <1>6, <2>2
  <2> QED
    BY <2>1, <2>3
<1> QED
  BY <1>1, <1>8, <1>10, <1>11, <1>12, <1>13, <1>14, <1>15, <1>16, <1>17

-----------------------------------------------------------------------------
(* Every step keeps the invariant and is a step of the blocks or none. *)
LEMMA BuddyInvStep ==
  ASSUME BuddyInv, [Next]_vars
  PROVE  BuddyInv' /\ [BP!Next]_(BP!vars)
<1>1. CASE BuddyInit
  BY <1>1, BuddyInitStep DEF BP!Next
<1>2. CASE Kmalloc \/ KmallocWithoutHeader
  <2>1. PICK size \in Nat, headed \in BOOLEAN : Alloc(size, headed)
    BY <1>2, AllocCall
  <2> QED
    BY <2>1, AllocStep DEF BP!vars
<1>3. CASE SplitBlock
  BY <1>3, SplitStep DEF BP!Next
<1>4. CASE HandOut
  BY <1>4, HandOutStep DEF BP!Next
<1>5. CASE Kfree \/ KfreeWithoutHeader
  BY <1>5, KfreeStep DEF BP!Next
<1>6. CASE KfreeAgain
  BY <1>6, KfreeAgainStep DEF BP!vars
<1>7. CASE AddIntoList
  BY <1>7, AddIntoListStep DEF BP!vars
<1>8. CASE JoinBuddy
  BY <1>8, JoinBuddyStep DEF BP!Next
<1>9. CASE ClientWrites
  BY <1>9, ClientWritesStep DEF BP!vars
<1>10. CASE Misfree
  BY <1>10, MisfreeStep DEF BP!vars
<1>11. CASE UNCHANGED vars
  <2>1. UNCHANGED <<mem, free_lists, total_used, phase, job, held, reply>>
    BY <1>11 DEF vars
  <2>2. HeldBlocks' = HeldBlocks /\ FreeBlocks' = FreeBlocks /\ \A k : Chain(k)' = Chain(k)
    BY <2>1 DEF HeldBlocks, FreeBlocks, Chain
  <2>3. Tiling' /\ BP!All' = BP!All
    BY <2>2, TilingStep DEF BP!vars, BP!All, BuddyInv
  <2>4. TypeInv' /\ Lists' /\ JobInv' /\ Headers'
    BY <2>1, <2>2, <2>3 DEF BuddyInv, TypeInv, Lists, JobInv, Headers
  <2>5. Freed'
    <3>1. \A b : BP!Covers(b)' = BP!Covers(b)
      BY DEF BP!Covers
    <3> QED
      BY <2>1, <2>2, <3>1 DEF BuddyInv, Freed
  <2> QED
    BY <2>2, <2>3, <2>4, <2>5 DEF BuddyInv, BP!vars
<1> QED
  BY <1>1, <1>2, <1>3, <1>4, <1>5, <1>6, <1>7, <1>8, <1>9, <1>10, <1>11 DEF Next, NotFollowed

(* What lists and headers are at every moment. *)
THEOREM Invariance == Spec => []BuddyInv
<1>1. BuddyInv /\ [Next]_vars => BuddyInv'
  BY BuddyInvStep
<1> QED
  BY InitInv, <1>1, PTL DEF Spec

(* The lists of buddyAllocator.c are doubly linked at every moment, and the *)
(* header of each node tells its list, whatever clients write.              *)
THEOREM Linkage == Spec => []ListsLinked
<1>1. BuddyInv => ListsLinked
  <2> SUFFICES ASSUME BuddyInv, NEW k \in Order
               PROVE  /\ free_lists[k] # Null => mem[free_lists[k]].prev = Null
                      /\ \A a \in Chain(k) : /\ mem[a].order = k /\ ~ mem[a].used
                                             /\ mem[a].next # Null => mem[mem[a].next].prev = a
    BY DEF ListsLinked
  <2> QED
    BY Chains DEF BuddyInv
<1> QED
  BY Invariance, <1>1, PTL

(* kfree of what was just freed changes nothing, because the header of the  *)
(* freed block keeps saying so.                                             *)
THEOREM DoubleFree == Spec => DoubleFreeIgnored
<1>1. BuddyInv /\ [Next]_vars => [KfreeAgain => UNCHANGED <<mem, free_lists, total_used, phase>>]_vars
  BY KfreeAgainStep
<1> QED
  BY Invariance, <1>1, PTL DEF Spec, DoubleFreeIgnored

(* The blocks of BuddyProofs are those that Buddy maps its state to.        *)
LEMMA SameBlocks ==
  /\ BP!Init => Abstract!Init
  /\ [BP!Next]_(BP!vars) => [Abstract!Next]_(Abstract!vars)
<1>1. BP!Init => Abstract!Init
  BY DEF BP!Init, Abstract!Init, HeldBlocks
<1>2. BP!vars = Abstract!vars /\ BP!vars' = Abstract!vars'
  BY DEF BP!vars, Abstract!vars, HeldBlocks
<1>3. /\ BP!Block = Abstract!Block
      /\ \A a, k : BP!BlockAt(a, k) = Abstract!BlockAt(a, k)
  BY DEF BP!Block, Abstract!Block, BP!Unit, Abstract!Unit, BP!BlockAt, Abstract!BlockAt
<1>4. \A b : BP!Lower(b) = Abstract!Lower(b) /\ BP!Upper(b) = Abstract!Upper(b)
  BY <1>3 DEF BP!Lower, Abstract!Lower, BP!Upper, Abstract!Upper
<1>5. BP!Provide => Abstract!Provide
  BY <1>3 DEF BP!Provide, Abstract!Provide, HeldBlocks
<1>6. ASSUME NEW b PROVE /\ BP!Split(b) => Abstract!Split(b)
                         /\ BP!Merge(b) => Abstract!Merge(b)
                         /\ BP!Take(b) => Abstract!Take(b)
                         /\ BP!Give(b) => Abstract!Give(b)
  <2>1. BP!Split(b) => Abstract!Split(b)
    BY <1>4 DEF BP!Split, Abstract!Split, HeldBlocks
  <2>2. BP!Merge(b) => Abstract!Merge(b)
    BY <1>4 DEF BP!Merge, Abstract!Merge, HeldBlocks
  <2>3. BP!Take(b) => Abstract!Take(b)
    BY DEF BP!Take, Abstract!Take, HeldBlocks
  <2>4. BP!Give(b) => Abstract!Give(b)
    BY DEF BP!Give, Abstract!Give, HeldBlocks
  <2> QED
    BY <2>1, <2>2, <2>3, <2>4
<1>7. BP!Next => Abstract!Next
  BY <1>3, <1>5, <1>6 DEF BP!Next, Abstract!Next
<1> QED
  BY <1>1, <1>2, <1>7

(* Lists and headers implement the blocks: whatever they do is a split, a   *)
(* merge, a block handed out or given back, or nothing.                     *)
THEOREM Refinement == Spec => ImplementsBlocks
<1>1. Init => Abstract!Init
  <2> SUFFICES ASSUME Init PROVE Abstract!Init
    OBVIOUS
  <2>1. FreeBlocks = {} /\ HeldBlocks = {}
    <3>1. \A k \in Order : Chain(k) = {}
      <4>1. \A k \in Order : free_lists[k] = Null
        BY DEF Init
      <4> QED
        BY <4>1, ChainNodes, EmptyList
    <3> QED
      BY <3>1, FreeBlock DEF Init, HeldBlocks
  <2> QED
    BY <2>1, SameBlocks DEF BP!Init
<1>2. BuddyInv /\ [Next]_vars => [Abstract!Next]_(Abstract!vars)
  BY BuddyInvStep, SameBlocks
<1> QED
  BY Invariance, <1>1, <1>2, PTL DEF Spec, ImplementsBlocks, Abstract!Spec

-----------------------------------------------------------------------------
(* The buddy of a block's lower half is its upper half, and conversely.     *)
LEMMA BuddyOfHalves ==
  ASSUME NEW k \in Order, k - 1 \in Order \ {MaxOrder}, (k - 1) + 1 = k,
         NEW a \in Unit, a % Size[k] = 0
  PROVE  BuddyOf(a, k - 1) = a + Size[k - 1] /\ BuddyOf(a + Size[k - 1], k - 1) = a
<1> DEFINE j == k - 1
<1>1. j \in Order \ {MaxOrder} /\ j + 1 = k /\ j \in Nat
  BY OrderSizes
<1> HIDE DEF j
<1>2. /\ Size[j] \in Nat \ {0} /\ Size[k] = 2 * Size[j] /\ a \in Nat
      /\ Size[k] \in Nat \ {0} /\ j \in Order
  BY <1>1, OrderSizes, UnitRange
<1>3. BuddyOf(a, j) = a + Size[j]
  BY <1>2 DEF BuddyOf
<1>4. a % Size[j] = 0
  <2>1. PICK q \in Nat : a = Size[k] * q
    BY <1>2, MultiplesOf
  <2>2. PICK r \in Nat \ {0} : Size[k] = Size[j] * r
    BY <1>1, <1>2, SizesDivide
  <2> DEFINE s == Size[j]
  <2>3. s \in Nat \ {0} /\ a = (s * r) * q
    BY <1>2, <2>1, <2>2
  <2> HIDE DEF s
  <2>4. a = s * (r * q) /\ r * q \in Nat
    BY <2>2, <2>3
  <2>5. \E t \in Nat : a = s * t
    BY <2>4
  <2> QED
    BY <1>2, <2>3, <2>5, MultiplesOf DEF s
<1>5. BuddyOf(BuddyOf(a, j), j) = a
  BY <1>1, <1>4, Buddies
<1>6. BuddyOf(a + Size[j], j) = a
  BY <1>3, <1>5
<1> QED
  BY <1>3, <1>6 DEF j

(* A node is where its list's blocks may be, and so is its buddy.           *)
LEMMA NodeAligned ==
  ASSUME BuddyInv, NEW k \in Order, NEW a \in Chain(k)
  PROVE  /\ a \in Unit /\ a % Size[k] = 0
         /\ k # MaxOrder => BuddyOf(BuddyOf(a, k), k) = a /\ BuddyOf(a, k) # a
<1> DEFINE b == BP!BlockAt(a, k)
<1>1. b \in BP!All /\ b.addr = a /\ b.order = k
  BY ListBlock
<1> HIDE DEF b
<1>2. b.addr \in Unit /\ b.addr % Size[b.order] = 0
  BY <1>1, BlockFacts DEF BuddyInv
<1>3. a \in Unit /\ a % Size[k] = 0
  BY <1>1, <1>2
<1> QED
  BY <1>3, Buddies

(* Outside of a split no block and its buddy are both in their list.        *)
LEMMA NoPairs ==
  Merged /\ phase # "splitting"
    => \A k \in Order \ {MaxOrder} : \A a \in Chain(k) : BuddyOf(a, k) \notin Chain(k)
BY DEF Merged

(* The lists may shrink, and no pair arises.                                *)
LEMMA FewerPairs ==
  ASSUME Merged, phase # "splitting", \A j \in Order : Chain(j)' \subseteq Chain(j)
  PROVE  Merged'
<1> SUFFICES ASSUME NEW k \in Order \ {MaxOrder}, NEW a \in Chain(k)', BuddyOf(a, k) \in Chain(k)'
             PROVE  FALSE
  BY DEF Merged
<1> QED
  BY NoPairs

(* A split breaks up the pair, if there is one, of the list it takes a block *)
(* of, and makes one pair, at the head of the list below.                   *)
LEMMA SplitMerged ==
  ASSUME BuddyInv, Merged, SplitBlock
  PROVE  Merged'
<1> DEFINE k == job.level
           block == free_lists[k]
           buddy == block + Size[k - 1]
<1>1. /\ k \in Order /\ k - 1 \in Order \ {MaxOrder} /\ k - 1 # k /\ (k - 1) + 1 = k
      /\ block \in Chain(k) /\ block \in Unit
  <2>1. /\ k \in Order /\ k > 0 /\ k - 1 \in Order \ {MaxOrder} /\ k - 1 # k
        /\ block \in Chain(k) /\ block \in Unit
    BY SplitFacts
  <2> HIDE DEF k, block
  <2> QED
    BY <2>1, OrderSizes
<1>2. /\ phase' = "splitting" /\ job'.level = k - 1 /\ free_lists'[k - 1] = block
  <2>1. phase' = "splitting" /\ job' = [job EXCEPT !.level = k - 1]
        /\ free_lists' = [free_lists EXCEPT ![k] = mem[block].next, ![k - 1] = block]
    BY DEF SplitBlock
  <2>2. free_lists \in [Order -> Pointer] /\ job \in [order : Order, level : Order, block : Pointer, headed : BOOLEAN]
    BY DEF BuddyInv, TypeInv
  <2> HIDE DEF k, block
  <2> QED
    BY <1>1, <2>1, <2>2
<1>3. \A j \in Order : Chain(j)' = IF j = k THEN Chain(k) \ {block}
                                   ELSE IF j = k - 1 THEN Chain(j) \cup {block, buddy}
                                   ELSE Chain(j)
  BY SplitStep
<1>4. BuddyOf(block, k - 1) = buddy /\ BuddyOf(buddy, k - 1) = block
  <2>1. block % Size[k] = 0
    BY <1>1, NodeAligned
  <2> HIDE DEF k, block
  <2> QED
    BY <1>1, <2>1, BuddyOfHalves
<1>5. \A j \in Order \ {MaxOrder} : \A a \in Chain(j) :
        BuddyOf(a, j) \in Chain(j) => j = k /\ block \in {a, BuddyOf(a, j)}
  BY DEF Merged
<1> HIDE DEF k, block, buddy
<1> SUFFICES ASSUME NEW j \in Order \ {MaxOrder}, NEW a \in Chain(j)', BuddyOf(a, j) \in Chain(j)'
             PROVE  phase' = "splitting" /\ j = job'.level /\ free_lists'[j] \in {a, BuddyOf(a, j)}
  BY DEF Merged
<1>6. CASE j = k
  BY <1>3, <1>5, <1>6
<1>7. CASE j = k - 1
  <2>1. Chain(j)' = Chain(j) \cup {block, buddy}
    BY <1>1, <1>3, <1>7
  <2>2. CASE a \in {block, buddy}
    BY <1>2, <1>4, <1>7, <2>2
  <2>3. CASE a \notin {block, buddy}
    <3>1. a \in Chain(j) /\ BuddyOf(BuddyOf(a, j), j) = a
      BY <2>1, <2>3, NodeAligned
    <3>2. BuddyOf(a, j) \notin {block, buddy}
      BY <1>4, <1>7, <2>3, <3>1
    <3> QED
      BY <1>1, <1>5, <1>7, <2>1, <3>1, <3>2
  <2> QED
    BY <2>2, <2>3
<1>8. CASE j # k /\ j # k - 1
  BY <1>3, <1>5, <1>8
<1> QED
  BY <1>6, <1>7, <1>8

(* Handing out one half breaks up the pair.                                 *)
LEMMA HandOutMerged ==
  ASSUME BuddyInv, Merged, HandOut
  PROVE  Merged'
<1> DEFINE o == job.order
           block == free_lists[o]
<1>1. \A j \in Order : Chain(j)' = IF j = o THEN Chain(o) \ {block} ELSE Chain(j)
  BY HandOutStep
<1>2. job.level = o
  BY DEF HandOut
<1>3. \A j \in Order \ {MaxOrder} : \A a \in Chain(j) :
        BuddyOf(a, j) \in Chain(j) => j = o /\ block \in {a, BuddyOf(a, j)}
  BY <1>2 DEF Merged
<1> HIDE DEF o, block
<1> SUFFICES ASSUME NEW j \in Order \ {MaxOrder}, NEW a \in Chain(j)', BuddyOf(a, j) \in Chain(j)'
             PROVE  FALSE
  BY DEF Merged
<1> QED
  BY <1>1, <1>3

(* A block is put into a list only when its buddy is not free, so the lists *)
(* get no pair.                                                             *)
LEMMA AddIntoListMerged ==
  ASSUME BuddyInv, Merged, AddIntoList
  PROVE  Merged'
<1> DEFINE x == job.block
           o == job.order
<1>1. /\ o \in Order /\ x \in Unit
      /\ \A j \in Order : Chain(j)' = IF j = o THEN Chain(o) \cup {x} ELSE Chain(j)
  BY AddIntoListStep
<1>2. phase = "merging" /\ ~ BuddyIsFree
  BY DEF AddIntoList
<1>3. o # MaxOrder => BuddyOf(x, o) \notin Chain(o)
  BY <1>2, BuddyHeader
<1>4. \A k \in Order \ {MaxOrder} : \A a \in Chain(k) : BuddyOf(a, k) \notin Chain(k)
  BY <1>2, NoPairs
<1>5. x % Size[o] = 0
  <2> DEFINE b == BP!BlockAt(x, o)
  <2>1. b \in BP!All /\ b.addr = x /\ b.order = o
    BY <1>2, JobBlock
  <2> HIDE DEF b
  <2>2. b.addr % Size[b.order] = 0
    BY <2>1, BlockFacts DEF BuddyInv
  <2> QED
    BY <2>1, <2>2
<1> HIDE DEF x, o
<1> SUFFICES ASSUME NEW j \in Order \ {MaxOrder}, NEW a \in Chain(j)', BuddyOf(a, j) \in Chain(j)'
             PROVE  FALSE
  BY DEF Merged
<1>6. CASE j # o
  BY <1>1, <1>4, <1>6
<1>7. CASE j = o
  <2>1. Chain(j)' = Chain(j) \cup {x}
    BY <1>1, <1>7
  <2>2. CASE a = x
    <3>1. BuddyOf(a, j) # a
      BY <1>1, <1>5, <1>7, <2>2, Buddies
    <3> QED
      BY <1>3, <1>7, <2>1, <2>2, <3>1
  <2>3. CASE a # x
    <3>1. a \in Chain(j) /\ BuddyOf(BuddyOf(a, j), j) = a
      BY <2>1, <2>3, NodeAligned
    <3>2. BuddyOf(a, j) # x
      BY <1>3, <1>7, <3>1
    <3> QED
      BY <1>4, <2>1, <3>1, <3>2
  <2> QED
    BY <2>2, <2>3
<1> QED
  BY <1>6, <1>7

(* Every step keeps Merged.                                                 *)
LEMMA MergedStep ==
  ASSUME BuddyInv, Merged, [Next]_vars
  PROVE  Merged'
<1>1. CASE BuddyInit
  <2>1. \A k \in Order \ {MaxOrder} : Chain(k)' = {}
    BY <1>1, BuddyInitStep
  <2> QED
    BY <2>1 DEF Merged
<1>2. CASE Kmalloc \/ KmallocWithoutHeader
  <2>1. PICK size \in Nat, headed \in BOOLEAN : Alloc(size, headed)
    BY <1>2, AllocCall
  <2>2. \A k \in Order : Chain(k)' = Chain(k)
    BY <2>1, AllocStep
  <2> QED
    BY <2>1, <2>2, FewerPairs DEF Alloc
<1>3. CASE SplitBlock
  BY <1>3, SplitMerged
<1>4. CASE HandOut
  BY <1>4, HandOutMerged
<1>5. CASE Kfree \/ KfreeWithoutHeader
  BY <1>5, KfreeStep, FewerPairs
<1>6. CASE KfreeAgain
  <2>1. \A k : Chain(k)' = Chain(k)
    BY <1>6, KfreeAgainStep, SameLists
  <2> QED
    BY <1>6, <2>1, FewerPairs DEF KfreeAgain, Free
<1>7. CASE AddIntoList
  BY <1>7, AddIntoListMerged
<1>8. CASE JoinBuddy
  <2>1. \A j \in Order : Chain(j)' \subseteq Chain(j)
    BY <1>8, JoinBuddyStep
  <2> QED
    BY <1>8, <2>1, FewerPairs DEF JoinBuddy
<1>9. CASE ClientWrites
  BY <1>9, ClientWritesStep, FewerPairs
<1>10. CASE Misfree
  BY <1>10, MisfreeStep, FewerPairs
<1>11. CASE UNCHANGED vars
  BY <1>11 DEF vars, Merged, Chain
<1> QED
  BY <1>1, <1>2, <1>3, <1>4, <1>5, <1>6, <1>7, <1>8, <1>9, <1>10, <1>11 DEF Next, NotFollowed

(* Before buddy_init there is no block to be merged.                        *)
LEMMA InitMerged == Init => Merged
<1> SUFFICES ASSUME Init PROVE Merged
  OBVIOUS
<1>1. \A k \in Order : free_lists[k] = Null
  BY DEF Init
<1>2. \A k \in Order : Chain(k) = {}
  BY <1>1, ChainNodes, EmptyList
<1> QED
  BY <1>2 DEF Merged

(* Between calls no block and its buddy are both free: buddy_free merges as *)
(* far as it can, and buddy_alloc takes a half of each block it splits.     *)
THEOREM Merging == Spec => []FullyMerged
<1>1. Init => Merged
  BY InitMerged
<1>2. BuddyInv /\ Merged /\ [Next]_vars => Merged'
  BY MergedStep
<1>3. Merged => FullyMerged
  BY DEF Merged, FullyMerged
<1> QED
  BY Invariance, <1>1, <1>2, <1>3, PTL DEF Spec

-----------------------------------------------------------------------------
(* The addresses of what is free, by lists and by blocks. *)
LEMMA SameFreeUnits == phase # "merging" => FreeUnits = BP!FreeUnits
<1> SUFFICES ASSUME phase # "merging" PROVE FreeUnits = BP!FreeUnits
  OBVIOUS
<1>1. \A x : x \in FreeUnits <=> \E k \in Order : \E a \in Chain(k) : x \in a .. a + Size[k] - 1
  BY DEF FreeUnits
<1>2. \A x : x \in BP!FreeUnits <=> \E b \in FreeBlocks : x \in BP!Covers(b)
  BY DEF BP!FreeUnits
<1>3. \A a, k : /\ BP!BlockAt(a, k).addr = a /\ BP!BlockAt(a, k).order = k
                /\ BP!Covers(BP!BlockAt(a, k)) = a .. a + Size[k] - 1
  BY DEF BP!Covers, BP!BlockAt
<1>4. ASSUME NEW x \in FreeUnits PROVE x \in BP!FreeUnits
  <2>0. PICK k \in Order : \E a \in Chain(k) : x \in a .. a + Size[k] - 1
    BY <1>1
  <2>1. PICK a \in Chain(k) : x \in a .. a + Size[k] - 1
    BY <2>0
  <2>2. BP!BlockAt(a, k) \in FreeBlocks
    BY ListBlock
  <2> QED
    BY <1>2, <1>3, <2>1, <2>2
<1>5. ASSUME NEW x \in BP!FreeUnits PROVE x \in FreeUnits
  <2>1. PICK b \in FreeBlocks : x \in BP!Covers(b)
    BY <1>2
  <2>2. b = BP!BlockAt(b.addr, b.order) /\ BP!BlockAt(b.addr, b.order) \in FreeBlocks
    BY <2>1, FreeBlock
  <2>3. b.order \in Order /\ b.addr \in Chain(b.order)
    BY <2>2, FreeBlock
  <2>4. BP!Covers(b) = b.addr .. b.addr + Size[b.order] - 1
    BY DEF BP!Covers
  <2> QED
    BY <1>1, <2>1, <2>3, <2>4
<1> QED
  BY <1>4, <1>5

(* A block covers as many addresses as its size says.                       *)
LEMMA CardinalityOfCovers ==
  ASSUME Tiling, NEW b \in BP!All
  PROVE  IsFiniteSet(BP!Covers(b)) /\ Cardinality(BP!Covers(b)) = Size[b.order]
<1> DEFINE a == b.addr
           s == Size[b.order]
<1>1. a \in Nat /\ s \in Nat \ {0}
  BY BlockFacts
<1>2. BP!Covers(b) = a .. a + s - 1
  BY DEF BP!Covers
<1> HIDE DEF a, s
<1>3. a \in Int /\ a + s - 1 \in Int /\ ~ (a > a + s - 1)
  BY <1>1
<1>4. /\ IsFiniteSet(a .. a + s - 1)
      /\ Cardinality(a .. a + s - 1) = (a + s - 1) - a + 1
  BY <1>3, FS_Interval
<1> QED
  BY <1>1, <1>2, <1>4 DEF s

(* The free addresses are finitely many.                                    *)
LEMMA FreeUnitsFinite ==
  /\ IsFiniteSet(Unit) /\ Cardinality(Unit) = Size[MaxOrder]
  /\ Tiling => /\ BP!FreeUnits \subseteq Unit /\ BP!HeldUnits \subseteq Unit
               /\ IsFiniteSet(BP!FreeUnits) /\ Cardinality(BP!FreeUnits) \in Nat
               /\ BP!FreeUnits \cap BP!HeldUnits = {}
<1>1. IsFiniteSet(Unit) /\ Cardinality(Unit) = Size[MaxOrder]
  <2> DEFINE top == Size[MaxOrder] - 1
  <2>1. 0 \in Int /\ top \in Nat /\ Unit = 0 .. top /\ Size[MaxOrder] = top + 1
    BY UnitRange, OrderSizes
  <2> HIDE DEF top
  <2>2. top \in Int /\ ~ (0 > top)
    BY <2>1
  <2>3. IsFiniteSet(0 .. top) /\ Cardinality(0 .. top) = top - 0 + 1
    BY <2>2, FS_Interval
  <2> QED
    BY <2>1, <2>3
<1>2. ASSUME Tiling
      PROVE  /\ BP!FreeUnits \subseteq Unit /\ BP!HeldUnits \subseteq Unit
             /\ BP!FreeUnits \cap BP!HeldUnits = {}
  <2>1. \A b \in BP!All : BP!Covers(b) \subseteq Unit
    BY <1>2, BlockFacts
  <2>2. BP!FreeUnits \subseteq Unit /\ BP!HeldUnits \subseteq Unit
    BY <2>1 DEF BP!FreeUnits, BP!HeldUnits, BP!All
  <2>3. ASSUME NEW x \in BP!FreeUnits, x \in BP!HeldUnits PROVE FALSE
    <3>1. PICK b \in FreeBlocks : x \in BP!Covers(b)
      BY DEF BP!FreeUnits
    <3>2. PICK c \in HeldBlocks : x \in BP!Covers(c)
      BY <2>3 DEF BP!HeldUnits
    <3>3. b \in BP!All /\ c \in BP!All
      BY DEF BP!All
    <3>4. b = c
      BY <1>2, <3>1, <3>2, <3>3, Apart
    <3> QED
      BY <1>2, <3>4, FreeNotHeld
  <2> QED
    BY <2>2, <2>3
<1>3. ASSUME Tiling
      PROVE  IsFiniteSet(BP!FreeUnits) /\ Cardinality(BP!FreeUnits) \in Nat
  BY <1>1, <1>2, <1>3, FS_Subset, FS_CardinalityType
<1> QED
  BY <1>1, <1>2, <1>3

(* Sums and differences, as numbers of blocks and of bytes. *)
LEMMA InBytes ==
  ASSUME NEW a \in Nat, NEW b \in Nat
  PROVE  /\ MinBlock * a \in Nat /\ MinBlock * b \in Nat
         /\ MinBlock * (a + b) = MinBlock * a + MinBlock * b
         /\ MinBlock * (a - b) = MinBlock * a - MinBlock * b
<1> DEFINE m == MinBlock
<1>1. m \in Nat
  BY BuddyAssumption
<1> HIDE DEF m
<1>2. /\ m * a \in Nat /\ m * b \in Nat
      /\ m * (a + b) = m * a + m * b /\ m * (a - b) = m * a - m * b
  BY <1>1
<1> QED
  BY <1>2 DEF m

LEMMA FreeBytes ==
  ASSUME BuddyInv, phase # "merging"
  PROVE  MinBlock * Cardinality(FreeUnits) \in Nat
<1>1. Cardinality(FreeUnits) \in Nat
  BY SameFreeUnits, FreeUnitsFinite DEF BuddyInv
<1> DEFINE c == Cardinality(FreeUnits)
<1> HIDE DEF c
<1>2. MinBlock * c \in Nat
  BY <1>1, BuddyAssumption DEF c
<1> QED
  BY <1>2 DEF c

(* Every step keeps Counted: handing out takes as many addresses from the   *)
(* free ones as it adds to total_used, a return the other way round, and    *)
(* splits and merges change neither.                                        *)
LEMMA CountedStep ==
  ASSUME BuddyInv, Counted, [Next]_vars
  PROVE  Counted'
<1> USE DEF BuddyInv
<1>0. BP!IInv /\ BP!Aligned /\ total_used \in Int /\ Size[MaxOrder] \in Nat
  BY OrderSizes DEF Tiling, TypeInv
<1>13. /\ \A k \in Order : Bytes(k) \in Nat /\ Bytes(k) = MinBlock * Size[k]
       /\ Bytes(MaxOrder) \in Nat /\ Bytes(MaxOrder) = MinBlock * Size[MaxOrder]
  BY ByteSizes, OrderSizes
<1>1. CASE BuddyInit
  <2>1. BP!FreeUnits' = Unit
    BY <1>0, <1>1, BuddyInitStep, BP!ProvideStep, BlocksAssumption, SameUnit
  <2>2. total_used' = 0 /\ Misreturned' = 0
    BY <1>1 DEF BuddyInit, Misreturned
  <2>3. Cardinality(BP!FreeUnits') = Size[MaxOrder]
    BY <2>1, FreeUnitsFinite
  <2>4. total_used' + Misreturned' + MinBlock * Cardinality(BP!FreeUnits') = Bytes(MaxOrder)
    BY <1>13, <2>2, <2>3
  <2> QED
    BY <2>4 DEF Counted
<1>2. ASSUME phase # "uninit", phase # "misfreed", phase' # "misfreed",
             BP!FreeUnits' = BP!FreeUnits, total_used' = total_used
      PROVE  Counted'
  BY <1>2 DEF Counted, Misreturned
<1>3. UNCHANGED <<FreeBlocks, HeldBlocks>> => BP!FreeUnits' = BP!FreeUnits
  BY DEF BP!FreeUnits, BP!Covers
<1>4. CASE Kmalloc \/ KmallocWithoutHeader
  <2>1. PICK size \in Nat, headed \in BOOLEAN : Alloc(size, headed)
    BY <1>4, AllocCall
  <2> QED
    BY <1>2, <1>3, <2>1, AllocStep DEF Alloc
<1>5. CASE SplitBlock
  <2>1. PICK b \in BP!Block : BP!Split(b)
    BY <1>5, SplitStep
  <2>2. BP!FreeUnits' = BP!FreeUnits
    BY <1>0, <2>1, BP!SplitStep, BlocksAssumption
  <2> QED
    BY <1>2, <1>5, <2>2 DEF SplitBlock
<1>6. CASE HandOut
  <2> DEFINE o == job.order
             b == BP!BlockAt(free_lists[o], o)
  <2>1. /\ o \in Order /\ free_lists[o] \in Chain(o) /\ total_used' = total_used + Bytes(o)
        /\ b \in BP!Block /\ BP!Take(b) /\ phase = "splitting"
    BY <1>6, HandOutStep DEF HandOut
  <2>2. b \in BP!All /\ b.order = o
    BY <2>1, ListBlock
  <2> HIDE DEF b, o
  <2>3. BP!Covers(b) \subseteq BP!FreeUnits /\ BP!FreeUnits' = BP!FreeUnits \ BP!Covers(b)
    BY <1>0, <2>1, BP!MoveStep, BlocksAssumption
  <2>4. IsFiniteSet(BP!FreeUnits) /\ Cardinality(BP!FreeUnits) \in Nat
    BY FreeUnitsFinite
  <2>5. Cardinality(BP!FreeUnits') = Cardinality(BP!FreeUnits) - Size[o]
    <3>1. IsFiniteSet(BP!Covers(b)) /\ Cardinality(BP!Covers(b)) = Size[o]
      BY <2>2, CardinalityOfCovers
    <3>2. BP!FreeUnits \cap BP!Covers(b) = BP!Covers(b)
      BY <2>3
    <3>3. Cardinality(BP!FreeUnits \ BP!Covers(b))
            = Cardinality(BP!FreeUnits) - Cardinality(BP!FreeUnits \cap BP!Covers(b))
      BY <2>4, FS_Difference
    <3> QED
      BY <2>3, <3>1, <3>2, <3>3
  <2>6. Size[o] \in Nat
    BY <2>1, OrderSizes
  <2>7. /\ MinBlock * Cardinality(BP!FreeUnits') = MinBlock * Cardinality(BP!FreeUnits) - Bytes(o)
        /\ MinBlock * Cardinality(BP!FreeUnits) \in Nat
    <3> DEFINE c == Cardinality(BP!FreeUnits)
    <3>1. c \in Nat /\ MinBlock * Size[o] = Bytes(o)
      BY <1>13, <2>1, <2>4
    <3> HIDE DEF c
    <3>2. MinBlock * (c - Size[o]) = MinBlock * c - MinBlock * Size[o] /\ MinBlock * c \in Nat
      BY <2>6, <3>1, InBytes
    <3> QED
      BY <2>5, <3>1, <3>2 DEF c
  <2>8. Misreturned = 0 /\ Misreturned' = 0
    BY <1>6 DEF HandOut, Misreturned
  <2> QED
    BY <1>0, <1>13, <2>1, <2>7, <2>8 DEF Counted
<1>7. CASE Kfree \/ KfreeWithoutHeader
  <2>1. PICK h \in held : /\ BP!BlockAt(h.addr, h.order) \in BP!Block
                          /\ BP!Give(BP!BlockAt(h.addr, h.order))
                          /\ total_used' = total_used - Bytes(h.order)
    BY <1>7, KfreeStep
  <2> DEFINE b == BP!BlockAt(h.addr, h.order)
  <2>2. b \in BP!Block /\ BP!Give(b) /\ b \in BP!All /\ b.order = h.order /\ phase = "idle"
    BY <1>7, <2>1, HeldBlock, KfreeStep
  <2> HIDE DEF b
  <2>3. BP!Covers(b) \subseteq BP!HeldUnits /\ BP!FreeUnits' = BP!FreeUnits \cup BP!Covers(b)
    BY <1>0, <2>2, BP!MoveStep, BlocksAssumption
  <2>4. IsFiniteSet(BP!FreeUnits) /\ Cardinality(BP!FreeUnits) \in Nat
          /\ BP!FreeUnits \cap BP!Covers(b) = {}
    BY <2>3, FreeUnitsFinite
  <2>5. Cardinality(BP!FreeUnits') = Cardinality(BP!FreeUnits) + Size[h.order]
    <3>1. IsFiniteSet(BP!Covers(b)) /\ Cardinality(BP!Covers(b)) = Size[h.order]
      BY <2>2, CardinalityOfCovers
    <3>2. Cardinality(BP!FreeUnits \cup BP!Covers(b))
            = Cardinality(BP!FreeUnits) + Cardinality(BP!Covers(b)) - Cardinality({})
      BY <2>4, <3>1, FS_Union
    <3>3. Size[h.order] \in Nat
      BY OrderSizes, Types
    <3> QED
      BY <2>3, <2>4, <3>1, <3>2, <3>3, FS_EmptySet
  <2>6. Size[h.order] \in Nat /\ h.order \in Order
    BY OrderSizes, Types
  <2>7. /\ MinBlock * Cardinality(BP!FreeUnits') = MinBlock * Cardinality(BP!FreeUnits) + Bytes(h.order)
        /\ MinBlock * Cardinality(BP!FreeUnits) \in Nat
    <3> DEFINE c == Cardinality(BP!FreeUnits)
    <3>1. c \in Nat /\ MinBlock * Size[h.order] = Bytes(h.order)
      BY <1>13, <2>4, <2>6
    <3> HIDE DEF c
    <3>2. MinBlock * (c + Size[h.order]) = MinBlock * c + MinBlock * Size[h.order] /\ MinBlock * c \in Nat
      BY <2>6, <3>1, InBytes
    <3> QED
      BY <2>5, <3>1, <3>2 DEF c
  <2>8. phase = "idle" /\ Misreturned = 0 /\ Misreturned' = 0
    BY <1>7, KfreeStep DEF Misreturned
  <2> QED
    BY <1>0, <1>13, <2>1, <2>6, <2>7, <2>8 DEF Counted
<1>8. CASE KfreeAgain
  BY <1>2, <1>3, <1>8, KfreeAgainStep DEF KfreeAgain, Free
<1>9. CASE AddIntoList
  BY <1>2, <1>3, <1>9, AddIntoListStep DEF AddIntoList
<1>10. CASE JoinBuddy
  <2>1. PICK b \in BP!Block : BP!Merge(b)
    BY <1>10, JoinBuddyStep
  <2>2. BP!FreeUnits' = BP!FreeUnits
    BY <1>0, <2>1, BP!MergeStep, BlocksAssumption
  <2> QED
    BY <1>2, <1>10, <2>2 DEF JoinBuddy
<1>11. CASE ClientWrites
  BY <1>2, <1>3, <1>11, ClientWritesStep
<1>12. CASE UNCHANGED vars
  <2>1. UNCHANGED <<mem, free_lists, total_used, phase, job, held, reply>>
    BY <1>12 DEF vars
  <2>2. UNCHANGED <<FreeBlocks, HeldBlocks>>
    BY <2>1 DEF HeldBlocks, FreeBlocks, Chain
  <2> QED
    BY <1>3, <2>1, <2>2 DEF Counted, Misreturned
<1>14. CASE Misfree
  <2>1. /\ phase = "idle" /\ phase' = "misfreed" /\ reply'.size \in Nat
        /\ total_used' = total_used - reply'.size /\ BP!FreeUnits' = BP!FreeUnits
    BY <1>3, <1>14, MisfreeStep
  <2>2. MinBlock * Cardinality(BP!FreeUnits) \in Nat
    BY <2>1, FreeBytes, SameFreeUnits
  <2>3. Misreturned = 0 /\ Misreturned' = reply'.size
    BY <2>1 DEF Misreturned
  <2>4. total_used + 0 + MinBlock * Cardinality(BP!FreeUnits) = Bytes(MaxOrder)
    BY <2>1, <2>3 DEF Counted
  <2>5. total_used' + reply'.size + MinBlock * Cardinality(BP!FreeUnits) = Bytes(MaxOrder)
    BY <1>0, <1>13, <2>1, <2>2, <2>4
  <2> QED
    BY <2>1, <2>3, <2>5 DEF Counted
<1> QED
  BY <1>1, <1>4, <1>5, <1>6, <1>7, <1>8, <1>9, <1>10, <1>11, <1>12, <1>14 DEF Next, NotFollowed

(* buddy_get_free_space answers the size of all blocks that are free.  It   *)
(* does so after every history of calls in which a block without header was *)
(* returned with the size of the block; after the first return with another *)
(* size it has counted that size, and not what the block has.               *)
THEOREM Accounting == Spec => []Accounted
<1>1. Init => Counted
  BY DEF Init, Counted
<1>2. BuddyInv /\ Counted /\ [Next]_vars => Counted'
  BY CountedStep
<1>3. BuddyInv /\ Counted => Accounted
  <2> SUFFICES ASSUME BuddyInv, Counted PROVE Accounted
    OBVIOUS
  <2>1. ASSUME phase \in {"idle", "misfreed"}
        PROVE  /\ FreeSpace = MinBlock * Cardinality(FreeUnits) + Misreturned
               /\ MinBlock * Cardinality(FreeUnits) \in Nat
    <3>1. total_used + Misreturned + MinBlock * Cardinality(FreeUnits) = Bytes(MaxOrder)
      BY <2>1, SameFreeUnits DEF Counted
    <3>2. MinBlock * Cardinality(FreeUnits) \in Nat
      BY <2>1, FreeBytes
    <3>3. total_used \in Int /\ Misreturned \in Nat
      BY DEF BuddyInv, TypeInv, Misreturned, Reply
    <3> QED
      BY <3>1, <3>2, <3>3 DEF FreeSpace
  <2> QED
    BY <2>1 DEF Accounted, Misreturned
<1> QED
  BY Invariance, <1>1, <1>2, <1>3, PTL DEF Spec

-----------------------------------------------------------------------------
(* Every step keeps Refused.                                                *)
LEMMA RefusedStep ==
  ASSUME BuddyInv, Refused, [Next]_vars
  PROVE  Refused'
<1> USE DEF BuddyInv
<1>1. CASE BuddyInit
  BY <1>1 DEF BuddyInit, JobInv, Refused
<1>2. CASE Kmalloc \/ KmallocWithoutHeader
  <2>1. PICK size \in Nat, headed \in BOOLEAN : Alloc(size, headed)
    BY <1>2, AllocCall
  <2>2. SUFFICES ASSUME phase' = "idle", reply'.size > 0, NEW k \in Order, k >= WantedOrder(reply'.size)
                 PROVE  free_lists'[k] = Null
    BY DEF Refused
  <2>3. free_lists' = free_lists /\ (size = 0 \/ Levels(size) = {})
        /\ reply' = [op |-> "alloc", size |-> size, addr |-> Null]
    BY <2>1, <2>2 DEF Alloc
  <2>4. reply'.size = size
    BY <2>3
  <2>5. Levels(size) = {}
    BY <2>2, <2>3, <2>4
  <2> QED
    BY <2>2, <2>3, <2>4, <2>5 DEF Levels
<1>3. CASE SplitBlock
  BY <1>3 DEF SplitBlock, Refused
<1>4. CASE HandOut
  <2>1. free_lists[job.order] # Null /\ reply'.addr = free_lists[job.order]
    BY <1>4 DEF HandOut, JobInv
  <2> QED
    BY <2>1 DEF Refused
<1>5. CASE Kfree \/ KfreeWithoutHeader
  BY <1>5, KfreeStep DEF Refused
<1>6. CASE KfreeAgain
  BY <1>6, KfreeAgainStep DEF Refused
<1>7. CASE AddIntoList
  BY <1>7 DEF AddIntoList, JobInv, Refused
<1>8. CASE JoinBuddy
  BY <1>8 DEF JoinBuddy, Refused
<1>9. CASE ClientWrites
  BY <1>9, ClientWritesStep DEF Refused
<1>10. CASE Misfree
  BY <1>10, MisfreeStep DEF Refused
<1>11. CASE UNCHANGED vars
  BY <1>11 DEF vars, Refused
<1> QED
  BY <1>1, <1>2, <1>3, <1>4, <1>5, <1>6, <1>7, <1>8, <1>9, <1>10, <1>11 DEF Next, NotFollowed

(* When the lists from an order on are empty, and no pair of buddies is     *)
(* free, no aligned run of that order is free: the smallest block in such a *)
(* run would have a free buddy.                                             *)
LEMMA NoFreeRun ==
  ASSUME BuddyInv, Merged, phase = "idle", NEW w \in Order,
         \A k \in Order : k >= w => free_lists[k] = Null,
         NEW a \in Unit, a % Size[w] = 0
  PROVE  ~ (a .. a + Size[w] - 1 \subseteq BP!FreeUnits)
<1> SUFFICES ASSUME a .. a + Size[w] - 1 \subseteq BP!FreeUnits PROVE FALSE
  OBVIOUS
<1> USE DEF BuddyInv
<1> DEFINE run == a .. a + Size[w] - 1
           In(b) == b \in FreeBlocks /\ b.addr \in run
           orders == {b.order : b \in {c \in FreeBlocks : c.addr \in run}}
<1>0. /\ a \in Nat /\ w \in Nat /\ Size[w] \in Nat \ {0}
      /\ \A x \in Nat : x \in run <=> a <= x /\ x < a + Size[w]
  BY OrderSizes, UnitRange
<1>1. \A b \in FreeBlocks : b \in BP!All /\ b.order \in Order /\ b.order < w /\ b.order \in Nat
  <2> SUFFICES ASSUME NEW b \in FreeBlocks
               PROVE  b \in BP!All /\ b.order \in Order /\ b.order < w /\ b.order \in Nat
    OBVIOUS
  <2>1. b = BP!BlockAt(b.addr, b.order) /\ BP!BlockAt(b.addr, b.order) \in FreeBlocks
    BY FreeBlock
  <2>2. b.order \in Order /\ b.addr \in Chain(b.order)
    BY <2>1, FreeBlock
  <2>3. free_lists[b.order] # Null
    BY <2>2, Chains
  <2>4. b.order \in Nat /\ ~ (b.order >= w)
    BY <2>2, <2>3, OrderSizes
  <2> QED
    BY <1>0, <2>2, <2>4 DEF BP!All
(* A free block that meets the run is in it. *)
<1>2. ASSUME NEW x \in run
      PROVE  \E b \in FreeBlocks : /\ x \in BP!Covers(b) /\ b.addr \in run
  <2>1. PICK b \in FreeBlocks : x \in BP!Covers(b)
    BY DEF BP!FreeUnits
  <2>2. /\ b \in BP!All /\ b.order \in Order /\ b.order <= w
        /\ x \in Nat /\ b.addr <= x /\ x < b.addr + Size[b.order]
        /\ b.addr \in Nat /\ b.addr % Size[b.order] = 0
    BY <1>0, <1>1, <2>1, BlockFacts
  <2>3. a <= x /\ x < a + Size[w]
    BY <1>0, <2>2
  <2>4. a <= b.addr /\ b.addr + Size[b.order] <= a + Size[w]
    BY <1>0, <2>2, <2>3, Nested
  <2> QED
    BY <1>0, <2>1, <2>2, <2>3, <2>4
<1>3. a \in run
  BY <1>0
<1> HIDE DEF run
<1>4. orders # {} /\ orders \subseteq Nat
  BY <1>1, <1>2, <1>3
<1>5. PICK j \in orders : \A i \in orders : j <= i
  BY <1>4, Least
<1>6. PICK b \in FreeBlocks : b.addr \in run /\ b.order = j
  BY <1>5
<1> DEFINE e == b.addr
           y == BuddyOf(e, j)
           p == Min({e, y})
<1>7. /\ b \in BP!All /\ j \in Order \ {MaxOrder} /\ j < w /\ j \in Nat
      /\ e \in Unit /\ e \in Nat /\ e % Size[j] = 0
  <2>1. b \in BP!All /\ j \in Order /\ j < w /\ j \in Nat
    BY <1>1, <1>6
  <2>2. j # MaxOrder
    BY <2>1 DEF Order
  <2> QED
    BY <1>6, <2>1, <2>2, BlockFacts
<1>8. /\ y \in Unit /\ y # e /\ p \in Unit /\ p % Size[j + 1] = 0
      /\ {e, y} = {p, p + Size[j]}
  <2> HIDE DEF e
  <2> QED
    BY <1>7, Buddies
<1>9. PICK c \in BP!All : c.addr = y /\ c.order <= j
  <2>1. \E c \in BP!All : c.addr = BuddyOf(b.addr, b.order) /\ c.order <= b.order /\ c # b
    BY <1>6, <1>7, BlockAtBuddy
  <2> QED
    BY <1>6, <2>1
<1> HIDE DEF e, y, p, orders
<1>10. y \in run
  <2> DEFINE s == Size[j]
  <2>1. s \in Nat \ {0} /\ j + 1 \in Order /\ Size[j + 1] = s + s /\ j + 1 <= w
    BY <1>0, <1>7, OrderSizes
  <2>2. p \in Nat /\ y \in Nat
    BY <1>8, UnitRange
  <2>3. /\ (e = p /\ y = p + s) \/ (y = p /\ e = p + s)
    BY <1>8
  <2> HIDE DEF s
  <2>4. p <= e /\ e < p + Size[j + 1] /\ p <= y /\ y < p + Size[j + 1]
    BY <1>7, <2>1, <2>2, <2>3
  <2>5. a <= e /\ e < a + Size[w]
    BY <1>0, <1>6, <1>7 DEF e
  <2>6. a <= p /\ p + Size[j + 1] <= a + Size[w]
    BY <1>0, <1>7, <1>8, <2>1, <2>2, <2>4, <2>5, Nested
  <2>7. a <= y /\ y < a + Size[w]
    BY <1>0, <2>1, <2>2, <2>4, <2>6
  <2> QED
    BY <1>0, <2>2, <2>7
<1>11. PICK d \in FreeBlocks : y \in BP!Covers(d) /\ d.addr \in run
  BY <1>2, <1>10
<1>12. d = c
  <2>1. y \in BP!Covers(c) /\ d \in BP!All
    BY <1>1, <1>9, <1>11, BlockFacts
  <2> QED
    BY <1>9, <1>11, <2>1, Apart
<1>13. d.order = j /\ d.addr = y
  <2>1. d.order \in orders /\ d.order \in Nat
    BY <1>1, <1>11 DEF orders
  <2>2. j <= d.order
    BY <1>5, <2>1
  <2> QED
    BY <1>7, <1>9, <1>12, <2>1, <2>2
<1>14. y \in Chain(j)
  <2>1. d = BP!BlockAt(y, j)
    BY <1>13, FreeBlock
  <2> QED
    BY <2>1, FreeBlock
<1>15. e \in Chain(j)
  <2>1. b = BP!BlockAt(e, j)
    BY <1>6, FreeBlock DEF e
  <2> QED
    BY <2>1, FreeBlock
<1> QED
  BY <1>7, <1>14, <1>15 DEF Merged, y

(* buddy_alloc refuses a request only when no free run of its size, aligned *)
(* as blocks are, is left, split up or whole.                               *)
THEOREM Refusal == Spec => []RefusalJustified
<1>1. Init => Refused
  BY DEF Init, Refused
<1>2. BuddyInv /\ Refused /\ [Next]_vars => Refused'
  BY RefusedStep
<1>3. Init => Merged
  BY InitMerged
<1>4. BuddyInv /\ Merged /\ [Next]_vars => Merged'
  BY MergedStep
<1>5. BuddyInv /\ Merged /\ Refused => RefusalJustified
  <2> DEFINE w == WantedOrder(reply.size)
  <2> SUFFICES ASSUME BuddyInv, Merged, Refused,
                      phase = "idle", reply.op = "alloc", reply.addr = Null, reply.size > 0,
                      w # Other, NEW a \in Unit, a % Size[w] = 0
               PROVE  ~ (a .. a + Size[w] - 1 \subseteq FreeUnits)
    BY DEF RefusalJustified
  <2>1. w \in Order
    BY OrderWanted
  <2>2. \A k \in Order : k >= w => free_lists[k] = Null
    BY DEF Refused
  <2>3. FreeUnits = BP!FreeUnits
    BY SameFreeUnits
  <2> HIDE DEF w
  <2> QED
    BY <2>1, <2>2, <2>3, NoFreeRun
<1> QED
  BY Invariance, <1>1, <1>2, <1>3, <1>4, <1>5, PTL DEF Spec
=============================================================================
