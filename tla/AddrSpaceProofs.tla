-------------------------- MODULE AddrSpaceProofs --------------------------
(***************************************************************************)
(* Proofs about the page tables of PageTables, and about AddrSpace, whose  *)
(* calls of mem_map and mem_map_virt_addr work on them and on a pool of    *)
(* ranges.                                                                 *)
(*                                                                         *)
(* The first part is about the tables for any callers of mmu_map_memory    *)
(* (MmuSpec): that they stay a tree, and what entering a page in them does *)
(* to the walks of the others.  The second part cites its lemmas for the   *)
(* steps of mmu.c, and those of FirstFitProofs, under VP, for the steps of *)
(* the pool.  It has the arithmetic of pages and units, and what a call of *)
(* map_inner does to the pool, in order (PoolGood) or broken (Shaped); an  *)
(* invariant that holds of either, MapInv; one of a pool in order,         *)
(* SpaceInv, with a lemma for every action of AddrSpace; BootPart, from    *)
(* which the pool stays in order; and at the end the theorems.             *)
(***************************************************************************)
EXTENDS AddrSpace, WellFoundedInduction, TLAPS

-----------------------------------------------------------------------------
(* A set of numbers that is not empty has a least one.                      *)
LEMMA Least ==
  ASSUME NEW S, S \subseteq Nat, S # {}
  PROVE  \E n \in S : \A m \in S : n <= m
<1> DEFINE Less == {p \in Nat \X Nat : p[1] < p[2]}
<1>1. IsWellFoundedOn(Less, Nat)
  <2>1. Less = OpToRel(<, Nat)
    BY DEF OpToRel
  <2> QED
    BY <2>1, NatLessThanWellFounded
<1>2. PICK n \in S : \A m \in S : ~ (<<m, n>> \in Less)
  <2> HIDE DEF Less
  <2>1. S \in SUBSET Nat
    OBVIOUS
  <2> QED
    BY <1>1, <2>1, WFMin
<1>3. ASSUME NEW m \in S PROVE n <= m
  <2>1. n \in Nat /\ m \in Nat
    OBVIOUS
  <2>2. <<m, n>> \in Nat \X Nat /\ <<m, n>>[1] = m /\ <<m, n>>[2] = n
    BY <2>1
  <2>3. ~ (m < n)
    BY <1>2, <2>2
  <2> QED
    BY <2>1, <2>3
<1> QED
  BY <1>3

LEMMA Levels == /\ Root \in Nat \ {0} /\ Root \in Level /\ Level \subseteq Nat
                /\ \A l \in Level : l # Root => l \in Below
                /\ \A l \in Below : l \in Level /\ l + 1 \in Level /\ l < Root
BY PageTablesAssumption DEF Level, Below

-----------------------------------------------------------------------------
(* ReachedIn is well-defined by its recursion, from the root down. *)
Children(e, tables) == {e[t][s] : t \in tables, s \in Slot} \ {Null}
Reaching(e, k, f) ==
  f = [n \in 0 .. k |-> IF n = 0 THEN {Pml4} ELSE Children(e, f[n - 1])]

LEMMA ReachingAt ==
  ASSUME NEW e, NEW k \in Nat, NEW f, Reaching(e, k, f), NEW n \in 0 .. k
  PROVE  f[n] = IF n = 0 THEN {Pml4} ELSE Children(e, f[n - 1])
<1> DEFINE g(m) == IF m = 0 THEN {Pml4} ELSE Children(e, f[m - 1])
<1>1. f = [m \in 0 .. k |-> g(m)]
  BY DEF Reaching
<1> HIDE DEF g
<1>2. f[n] = g(n)
  BY <1>1
<1> QED
  BY <1>2 DEF g

LEMMA ReachingExists ==
  ASSUME NEW e, NEW n \in Nat
  PROVE  \E f : Reaching(e, n, f)
<1> DEFINE Bad == {k \in Nat : ~ \E f : Reaching(e, k, f)}
<1> SUFFICES ASSUME Bad # {} PROVE FALSE
  OBVIOUS
<1>1. PICK k \in Bad : \A j \in Bad : k <= j
  <2>1. Bad \subseteq Nat
    OBVIOUS
  <2> HIDE DEF Bad
  <2> QED
    BY <2>1, Least
<1>2. k \in Nat /\ ~ \E f : Reaching(e, k, f)
  OBVIOUS
<1>3. CASE k = 0
  <2> DEFINE g == [n_1 \in 0 .. k |-> {Pml4}]
  <2>1. Reaching(e, k, g)
    BY <1>3 DEF Reaching
  <2> QED
    BY <1>2, <2>1
<1>4. CASE k # 0
  <2> DEFINE m == k - 1
  <2>0. m \in Nat /\ k = m + 1 /\ m = k - 1
    BY <1>2, <1>4
  <2> HIDE DEF m
  <2>1. m \notin Bad
    BY <1>1, <2>0
  <2>2. PICK f : Reaching(e, m, f)
    BY <2>0, <2>1
  <2> HIDE DEF Bad
  <2>5. \A j \in 0 .. m : f[j] = IF j = 0 THEN {Pml4} ELSE Children(e, f[j - 1])
    BY <2>0, <2>2, ReachingAt
  <2> DEFINE g == [j \in 0 .. k |-> IF j = k THEN Children(e, f[m]) ELSE f[j]]
  <2>3. ASSUME NEW j \in 0 .. k
        PROVE  g[j] = IF j = 0 THEN {Pml4} ELSE Children(e, g[j - 1])
    <3>1. CASE j = k
      <4>1. k \in 0 .. k /\ m \in 0 .. k /\ m # k
        BY <2>0
      <4>2. g[k] = Children(e, f[m]) /\ g[m] = f[m]
        BY <4>1
      <4>3. j = k /\ j # 0 /\ j - 1 = m
        BY <1>4, <2>0, <3>1
      <4> HIDE DEF g
      <4> QED
        BY <4>2, <4>3
    <3>2. CASE j # k
      <4>1. j \in 0 .. m /\ (j # 0 => j - 1 \in 0 .. k /\ j - 1 # k)
        BY <2>0, <3>2
      <4>2. f[j] = IF j = 0 THEN {Pml4} ELSE Children(e, f[j - 1])
        BY <2>5, <4>1
      <4>3. g[j] = f[j] /\ (j # 0 => g[j - 1] = f[j - 1])
        BY <3>2, <4>1
      <4> QED
        BY <4>2, <4>3
    <3> QED
      BY <3>1, <3>2
  <2>4. Reaching(e, k, g)
    <3>1. g = [j \in 0 .. k |-> g[j]]
      OBVIOUS
    <3> HIDE DEF g
    <3>2. g = [j \in 0 .. k |-> IF j = 0 THEN {Pml4} ELSE Children(e, g[j - 1])]
      BY <2>3, <3>1
    <3> QED
      BY <3>2 DEF Reaching
  <2> QED
    BY <1>2, <2>4
<1> QED
  BY <1>3, <1>4

(* The tables on a level are those that the level above leads to. *)
LEMMA ReachedLemma ==
  ASSUME NEW e
  PROVE  /\ ReachedIn(e)[Root] = {Pml4}
         /\ \A l \in Below : ReachedIn(e)[l] = Children(e, ReachedIn(e)[l + 1])
<1> DEFINE f == CHOOSE f : Reaching(e, Root, f)
           g == [l \in Level |-> f[Root - l]]
<1>1. Reaching(e, Root, f)
  BY ReachingExists, Levels
<1>2. ReachedIn(e) = g
  BY DEF ReachedIn, Reaching, Children, Level
<1> HIDE DEF f
<1>0. \A n \in 0 .. Root : f[n] = IF n = 0 THEN {Pml4} ELSE Children(e, f[n - 1])
  <2>1. Root \in Nat
    BY Levels
  <2> QED
    BY <1>1, <2>1, ReachingAt
<1>3. f[0] = {Pml4}
  <2>1. 0 \in 0 .. Root
    BY Levels
  <2> QED
    BY <1>0, <2>1
<1>4. ASSUME NEW l \in Below PROVE g[l] = Children(e, g[l + 1])
  <2> DEFINE n == Root - l
             m == Root - (l + 1)
  <2>1. n \in 0 .. Root /\ n # 0 /\ n - 1 = m /\ l \in Level /\ l + 1 \in Level
    BY Levels DEF Below
  <2>2. g[l] = f[n] /\ g[l + 1] = f[m]
    BY <2>1
  <2> HIDE DEF n, m, g
  <2>3. f[n] = IF n = 0 THEN {Pml4} ELSE Children(e, f[n - 1])
    BY <1>0, <2>1
  <2> QED
    BY <2>1, <2>2, <2>3
<1>5. g[Root] = {Pml4}
  <2>1. Root \in Level /\ Root - Root = 0
    BY Levels
  <2> QED
    BY <1>3, <2>1
<1> QED
  BY <1>2, <1>4, <1>5

(* No other sets satisfy the recursion. *)
LEMMA ReachedUnique ==
  ASSUME NEW e, NEW g, g[Root] = {Pml4}, \A l \in Below : g[l] = Children(e, g[l + 1])
  PROVE  \A l \in Level : g[l] = ReachedIn(e)[l]
<1> DEFINE Bad == {n \in Nat : n \in 0 .. Root /\ g[Root - n] # ReachedIn(e)[Root - n]}
<1>1. ASSUME Bad # {} PROVE FALSE
  <2>1. PICK n \in Bad : \A m \in Bad : n <= m
    <3>1. Bad \subseteq Nat
      OBVIOUS
    <3> HIDE DEF Bad
    <3> QED
      BY <1>1, <3>1, Least
  <2>2. n \in 0 .. Root /\ g[Root - n] # ReachedIn(e)[Root - n]
    OBVIOUS
  <2>3. n # 0
    <3>1. Root - 0 = Root
      BY Levels
    <3> QED
      BY <2>2, <3>1, ReachedLemma
  <2> DEFINE l == Root - n
             m == n - 1
  <2>4. l \in Below /\ m \in 0 .. Root /\ m < n /\ Root - m = l + 1
    BY <2>2, <2>3, Levels DEF Below
  <2>5. m \notin Bad
    BY <2>1, <2>2, <2>4
  <2> HIDE DEF l, m
  <2>6. g[l + 1] = ReachedIn(e)[l + 1]
    BY <2>4, <2>5
  <2>7. g[l] = ReachedIn(e)[l]
    BY <2>4, <2>6, ReachedLemma
  <2> QED
    BY <2>2, <2>7 DEF l
<1>2. ASSUME NEW l \in Level PROVE g[l] = ReachedIn(e)[l]
  <2> DEFINE n == Root - l
  <2>1. n \in 0 .. Root /\ Root - n = l
    BY Levels DEF Level
  <2> HIDE DEF n
  <2> QED
    BY <1>1, <2>1
<1> QED
  BY <1>2

-----------------------------------------------------------------------------
(* WalkIn likewise. *)
OneDown(e, page, found, l) == IF found = Null THEN Null ELSE e[found][Index[page][l + 1]]
Walking(e, page, k, f) ==
  f = [l \in k .. Root |-> IF l = Root THEN Pml4 ELSE OneDown(e, page, f[l + 1], l)]

LEMMA WalkingAt ==
  ASSUME NEW e, NEW page, NEW k \in Int, NEW f, Walking(e, page, k, f), NEW l \in k .. Root
  PROVE  f[l] = IF l = Root THEN Pml4 ELSE OneDown(e, page, f[l + 1], l)
<1> DEFINE g(m) == IF m = Root THEN Pml4 ELSE OneDown(e, page, f[m + 1], m)
<1>1. f = [m \in k .. Root |-> g(m)]
  BY DEF Walking
<1> HIDE DEF g
<1>2. f[l] = g(l)
  BY <1>1
<1> QED
  BY <1>2 DEF g

LEMMA WalkingExists ==
  ASSUME NEW e, NEW page, NEW n \in Nat
  PROVE  \E f : Walking(e, page, Root - n, f)
<1> DEFINE Bad == {k \in Nat : ~ \E f : Walking(e, page, Root - k, f)}
<1> SUFFICES ASSUME Bad # {} PROVE FALSE
  OBVIOUS
<1>0. Root \in Nat
  BY Levels
<1>1. PICK d \in Bad : \A j \in Bad : d <= j
  <2>1. Bad \subseteq Nat
    OBVIOUS
  <2> HIDE DEF Bad
  <2> QED
    BY <2>1, Least
<1> DEFINE k == Root - d
<1>2. d \in Nat /\ k \in Int /\ ~ \E f : Walking(e, page, k, f)
  BY <1>0
<1>3. CASE d = 0
  <2> DEFINE g == [l \in k .. Root |-> Pml4]
  <2>1. \A l \in k .. Root : l = Root
    BY <1>0, <1>3
  <2>2. Walking(e, page, k, g)
    BY <2>1 DEF Walking
  <2> QED
    BY <1>2, <2>2
<1>4. CASE d # 0
  <2> DEFINE m == k + 1
  <2>0. m \in Int /\ m = k + 1 /\ k \in k .. Root /\ m \in k .. Root /\ m # k /\ k # Root
    BY <1>0, <1>2, <1>4
  <2>1. PICK f : Walking(e, page, m, f)
    <3>1. d - 1 \in Nat /\ d - 1 < d /\ Root - (d - 1) = m
      BY <1>0, <1>2, <1>4
    <3>2. d - 1 \notin Bad
      BY <1>1, <1>2, <3>1
    <3> HIDE DEF m
    <3> QED
      BY <3>1, <3>2
  <2> HIDE DEF m, k
  <2> DEFINE g == [l \in k .. Root |-> IF l = k THEN OneDown(e, page, f[m], k) ELSE f[l]]
  <2>3. ASSUME NEW l \in k .. Root
        PROVE  g[l] = IF l = Root THEN Pml4 ELSE OneDown(e, page, g[l + 1], l)
    <3>1. CASE l = k
      <4>2. g[k] = OneDown(e, page, f[m], k) /\ g[m] = f[m]
        BY <2>0
      <4> QED
        BY <2>0, <3>1, <4>2
    <3>2. CASE l # k
      <4>1. l \in m .. Root /\ (l # Root => l + 1 \in k .. Root /\ l + 1 # k)
        BY <1>0, <1>2, <2>0, <3>2
      <4>2. f[l] = IF l = Root THEN Pml4 ELSE OneDown(e, page, f[l + 1], l)
        BY <2>0, <2>1, <4>1, WalkingAt
      <4>3. g[l] = f[l] /\ (l # Root => g[l + 1] = f[l + 1])
        BY <3>2, <4>1
      <4> QED
        BY <4>2, <4>3
    <3> QED
      BY <3>1, <3>2
  <2>4. Walking(e, page, k, g)
    <3>1. g = [l \in k .. Root |-> g[l]]
      OBVIOUS
    <3> HIDE DEF g
    <3>2. g = [l \in k .. Root |-> IF l = Root THEN Pml4 ELSE OneDown(e, page, g[l + 1], l)]
      BY <2>3, <3>1
    <3> QED
      BY <3>2 DEF Walking
  <2> QED
    BY <1>2, <2>4
<1> QED
  BY <1>3, <1>4

(* A walk goes down one level at a time, as long as it finds a table. *)
LEMMA WalkLemma ==
  ASSUME NEW e, NEW page
  PROVE  /\ WalkIn(e, page)[Root] = Pml4
         /\ \A l \in -1 .. Root - 1 :
              WalkIn(e, page)[l] = OneDown(e, page, WalkIn(e, page)[l + 1], l)
<1> DEFINE f == CHOOSE f : Walking(e, page, -1, f)
<1>0. Root \in Nat
  BY Levels
<1>1. Walking(e, page, -1, f)
  <2>1. Root + 1 \in Nat /\ Root - (Root + 1) = -1
    BY <1>0
  <2> QED
    BY <2>1, WalkingExists
<1>2. WalkIn(e, page) = f
  BY DEF WalkIn, Walking, OneDown
<1> HIDE DEF f
<1>3. \A l \in -1 .. Root : f[l] = IF l = Root THEN Pml4 ELSE OneDown(e, page, f[l + 1], l)
  BY <1>1, WalkingAt
<1>4. Root \in -1 .. Root /\ \A l \in -1 .. Root - 1 : l \in -1 .. Root /\ l # Root
  BY <1>0
<1> QED
  BY <1>2, <1>3, <1>4

(* No other function satisfies the recursion; from one level on is enough. *)
LEMMA WalkUnique ==
  ASSUME NEW e, NEW page, NEW w, NEW low \in -1 .. Root,
         w[Root] = Pml4, \A l \in low .. Root - 1 : w[l] = OneDown(e, page, w[l + 1], l)
  PROVE  \A l \in low .. Root : w[l] = WalkIn(e, page)[l]
<1> DEFINE Bad == {n \in Nat : Root - n \in low .. Root /\ w[Root - n] # WalkIn(e, page)[Root - n]}
<1>0. Root \in Nat /\ low \in Int /\ -1 <= low
  BY Levels
<1>1. ASSUME Bad # {} PROVE FALSE
  <2>1. PICK n \in Bad : \A m \in Bad : n <= m
    <3>1. Bad \subseteq Nat
      OBVIOUS
    <3> HIDE DEF Bad
    <3> QED
      BY <1>1, <3>1, Least
  <2>2. n \in Nat /\ Root - n \in low .. Root /\ w[Root - n] # WalkIn(e, page)[Root - n]
    OBVIOUS
  <2>3. n # 0
    <3>1. Root - 0 = Root
      BY <1>0
    <3> QED
      BY <2>2, <3>1, WalkLemma
  <2> DEFINE l == Root - n
             m == n - 1
  <2>4. /\ l \in low .. Root - 1 /\ l \in -1 .. Root - 1
        /\ m \in Nat /\ m < n /\ Root - m = l + 1 /\ l + 1 \in low .. Root
    BY <1>0, <2>2, <2>3
  <2>5. m \notin Bad
    BY <2>1, <2>2, <2>4
  <2> HIDE DEF l, m
  <2>6. w[l + 1] = WalkIn(e, page)[l + 1]
    BY <2>4, <2>5
  <2>7. w[l] = WalkIn(e, page)[l]
    BY <2>4, <2>6, WalkLemma
  <2> QED
    BY <2>2, <2>7 DEF l
<1>2. ASSUME NEW l \in low .. Root PROVE w[l] = WalkIn(e, page)[l]
  <2> DEFINE n == Root - l
  <2>1. n \in Nat /\ Root - n = l
    BY <1>0
  <2> HIDE DEF n
  <2> QED
    BY <1>1, <2>1
<1> QED
  BY <1>2

-----------------------------------------------------------------------------
(* Entries that make a tree. *)
Entries == [Table -> [Slot -> Entry]]
Tree(e) == e \in Entries /\ TreeIn(e)
LinkedIn(e) == UNION {ReachedIn(e)[l] : l \in Level}
IsMirror(t, s) == t = Pml4 /\ s = Mirror

LEMMA TableFacts ==
  /\ Null \notin Frame /\ Null \notin Table
  /\ Table \subseteq Frame /\ Frame \subseteq Nat /\ Table \subseteq Nat
  /\ Null \in Int /\ \A S : S \subseteq Table => S \cup {Null} \subseteq Int
  /\ Pml4 \in Table /\ Mirror \in Slot
  /\ \A p \in Page, l \in Level : Index[p][l] \in Slot
<1>1. Null \notin Frame /\ Frame \subseteq Nat
  BY PageTablesAssumption DEF Frame, Null
<1>2. Table \subseteq Frame
  BY PageTablesAssumption
<1>3. Table \subseteq Nat
  BY <1>1, <1>2
<1>4. Null \in Int
  BY DEF Null
<1>5. \A S : S \subseteq Table => S \cup {Null} \subseteq Int
  BY <1>3, <1>4
<1> QED
  BY <1>1, <1>2, <1>3, <1>4, <1>5, PageTablesAssumption DEF Table

(* Where a table of the tree can be, and what its slots lead to. *)
LEMMA TreeFacts ==
  ASSUME NEW e, Tree(e)
  PROVE  /\ \A l \in Level : ReachedIn(e)[l] \subseteq Table
         /\ \A l, m \in Level : l # m => ReachedIn(e)[l] \cap ReachedIn(e)[m] = {}
         /\ ReachedIn(e)[Root] = {Pml4}
         /\ \A l \in Below, t \in Table, s \in Slot :
              t \in ReachedIn(e)[l + 1] /\ e[t][s] # Null => e[t][s] \in ReachedIn(e)[l]
         /\ \A t \in Table, s \in Slot : e[t][s] \in Entry
         /\ e[Pml4][Mirror] # Null
<1>1. DOMAIN e = Table /\ \A t \in Table, s \in Slot : e[t][s] \in Entry
  BY DEF Tree, Entries
<1>2. \A l \in Level : ReachedIn(e)[l] \subseteq Table
  BY <1>1 DEF Tree, TreeIn
<1>3. \A l \in Below, t \in Table, s \in Slot :
        t \in ReachedIn(e)[l + 1] /\ e[t][s] # Null => e[t][s] \in ReachedIn(e)[l]
  BY ReachedLemma DEF Children
<1> QED
  BY <1>1, <1>2, <1>3, ReachedLemma DEF Tree, TreeIn

(* A slot above the page tables that is in use is the one link of a table. *)
LEMMA OneLink ==
  ASSUME NEW e, Tree(e),
         NEW l \in Below, NEW t \in ReachedIn(e)[l + 1], NEW s \in Slot, ~ IsMirror(t, s),
         NEW m \in Below, NEW u \in ReachedIn(e)[m + 1], NEW r \in Slot, ~ IsMirror(u, r),
         e[t][s] = e[u][r], e[t][s] # Null
  PROVE  t = u /\ s = r
<1> DEFINE c == e[t][s]
<1>1. t \in Table /\ u \in Table
  BY TreeFacts, Levels
<1>2. c \in ReachedIn(e)[l]
  BY <1>1, TreeFacts
<1>3. PICK p \in LinksIn(e, c) : LinksIn(e, c) = {p}
  BY <1>2 DEF Tree, TreeIn
<1>4. l + 1 \in Level \ {0} /\ m + 1 \in Level \ {0}
  BY Levels DEF Below
<1>5. t \in InnerIn(e) /\ u \in InnerIn(e)
  BY <1>4 DEF InnerIn
<1>6. <<t, s>> \in LinksIn(e, c) /\ <<u, r>> \in LinksIn(e, c)
  BY <1>5 DEF LinksIn, IsMirror
<1>7. <<t, s>> = <<u, r>>
  BY <1>3, <1>6
<1> QED
  BY <1>7

(* A walk finds a table of the level, or none, and at last a frame or none. *)
LEMMA WalkTables ==
  ASSUME NEW e, Tree(e), NEW page \in Page
  PROVE  /\ \A l \in Level : WalkIn(e, page)[l] \in ReachedIn(e)[l] \cup {Null}
         /\ WalkIn(e, page)[-1] \in Frame \cup {Null}
<1> DEFINE w == WalkIn(e, page)
           Bad == {n \in Nat : Root - n \in Level /\ w[Root - n] \notin ReachedIn(e)[Root - n] \cup {Null}}
<1>0. Root \in Nat
  BY Levels
<1>d. w[Root] = Pml4 /\ \A l \in -1 .. Root - 1 : w[l] = OneDown(e, page, w[l + 1], l)
  BY WalkLemma
<1> HIDE DEF w
<1>1. ASSUME Bad # {} PROVE FALSE
  <2>1. PICK n \in Bad : \A m \in Bad : n <= m
    <3>1. Bad \subseteq Nat
      OBVIOUS
    <3> HIDE DEF Bad
    <3> QED
      BY <1>1, <3>1, Least
  <2>2. n \in Nat /\ Root - n \in Level /\ w[Root - n] \notin ReachedIn(e)[Root - n] \cup {Null}
    OBVIOUS
  <2>3. n # 0
    <3>1. Root - 0 = Root
      BY <1>0
    <3> QED
      BY <1>d, <2>2, <3>1, TreeFacts
  <2> DEFINE l == Root - n
             m == n - 1
  <2>4. /\ l \in Below /\ l \in -1 .. Root - 1
        /\ m \in Nat /\ m < n /\ Root - m = l + 1 /\ l + 1 \in Level
    BY <1>0, <2>2, <2>3 DEF Level, Below
  <2>5. m \notin Bad
    BY <2>1, <2>2, <2>4
  <2> HIDE DEF l, m
  <2>6. w[l + 1] \in ReachedIn(e)[l + 1] \cup {Null}
    BY <2>4, <2>5
  <2>7. w[l] \in ReachedIn(e)[l] \cup {Null}
    <3>1. w[l] = OneDown(e, page, w[l + 1], l)
      BY <1>d, <2>4
    <3>2. w[l + 1] # Null => w[l + 1] \in Table
      BY <2>4, <2>6, TreeFacts
    <3>3. Index[page][l + 1] \in Slot
      BY <2>4, TableFacts
    <3> QED
      BY <2>4, <2>6, <3>1, <3>2, <3>3, TreeFacts DEF OneDown
  <2> QED
    BY <2>2, <2>7 DEF l
<1>2. ASSUME NEW l \in Level PROVE w[l] \in ReachedIn(e)[l] \cup {Null}
  <2> DEFINE n == Root - l
  <2>1. n \in Nat /\ Root - n = l
    BY <1>0 DEF Level
  <2> HIDE DEF n
  <2> QED
    BY <1>1, <2>1
<1>3. w[-1] \in Frame \cup {Null}
  <2>1. -1 \in -1 .. Root - 1 /\ 0 \in Level /\ -1 + 1 = 0
    BY <1>0 DEF Level
  <2>2. w[-1] = OneDown(e, page, w[0], -1)
    BY <1>d, <2>1
  <2>3. w[0] # Null => w[0] \in Table
    BY <1>2, <2>1, TreeFacts
  <2>4. Index[page][-1 + 1] \in Slot
    BY <2>1, TableFacts
  <2> QED
    BY <2>2, <2>3, <2>4, TreeFacts DEF OneDown, Entry
<1> QED
  BY <1>2, <1>3 DEF w

(* Two walks that do not go through the mirror and meet have the same indices
   above the table where they meet. *)
LEMMA WalksMeet ==
  ASSUME NEW e, Tree(e), NEW p \in Page, NEW q \in Page,
         Index[p][Root] # Mirror, Index[q][Root] # Mirror,
         NEW l \in Level, WalkIn(e, p)[l] = WalkIn(e, q)[l], WalkIn(e, p)[l] # Null,
         NEW k \in Level, k > l
  PROVE  Index[p][k] = Index[q][k]
<1> DEFINE v == WalkIn(e, p)
           w == WalkIn(e, q)
           Meet(m) == m \in Level /\ v[m] = w[m] /\ v[m] # Null
           Bad == {n \in Nat : n < k /\ Meet(k - 1 - n) /\ Index[p][k] # Index[q][k]}
<1>0. Root \in Nat /\ k \in Nat /\ l \in Nat /\ k <= Root /\ k \in Level /\ l \in Level
  BY Levels DEF Level
<1>d. /\ v[Root] = Pml4 /\ \A m \in -1 .. Root - 1 : v[m] = OneDown(e, p, v[m + 1], m)
      /\ w[Root] = Pml4 /\ \A m \in -1 .. Root - 1 : w[m] = OneDown(e, q, w[m + 1], m)
      /\ \A m \in Level : v[m] \in ReachedIn(e)[m] \cup {Null}
      /\ \A m \in Level : w[m] \in ReachedIn(e)[m] \cup {Null}
  BY WalkLemma, WalkTables
<1>m. v[l] = w[l] /\ v[l] # Null
  OBVIOUS
<1> HIDE DEF v, w
<1>1. ASSUME NEW m \in Below, Meet(m)
      PROVE  Meet(m + 1) /\ Index[p][m + 1] = Index[q][m + 1]
  <2>1. m \in -1 .. Root - 1 /\ m + 1 \in Level
    BY <1>0, Levels DEF Below
  <2>2. v[m] = OneDown(e, p, v[m + 1], m) /\ w[m] = OneDown(e, q, w[m + 1], m)
    BY <1>d, <2>1
  <2>3. /\ v[m + 1] # Null /\ w[m + 1] # Null
        /\ e[v[m + 1]][Index[p][m + 1]] = v[m] /\ e[w[m + 1]][Index[q][m + 1]] = v[m]
    BY <1>1, <2>2 DEF OneDown
  <2>4. v[m + 1] \in ReachedIn(e)[m + 1] /\ w[m + 1] \in ReachedIn(e)[m + 1]
    BY <1>d, <2>1, <2>3
  <2>5. Index[p][m + 1] \in Slot /\ Index[q][m + 1] \in Slot
    BY <2>1, TableFacts
  <2>6. ASSUME Pml4 \in ReachedIn(e)[m + 1] PROVE m + 1 = Root
    BY <2>1, <2>6, TreeFacts, Levels
  <2>7. ~ IsMirror(v[m + 1], Index[p][m + 1]) /\ ~ IsMirror(w[m + 1], Index[q][m + 1])
    BY <2>4, <2>6 DEF IsMirror
  <2> DEFINE t == v[m + 1]
             s == Index[p][m + 1]
             u == w[m + 1]
             r == Index[q][m + 1]
  <2>8. /\ t \in ReachedIn(e)[m + 1] /\ u \in ReachedIn(e)[m + 1] /\ s \in Slot /\ r \in Slot
        /\ ~ IsMirror(t, s) /\ ~ IsMirror(u, r) /\ e[t][s] = e[u][r] /\ e[t][s] # Null
    BY <1>1, <2>3, <2>4, <2>5, <2>7
  <2>9. t = u /\ s = r
    <3> HIDE DEF t, s, u, r
    <3> QED
      BY <2>8, OneLink
  <2> QED
    BY <2>1, <2>3, <2>9
<1> HIDE DEF Meet
<1>2. ASSUME Bad # {} PROVE FALSE
  <2>1. PICK n \in Bad : \A m \in Bad : n <= m
    <3>1. Bad \subseteq Nat
      OBVIOUS
    <3> HIDE DEF Bad
    <3> QED
      BY <1>2, <3>1, Least
  <2> DEFINE m == k - 1 - n
  <2>2. n \in Nat /\ n < k /\ Meet(m) /\ Index[p][k] # Index[q][k]
    OBVIOUS
  <2>3. m \in Below /\ (n # 0 => n - 1 \in Nat /\ n - 1 < n /\ n - 1 < k /\ k - 1 - (n - 1) = m + 1)
        /\ (n = 0 => m + 1 = k)
    BY <1>0, <2>2 DEF Below
  <2> HIDE DEF m
  <2>4. Meet(m + 1) /\ Index[p][m + 1] = Index[q][m + 1]
    BY <1>1, <2>2, <2>3
  <2>5. n # 0
    BY <2>2, <2>3, <2>4
  <2>6. n - 1 \in Bad
    BY <2>2, <2>3, <2>4, <2>5
  <2> QED
    BY <2>1, <2>2, <2>3, <2>5, <2>6
<1>3. SUFFICES ASSUME Index[p][k] # Index[q][k] PROVE FALSE
  OBVIOUS
<1> DEFINE n == k - 1 - l
<1>4. n \in Nat /\ n < k /\ k - 1 - n = l
  BY <1>0
<1>5. Meet(l)
  BY <1>0, <1>m DEF Meet
<1> HIDE DEF n
<1>6. n \in Bad
  BY <1>3, <1>4, <1>5
<1> QED
  BY <1>2, <1>6

-----------------------------------------------------------------------------
(* Entering a frame in a page table changes no table's place, and no walk but
   those that end in that slot. *)
Entering(e, t, s, x) == [e EXCEPT ![t][s] = x]

LEMMA EnterLemma ==
  ASSUME NEW e, Tree(e), NEW t \in ReachedIn(e)[0], NEW s \in Slot, NEW x \in Frame
  PROVE  LET f == Entering(e, t, s, x)
         IN /\ Tree(f)
            /\ \A l \in Level : ReachedIn(f)[l] = ReachedIn(e)[l]
            /\ \A p \in Page :
                 /\ \A l \in Level : WalkIn(f, p)[l] = WalkIn(e, p)[l]
                 /\ WalkIn(f, p)[-1] = IF WalkIn(e, p)[0] = t /\ Index[p][0] = s THEN x
                                       ELSE WalkIn(e, p)[-1]
<1> DEFINE f == Entering(e, t, s, x)
           R == ReachedIn(e)
<1>0. Root \in Nat \ {0} /\ 0 \in Level /\ Root - 1 \in Below
  BY Levels DEF Level, Below
<1>1. t \in Table /\ t # Null
  BY <1>0, TreeFacts, TableFacts
<1>2. /\ f \in Entries /\ DOMAIN f = Table /\ DOMAIN e = Table
      /\ \A u \in Table, r \in Slot : f[u][r] = IF u = t /\ r = s THEN x ELSE e[u][r]
  BY <1>1 DEF Tree, Entries, Entry, Entering
<1> HIDE DEF f
<1>3. ASSUME NEW l \in Below, NEW u \in R[l + 1]
      PROVE  u \in Table /\ u # t /\ \A r \in Slot : f[u][r] = e[u][r]
  <2>1. l + 1 \in Level /\ l + 1 # 0
    BY Levels DEF Below
  <2>2. u # t /\ u \in Table
    BY <1>0, <2>1, TreeFacts
  <2> QED
    BY <1>2, <2>2
<1>4. \A l \in Level : ReachedIn(f)[l] = R[l]
  <2>1. ASSUME NEW l \in Below PROVE R[l] = Children(f, R[l + 1])
    <3>1. R[l] = Children(e, R[l + 1])
      BY ReachedLemma
    <3>2. \A u \in R[l + 1], r \in Slot : f[u][r] = e[u][r]
      BY <1>3
    <3> HIDE DEF R
    <3> QED
      BY <3>1, <3>2 DEF Children
  <2>2. R[Root] = {Pml4}
    BY ReachedLemma
  <2> HIDE DEF R
  <2> QED
    BY <2>1, <2>2, ReachedUnique
<1>5. Tree(f)
  <2>1. InnerIn(f) = InnerIn(e)
    BY <1>4 DEF InnerIn
  <2>2. ASSUME NEW u \in InnerIn(e), NEW r \in Slot PROVE f[u][r] = e[u][r]
    <3>1. PICK l \in Level \ {0} : u \in R[l]
      BY <2>2 DEF InnerIn
    <3>2. l - 1 \in Below /\ (l - 1) + 1 = l
      BY Levels DEF Level, Below
    <3> QED
      BY <1>3, <3>1, <3>2
  <2>3. ASSUME NEW c PROVE LinksIn(f, c) = LinksIn(e, c)
    <3>1. ASSUME NEW p \in InnerIn(e) \X Slot PROVE f[p[1]][p[2]] = e[p[1]][p[2]]
      BY <2>2
    <3> QED
      BY <2>1, <3>1 DEF LinksIn
  <2>4. f[Pml4][Mirror] = e[Pml4][Mirror]
    <3>1. Pml4 \in R[(Root - 1) + 1]
      BY <1>0, ReachedLemma
    <3> QED
      BY <1>0, <1>3, <3>1, TableFacts
  <2>5. \A l \in Below : l \in Level
    BY Levels
  <2> HIDE DEF R
  <2> QED
    BY <1>2, <1>4, <2>3, <2>4, <2>5 DEF Tree, TreeIn, R
<1>6. ASSUME NEW p \in Page
      PROVE  /\ \A l \in Level : WalkIn(f, p)[l] = WalkIn(e, p)[l]
             /\ WalkIn(f, p)[-1] = IF WalkIn(e, p)[0] = t /\ Index[p][0] = s THEN x
                                   ELSE WalkIn(e, p)[-1]
  <2> DEFINE w == WalkIn(e, p)
  <2>d. /\ w[Root] = Pml4 /\ \A l \in -1 .. Root - 1 : w[l] = OneDown(e, p, w[l + 1], l)
        /\ \A l \in Level : w[l] \in R[l] \cup {Null}
    BY WalkLemma, WalkTables
  <2> HIDE DEF w
  <2>1. ASSUME NEW l \in 0 .. Root - 1 PROVE w[l] = OneDown(f, p, w[l + 1], l)
    <3>1. l \in Below /\ l \in -1 .. Root - 1 /\ l + 1 \in Level
      BY <1>0, Levels DEF Below
    <3>2. Index[p][l + 1] \in Slot
      BY <3>1, TableFacts
    <3>3. w[l + 1] # Null => f[w[l + 1]][Index[p][l + 1]] = e[w[l + 1]][Index[p][l + 1]]
      BY <1>3, <2>d, <3>1, <3>2
    <3> QED
      BY <2>d, <3>1, <3>3 DEF OneDown
  <2>2. \A l \in 0 .. Root : w[l] = WalkIn(f, p)[l]
    <3>1. 0 \in -1 .. Root
      BY <1>0
    <3> QED
      BY <2>d, <2>1, <3>1, WalkUnique
  <2>3. \A l \in Level : WalkIn(f, p)[l] = w[l]
    BY <2>2 DEF Level
  <2>4. -1 \in -1 .. Root - 1 /\ -1 + 1 = 0
    BY <1>0
  <2>5. WalkIn(f, p)[-1] = OneDown(f, p, w[0], -1) /\ w[-1] = OneDown(e, p, w[0], -1)
    BY <1>0, <2>d, <2>3, <2>4, WalkLemma
  <2>6. w[0] # Null => w[0] \in Table
    BY <1>0, <2>d, TreeFacts
  <2>7. Index[p][0] \in Slot
    BY <1>0, TableFacts
  <2>8. WalkIn(f, p)[-1] = IF w[0] = t /\ Index[p][0] = s THEN x ELSE w[-1]
    BY <1>1, <1>2, <2>4, <2>5, <2>6, <2>7 DEF OneDown
  <2> QED
    BY <2>3, <2>8 DEF w
<1> QED
  BY <1>4, <1>5, <1>6 DEF f

(* Linking a cleared table that was not linked adds it to its level, and maps
   and unmaps no page. *)
Linking(e, u, s, new) == [e EXCEPT ![new] = NoEntry, ![u][s] = new]

LEMMA LinkLemma ==
  ASSUME NEW e, Tree(e), NEW k \in Below, NEW u \in ReachedIn(e)[k + 1], NEW s \in Slot,
         e[u][s] = Null, NEW new \in Table, new \notin LinkedIn(e)
  PROVE  LET f == Linking(e, u, s, new)
         IN /\ Tree(f)
            /\ \A l \in Level : ReachedIn(f)[l] = ReachedIn(e)[l] \cup (IF l = k THEN {new} ELSE {})
            /\ \A p \in Page :
                 /\ \A l \in k + 1 .. Root : WalkIn(f, p)[l] = WalkIn(e, p)[l]
                 /\ WalkIn(e, p)[k + 1] = u /\ Index[p][k + 1] = s => WalkIn(f, p)[k] = new
                 /\ WalkIn(f, p)[-1] = WalkIn(e, p)[-1]
<1> DEFINE f == Linking(e, u, s, new)
           R == ReachedIn(e)
           Q == [l \in Level |-> R[l] \cup (IF l = k THEN {new} ELSE {})]
<1>0. /\ Root \in Nat \ {0} /\ k \in Nat /\ k < Root /\ k \in Level /\ k + 1 \in Level
      /\ k \in Below /\ Root - 1 \in Below /\ Root \in Level /\ k # Root
  BY Levels DEF Level, Below
<1>1. /\ u \in Table /\ u # Null /\ u # new /\ new # Null /\ new \in Frame /\ u \in R[k + 1]
      /\ \A l \in Level : new \notin R[l]
  BY <1>0, TreeFacts, TableFacts DEF LinkedIn
<1>2. /\ f \in Entries /\ DOMAIN f = Table
      /\ \A v \in Table, r \in Slot :
           f[v][r] = IF v = new THEN Null ELSE IF v = u /\ r = s THEN new ELSE e[v][r]
  BY <1>1 DEF Tree, Entries, Entry, NoEntry, Linking
<1>3. \A l \in Level : R[l] \subseteq Table
  BY TreeFacts
<1>c. \A l \in Below : R[l] = Children(e, R[l + 1])
  BY ReachedLemma
<1>e. e[u][s] = Null
  OBVIOUS
<1> HIDE DEF f
<1>q. \A l \in Level : Q[l] = R[l] \cup (IF l = k THEN {new} ELSE {})
  OBVIOUS
<1> HIDE DEF Q
<1>4. ASSUME NEW l \in Below PROVE Q[l] = Children(f, Q[l + 1])
  <2>1. l \in Level /\ l + 1 \in Level /\ l # l + 1
    BY Levels DEF Below
  <2>2. R[l] = Children(e, R[l + 1])
    BY <1>c
  <2>3. \A v \in R[l + 1] : v \in Table /\ v # new
    BY <1>1, <1>3, <2>1
  <2>4. CASE l = k
    <3>1. Q[l + 1] = R[k + 1] /\ Q[l] = R[k] \cup {new}
      BY <1>q, <2>1, <2>4
    <3>2. ASSUME NEW c PROVE c \in Children(f, R[k + 1]) <=> c \in R[k] \cup {new}
      <4>1. c \in Children(f, R[k + 1]) <=> c # Null /\ \E v \in R[k + 1], r \in Slot : c = f[v][r]
        BY DEF Children
      <4>2. c \in R[k] <=> c # Null /\ \E v \in R[k + 1], r \in Slot : c = e[v][r]
        BY <2>2, <2>4 DEF Children
      <4>3. \A v \in R[k + 1], r \in Slot : f[v][r] = IF v = u /\ r = s THEN new ELSE e[v][r]
        BY <1>2, <2>3, <2>4
      <4>4. ASSUME c = new PROVE c # Null /\ \E v \in R[k + 1], r \in Slot : c = f[v][r]
        BY <1>1, <4>3, <4>4
      <4>5. ASSUME c \in R[k] PROVE \E v \in R[k + 1], r \in Slot : c = f[v][r]
        <5>1. PICK v \in R[k + 1], r \in Slot : c = e[v][r]
          BY <4>2, <4>5
        <5>2. c # Null
          BY <4>2, <4>5
        <5>3. ~ (v = u /\ r = s)
          BY <1>e, <5>1, <5>2
        <5> QED
          BY <4>3, <5>1, <5>3
      <4>6. ASSUME NEW v \in R[k + 1], NEW r \in Slot, c = f[v][r], c # Null
            PROVE  c \in R[k] \cup {new}
        BY <4>2, <4>3, <4>6
      <4> QED
        BY <4>1, <4>2, <4>4, <4>5, <4>6
    <3> QED
      BY <2>4, <3>1, <3>2
  <2>5. CASE l # k
    <3>1. Q[l] = R[l]
      BY <1>q, <2>1, <2>5
    <3>2. \A v \in R[l + 1], r \in Slot : f[v][r] = e[v][r]
      <4>1. u \notin R[l + 1]
        <5>1. l + 1 # k + 1
          BY <1>0, <2>5 DEF Below
        <5> QED
          BY <1>0, <1>1, <2>1, <5>1, TreeFacts
      <4> QED
        BY <1>2, <2>3, <4>1
    <3>3. \A r \in Slot : f[new][r] = Null
      BY <1>2
    <3>4. Q[l + 1] = R[l + 1] \/ Q[l + 1] = R[l + 1] \cup {new}
      BY <1>q, <2>1
    <3>5. Children(f, R[l + 1]) = R[l] /\ Children(f, R[l + 1] \cup {new}) = R[l]
      BY <2>2, <3>2, <3>3 DEF Children
    <3> QED
      BY <3>1, <3>4, <3>5
  <2> QED
    BY <2>4, <2>5
<1>5. \A l \in Level : ReachedIn(f)[l] = Q[l]
  <2>1. Q[Root] = {Pml4}
    BY <1>0, <1>q, ReachedLemma
  <2> QED
    BY <1>4, <2>1, ReachedUnique
<1>t. R[Root] = {Pml4} /\ \A l, m \in Level : l # m => R[l] \cap R[m] = {}
  BY TreeFacts
<1> HIDE DEF R
<1>i. /\ \A v : v \in InnerIn(e) <=> \E l \in Level \ {0} : v \in R[l]
      /\ \A v : v \in InnerIn(f) <=> \E l \in Level \ {0} : v \in Q[l]
  BY <1>5 DEF InnerIn, R
<1>6. u \in InnerIn(e) /\ \A v \in InnerIn(e) : v \in InnerIn(f) /\ v \in Table /\ v # new
  <2>1. k + 1 \in Level \ {0}
    BY <1>0
  <2> QED
    BY <1>1, <1>3, <1>i, <1>q, <2>1
<1>7. \A v \in InnerIn(f) : v \in InnerIn(e) \/ v = new
  BY <1>i, <1>q
<1>8. ~ IsMirror(u, s)
  BY <1>e, TreeFacts DEF IsMirror
<1>9. ASSUME NEW p
      PROVE  /\ \A c : p \in LinksIn(e, c) <=> /\ p \in InnerIn(e) \X Slot /\ p # <<Pml4, Mirror>>
                                               /\ e[p[1]][p[2]] = c
             /\ \A c : p \in LinksIn(f, c) <=> /\ p \in InnerIn(f) \X Slot /\ p # <<Pml4, Mirror>>
                                               /\ f[p[1]][p[2]] = c
  BY DEF LinksIn
<1>10. ASSUME NEW c, c # Null, c # new PROVE LinksIn(f, c) = LinksIn(e, c)
  <2>1. ASSUME NEW p \in LinksIn(e, c) PROVE p \in LinksIn(f, c)
    <3>1. p \in InnerIn(e) \X Slot /\ e[p[1]][p[2]] = c /\ p # <<Pml4, Mirror>>
      BY <1>9
    <3>2. p[1] \in Table /\ p[2] \in Slot /\ p[1] # new /\ p \in InnerIn(f) \X Slot
      BY <1>6, <3>1
    <3>3. ~ (p[1] = u /\ p[2] = s)
      BY <1>10, <1>e, <3>1
    <3> QED
      BY <1>2, <1>9, <3>1, <3>2, <3>3
  <2>2. ASSUME NEW p \in LinksIn(f, c) PROVE p \in LinksIn(e, c)
    <3>1. p \in InnerIn(f) \X Slot /\ f[p[1]][p[2]] = c /\ p # <<Pml4, Mirror>>
      BY <1>9
    <3>2. p[1] # new
      BY <1>1, <1>2, <1>10, <3>1
    <3>3. p \in InnerIn(e) \X Slot
      BY <1>7, <3>1, <3>2
    <3>4. p[1] \in Table /\ p[2] \in Slot
      BY <1>6, <3>3
    <3>5. f[p[1]][p[2]] = e[p[1]][p[2]]
      BY <1>2, <1>10, <3>1, <3>2, <3>4
    <3> QED
      BY <1>9, <3>1, <3>3, <3>5
  <2> QED
    BY <2>1, <2>2
<1>11. LinksIn(f, new) = {<<u, s>>}
  <2>1. <<u, s>> \in LinksIn(f, new)
    <3>1. f[u][s] = new
      BY <1>1, <1>2
    <3>2. <<u, s>> \in InnerIn(f) \X Slot /\ <<u, s>> # <<Pml4, Mirror>>
      BY <1>6, <1>8 DEF IsMirror
    <3> QED
      BY <1>9, <3>1, <3>2
  <2>2. ASSUME NEW p \in LinksIn(f, new) PROVE p = <<u, s>>
    <3>1. p \in InnerIn(f) \X Slot /\ f[p[1]][p[2]] = new
      BY <1>9
    <3>2. p[1] # new
      BY <1>1, <1>2, <3>1
    <3>3. p[1] \in InnerIn(e) /\ p[2] \in Slot /\ p = <<p[1], p[2]>>
      BY <1>7, <3>1, <3>2
    <3>4. e[p[1]][p[2]] # new
      <4>1. PICK l \in Level \ {0} : p[1] \in R[l]
        BY <1>i, <3>3
      <4>2. l - 1 \in Below /\ (l - 1) + 1 = l /\ l - 1 \in Level
        BY Levels DEF Level, Below
      <4>3. p[1] \in R[(l - 1) + 1]
        BY <4>1, <4>2
      <4>4. e[p[1]][p[2]] # Null => e[p[1]][p[2]] \in R[l - 1]
        BY <1>c, <3>3, <4>2, <4>3 DEF Children
      <4> QED
        BY <1>1, <4>2, <4>4
    <3>5. p[1] \in Table
      BY <1>6, <3>3
    <3> QED
      BY <1>2, <3>1, <3>2, <3>3, <3>4, <3>5
  <2> QED
    BY <2>1, <2>2
<1>12. Tree(f)
  <2>1. \A l \in Level : ReachedIn(f)[l] \subseteq DOMAIN f
    BY <1>2, <1>3, <1>5, <1>q
  <2>2. \A l, m \in Level : l # m => ReachedIn(f)[l] \cap ReachedIn(f)[m] = {}
    BY <1>1, <1>5, <1>q, <1>t
  <2>3. ASSUME NEW l \in Below, NEW c \in ReachedIn(f)[l]
        PROVE  \E p \in LinksIn(f, c) : LinksIn(f, c) = {p}
    <3>1. CASE c = new
      BY <1>11, <3>1
    <3>2. CASE c # new
      <4>1. l \in Level /\ c \in R[l] /\ c # Null
        BY <1>3, <1>5, <1>q, <2>3, <3>2, Levels, TableFacts
      <4>2. \E p \in LinksIn(e, c) : LinksIn(e, c) = {p}
        BY <4>1 DEF Tree, TreeIn, R
      <4> QED
        BY <1>10, <3>2, <4>1, <4>2
    <3> QED
      BY <3>1, <3>2
  <2>4. f[Pml4][Mirror] # Null
    <3>1. Pml4 # new
      BY <1>0, <1>1, <1>t
    <3>2. Pml4 \in Table /\ Mirror \in Slot /\ e[Pml4][Mirror] # Null
      BY TableFacts, TreeFacts
    <3> QED
      BY <1>1, <1>2, <3>1, <3>2
  <2> QED
    BY <1>2, <2>1, <2>2, <2>3, <2>4 DEF Tree, TreeIn
<1>13. ASSUME NEW p \in Page
       PROVE  /\ \A l \in k + 1 .. Root : WalkIn(f, p)[l] = WalkIn(e, p)[l]
              /\ WalkIn(e, p)[k + 1] = u /\ Index[p][k + 1] = s => WalkIn(f, p)[k] = new
              /\ WalkIn(f, p)[-1] = WalkIn(e, p)[-1]
  <2> DEFINE w == WalkIn(e, p)
             v == WalkIn(f, p)
  <2>d. /\ w[Root] = Pml4 /\ \A l \in -1 .. Root - 1 : w[l] = OneDown(e, p, w[l + 1], l)
        /\ \A l \in Level : w[l] \in R[l] \cup {Null}
        /\ v[Root] = Pml4 /\ \A l \in -1 .. Root - 1 : v[l] = OneDown(f, p, v[l + 1], l)
        /\ \A l \in Level : v[l] \in Q[l] \cup {Null}
    BY <1>5, <1>12, WalkLemma, WalkTables DEF R
  <2>x. \A l \in Level : Index[p][l] \in Slot
    BY TableFacts
  <2> HIDE DEF w
  <2>1. ASSUME NEW l \in k + 1 .. Root - 1 PROVE w[l] = OneDown(f, p, w[l + 1], l)
    <3>1. l \in Below /\ l \in -1 .. Root - 1 /\ l + 1 \in Level /\ l + 1 # k + 1
      BY <1>0, Levels DEF Below
    <3>2. Index[p][l + 1] \in Slot
      BY <2>x, <3>1
    <3>3. w[l + 1] # Null => w[l + 1] \in Table /\ w[l + 1] # u /\ w[l + 1] # new
      BY <1>0, <1>1, <1>3, <1>t, <2>d, <3>1
    <3>4. w[l + 1] # Null => f[w[l + 1]][Index[p][l + 1]] = e[w[l + 1]][Index[p][l + 1]]
      BY <1>2, <3>2, <3>3
    <3> QED
      BY <2>d, <3>1, <3>4 DEF OneDown
  <2>2. \A l \in k + 1 .. Root : w[l] = v[l]
    <3>1. k + 1 \in -1 .. Root
      BY <1>0
    <3> QED
      BY <2>d, <2>1, <3>1, WalkUnique
  <2> HIDE DEF v
  <2>3. w[k + 1] = v[k + 1] /\ k \in -1 .. Root - 1 /\ Index[p][k + 1] \in Slot
    BY <1>0, <2>2, <2>x
  <2>4. w[k] = OneDown(e, p, w[k + 1], k) /\ v[k] = OneDown(f, p, w[k + 1], k)
    BY <2>d, <2>3
  <2>5. w[k + 1] # Null => w[k + 1] \in Table /\ w[k + 1] # new
    BY <1>0, <1>1, <1>3, <2>d
  <2>6. CASE w[k + 1] = u /\ Index[p][k + 1] = s
    <3>1. v[k] = new /\ w[k] = Null
      BY <1>1, <1>2, <1>e, <2>3, <2>4, <2>6 DEF OneDown
    (* Below the new table the walk finds nothing, as it found nothing before. *)
    <3>2. /\ \A l \in -1 .. k - 1 : v[l] = Null
          /\ \A l \in -1 .. k - 1 : w[l] = Null
      <4> DEFINE Bad == {n \in Nat : k - 1 - n \in -1 .. k - 1 /\ (v[k - 1 - n] # Null \/ w[k - 1 - n] # Null)}
      <4>1. ASSUME Bad # {} PROVE FALSE
        <5>1. PICK n \in Bad : \A m \in Bad : n <= m
          <6>1. Bad \subseteq Nat
            OBVIOUS
          <6> HIDE DEF Bad
          <6> QED
            BY <4>1, <6>1, Least
        <5>2. n \in Nat /\ k - 1 - n \in -1 .. k - 1 /\ (v[k - 1 - n] # Null \/ w[k - 1 - n] # Null)
          OBVIOUS
        <5> DEFINE l == k - 1 - n
                   m == n - 1
        <5>3. /\ l \in -1 .. Root - 1 /\ l \in -1 .. k - 1 /\ l + 1 \in Level
              /\ n = 0 => l + 1 = k
              /\ n # 0 => m \in Nat /\ m < n /\ k - 1 - m = l + 1 /\ l + 1 \in -1 .. k - 1
          BY <1>0, <5>2 DEF Level
        <5>4. n # 0 => m \notin Bad
          BY <5>1, <5>2, <5>3
        <5>5. v[l] # Null \/ w[l] # Null
          BY <5>2
        <5> HIDE DEF l, m
        <5>6. w[l + 1] = Null /\ (v[l + 1] = Null \/ v[l + 1] = new)
          BY <3>1, <5>3, <5>4
        <5>7. w[l] = OneDown(e, p, w[l + 1], l) /\ v[l] = OneDown(f, p, v[l + 1], l)
          BY <2>d, <5>3
        <5>8. f[new][Index[p][l + 1]] = Null
          BY <1>2, <2>x, <5>3
        <5> QED
          BY <5>5, <5>6, <5>7, <5>8 DEF OneDown
      <4>2. ASSUME NEW l \in -1 .. k - 1 PROVE v[l] = Null /\ w[l] = Null
        <5> DEFINE n == k - 1 - l
        <5>1. n \in Nat /\ k - 1 - n = l
          BY <1>0
        <5> HIDE DEF n
        <5> QED
          BY <4>1, <5>1
      <4> QED
        BY <4>2
    <3>3. v[-1] = Null /\ w[-1] = Null
      <4>1. -1 \in -1 .. k - 1
        BY <1>0
      <4> QED
        BY <3>2, <4>1
    <3> QED
      BY <2>2, <3>1, <3>3 DEF v, w
  <2>7. CASE ~ (w[k + 1] = u /\ Index[p][k + 1] = s)
    <3>1. v[k] = w[k]
      BY <1>2, <2>3, <2>4, <2>5, <2>7 DEF OneDown
    <3>2. ASSUME NEW l \in -1 .. Root - 1 PROVE w[l] = OneDown(f, p, w[l + 1], l)
      <4>1. CASE l > k
        <5>1. l \in k + 1 .. Root - 1
          BY <1>0, <4>1
        <5> QED
          BY <2>1, <5>1
      <4>2. CASE l = k
        BY <2>4, <3>1, <4>2
      <4>3. CASE l < k
        <5>1. l + 1 \in Level /\ l + 1 # k + 1
          BY <1>0, <4>3 DEF Level
        <5>2. w[l + 1] # Null => w[l + 1] \in Table /\ w[l + 1] # u /\ w[l + 1] # new
          BY <1>0, <1>1, <1>3, <1>t, <2>d, <5>1
        <5>3. w[l + 1] # Null => f[w[l + 1]][Index[p][l + 1]] = e[w[l + 1]][Index[p][l + 1]]
          BY <1>2, <2>x, <5>1, <5>2
        <5> QED
          BY <2>d, <5>3 DEF OneDown
      <4> QED
        BY <1>0, <4>1, <4>2, <4>3
    <3>3. \A l \in -1 .. Root : w[l] = v[l]
      <4>1. -1 \in -1 .. Root
        BY <1>0
      <4> QED
        BY <2>d, <3>2, <4>1, WalkUnique DEF v
    <3>4. w[-1] = v[-1]
      BY <1>0, <3>3
    <3> QED
      BY <2>2, <2>7, <3>4 DEF v, w
  <2> QED
    BY <2>6, <2>7
<1> QED
  BY <1>5, <1>12, <1>13, <1>q DEF f, R
-----------------------------------------------------------------------------
(* The inductive invariant.  TablesInv: the tables are a tree and none is     *)
(* lost.  WalkInv: what mmu_map_memory holds in its variables is what the     *)
(* walk of the page it is at finds, as far down as it has gone; all it ever   *)
(* holds are linked tables; and none of those is free before it has failed.   *)
PageNow == call.page + i
WalkedTo(e, a, page, low) == \A l \in Level : l >= low => a[l] # Null /\ a[l] = WalkIn(e, page)[l]

TablesInv == Tree(entry) /\ LinkedIn(entry) \cup pool = Table
WalkInv ==
  /\ pc \in {"idle", "walking", "failing"} /\ level \in Level
  /\ at \in [Level -> LinkedIn(entry) \cup {Null}] /\ got \in [Below -> BOOLEAN]
  /\ i \in Nat /\ GoodCall(call)
  /\ pc = "walking" => /\ i < call.count /\ ret = "NO_ERROR" /\ ~ Corrupted
                       /\ WalkedTo(entry, at, PageNow, level)
  /\ pc = "failing" => ret = "NO_MEMORY" /\ ~ Corrupted
  /\ Corrupted => pc = "idle" /\ ret = "NO_MEMORY" /\ \E l \in Below : got[l]
MmuInv == TablesInv /\ WalkInv

LEMMA LinkedLemma == Linked = LinkedIn(entry)
BY DEF Linked, LinkedIn, Reached

LEMMA MinLemma == ASSUME NEW S, S \subseteq Nat, S # {} PROVE Min(S) \in S
BY Least DEF Min

(* Rubbish in the free tables is not reached: what boot has linked is what is
   linked at first. *)
LEMMA InitTables ==
  ASSUME entry = [t \in Table |-> IF t \in Pool THEN Rubbish ELSE BootEntry[t]]
  PROVE  /\ Tree(entry) /\ LinkedIn(entry) = DOMAIN BootEntry
         /\ \A p \in Page : WalkIn(entry, p)[-1] = WalkIn(BootEntry, p)[-1]
<1> DEFINE B == BootEntry
<1>1. /\ entry \in Entries /\ DOMAIN entry = Table
      /\ \A t \in DOMAIN B, s \in Slot : entry[t][s] = B[t][s]
  BY PageTablesAssumption DEF Entries, Table
<1>2. TreeIn(B) /\ DOMAIN B = UNION {ReachedIn(B)[l] : l \in Level}
  BY BootTablesAssumption
<1> HIDE DEF B
<1>3. \A l \in Level : ReachedIn(B)[l] \subseteq DOMAIN B
  BY <1>2
<1>4. \A l \in Level : ReachedIn(B)[l] = ReachedIn(entry)[l]
  <2> DEFINE R == ReachedIn(B)
  <2>1. ASSUME NEW l \in Below PROVE R[l] = Children(entry, R[l + 1])
    <3>1. R[l] = Children(B, R[l + 1]) /\ R[l + 1] \subseteq DOMAIN B
      BY <1>3, Levels, ReachedLemma
    <3>2. \A t \in R[l + 1], s \in Slot : entry[t][s] = B[t][s]
      BY <1>1, <3>1
    <3> HIDE DEF R
    <3> QED
      BY <3>1, <3>2 DEF Children
  <2>2. R[Root] = {Pml4}
    BY ReachedLemma
  <2> HIDE DEF R
  <2>3. \A l \in Level : R[l] = ReachedIn(entry)[l]
    BY <2>1, <2>2, ReachedUnique
  <2> QED
    BY <2>3 DEF R
<1>5. InnerIn(entry) = InnerIn(B) /\ InnerIn(B) \subseteq DOMAIN B
  BY <1>3, <1>4 DEF InnerIn
<1>6. \A c : LinksIn(entry, c) = LinksIn(B, c)
  <2> SUFFICES ASSUME NEW c PROVE LinksIn(entry, c) = LinksIn(B, c)
    OBVIOUS
  <2>1. ASSUME NEW p \in InnerIn(B) \X Slot PROVE entry[p[1]][p[2]] = B[p[1]][p[2]]
    BY <1>1, <1>5
  <2> QED
    BY <1>5, <2>1 DEF LinksIn
<1>7. entry[Pml4][Mirror] # Null
  BY <1>1, <1>2, PageTablesAssumption DEF TreeIn, B
<1>8. Tree(entry)
  <2>1. \A l \in Level : ReachedIn(entry)[l] \subseteq DOMAIN entry
    BY <1>1, <1>3, <1>4 DEF Table, B
  <2>2. \A l \in Below : l \in Level
    BY Levels
  <2> QED
    BY <1>1, <1>2, <1>4, <1>6, <1>7, <2>1, <2>2 DEF Tree, TreeIn
<1>9. LinkedIn(entry) = DOMAIN B
  BY <1>2, <1>4 DEF LinkedIn
<1>10. ASSUME NEW p \in Page PROVE WalkIn(entry, p)[-1] = WalkIn(B, p)[-1]
  <2> DEFINE w == WalkIn(entry, p)
  <2>0. Root \in Nat /\ -1 \in -1 .. Root
    BY Levels
  <2>1. /\ w[Root] = Pml4 /\ \A l \in -1 .. Root - 1 : w[l] = OneDown(entry, p, w[l + 1], l)
        /\ \A l \in Level : w[l] \in ReachedIn(entry)[l] \cup {Null}
    BY <1>8, WalkLemma, WalkTables
  <2> HIDE DEF w
  <2>2. ASSUME NEW l \in -1 .. Root - 1 PROVE w[l] = OneDown(B, p, w[l + 1], l)
    <3>1. l + 1 \in Level
      BY <2>0 DEF Level
    <3>2. w[l + 1] # Null => w[l + 1] \in DOMAIN B
      BY <1>3, <1>4, <2>1, <3>1
    <3>3. Index[p][l + 1] \in Slot
      BY <3>1, TableFacts
    <3> QED
      BY <1>1, <2>1, <3>2, <3>3 DEF OneDown
  <2>3. \A l \in -1 .. Root : w[l] = WalkIn(B, p)[l]
    <3>1. w[Root] = Pml4
      BY <2>1
    <3>2. -1 \in -1 .. Root
      BY <2>0
    <3> HIDE DEF B
    <3> QED
      BY <2>2, <3>1, <3>2, WalkUnique
  <2> QED
    BY <2>0, <2>3 DEF w
<1> QED
  BY <1>8, <1>9, <1>10 DEF B

LEMMA MmuInitInv == MmuInit => MmuInv
<1> SUFFICES ASSUME MmuInit PROVE MmuInv
  OBVIOUS
<1>1. Tree(entry) /\ LinkedIn(entry) = DOMAIN BootEntry /\ pool = Pool
  BY InitTables DEF MmuInit
<1>2. TablesInv
  BY <1>1 DEF TablesInv, Table
<1>3. ~ Corrupted
  BY <1>1, LinkedLemma, PageTablesAssumption DEF Corrupted
<1>4. at \in [Level -> LinkedIn(entry) \cup {Null}] /\ got \in [Below -> BOOLEAN]
  BY <1>1, PageTablesAssumption DEF MmuInit, AtPml4, NothingGot
<1>5. i \in Nat /\ GoodCall(call) /\ level \in Level /\ pc = "idle"
  BY PageTablesAssumption, Levels DEF MmuInit, GoodCall, NoCall
<1> QED
  BY <1>2, <1>3, <1>4, <1>5 DEF MmuInv, WalkInv

LEMMA MapMemoryInv ==
  ASSUME MmuInv, NEW c, GoodCall(c), MapMemory(c)
  PROVE  MmuInv'
<1>1. UNCHANGED <<entry, pool>> /\ Corrupted' = Corrupted /\ ~ Corrupted
  BY DEF MapMemory, Corrupted, Linked, Reached
<1>2. TablesInv'
  BY <1>1 DEF MmuInv, TablesInv
<1>3. Root \in Level /\ Root \in Nat /\ \A l \in Level : l >= Root => l = Root
  BY Levels DEF Level
<1>4. Tree(entry) /\ Pml4 \in LinkedIn(entry) /\ Pml4 # Null
  BY <1>3, TreeFacts, TableFacts DEF MmuInv, TablesInv, LinkedIn
<1>5. at' \in [Level -> LinkedIn(entry') \cup {Null}] /\ got' \in [Below -> BOOLEAN]
  BY <1>1, <1>4 DEF MapMemory, AtPml4, NothingGot
<1>6. WalkedTo(entry', at', call'.page + i', level')
  BY <1>3, <1>4, WalkLemma DEF WalkedTo, MapMemory, AtPml4
<1>7. /\ level' \in Level /\ i' \in Nat /\ GoodCall(call') /\ pc' \in {"idle", "walking"}
      /\ pc' = "walking" => i' < call'.count /\ ret' = "NO_ERROR"
  BY <1>3 DEF MapMemory, GoodCall
<1> QED
  BY <1>1, <1>2, <1>5, <1>6, <1>7 DEF MmuInv, WalkInv, PageNow

(* Where mmu_map_memory is: at the table that the walk of the page has found,
   in the slot that leads on. *)
LEMMA HereFacts ==
  ASSUME MmuInv, pc = "walking"
  PROVE  /\ Tree(entry) /\ ~ Corrupted /\ PageNow \in Page /\ PhysicalAddr \in Frame
         /\ level \in Level /\ at[level] \in ReachedIn(entry)[level]
         /\ at[level] = WalkIn(entry, PageNow)[level]
         /\ Here \in Slot /\ Here = Index[PageNow][level]
         /\ Found = WalkIn(entry, PageNow)[level - 1]
         /\ level > 0 => level - 1 \in Below /\ level - 1 \in Level /\ (level - 1) + 1 = level
<1>1. /\ Tree(entry) /\ ~ Corrupted /\ level \in Level /\ i \in Nat /\ i < call.count
      /\ GoodCall(call) /\ WalkedTo(entry, at, PageNow, level)
  BY DEF MmuInv, TablesInv, WalkInv
<1>2. PageNow \in Page /\ PhysicalAddr \in Frame
  <2>1. PageCount \in Nat /\ FrameCount \in Nat
    BY PageTablesAssumption
  <2>2. /\ call.page \in Nat /\ call.frame \in Nat /\ call.count \in Nat
        /\ call.page + call.count <= PageCount /\ call.frame + call.count <= FrameCount
    BY <1>1 DEF GoodCall
  <2> QED
    BY <1>1, <2>1, <2>2 DEF PageNow, PhysicalAddr, Page, Frame
<1>3. level >= level /\ level \in Nat /\ level \in 0 .. Root /\ Root \in Nat
  BY <1>1, Levels DEF Level
<1>4. at[level] # Null /\ at[level] = WalkIn(entry, PageNow)[level]
  BY <1>1, <1>3 DEF WalkedTo
<1>5. at[level] \in ReachedIn(entry)[level]
  BY <1>1, <1>2, <1>4, WalkTables
<1>6. Here \in Slot /\ Here = Index[PageNow][level]
  BY <1>1, <1>2, TableFacts DEF Here, PageNow
<1>7. Found = WalkIn(entry, PageNow)[level - 1]
  <2> DEFINE w == WalkIn(entry, PageNow)
             l == level - 1
  <2>1. l \in -1 .. Root - 1 /\ l + 1 = level
    BY <1>3
  <2>2. w[l] = OneDown(entry, PageNow, w[l + 1], l)
    BY <2>1, WalkLemma
  <2> HIDE DEF w, l
  <2>3. w[l] = OneDown(entry, PageNow, w[level], l)
    BY <2>1, <2>2
  <2>4. w[level] = at[level]
    BY <1>4 DEF w
  <2>5. w[l] = entry[at[level]][Index[PageNow][level]]
    BY <1>4, <2>1, <2>3, <2>4 DEF OneDown
  <2> QED
    BY <1>6, <2>5 DEF Found, w, l
<1>8. level > 0 => level - 1 \in Below /\ level - 1 \in Level /\ (level - 1) + 1 = level
  BY <1>3 DEF Below, Level
<1> QED
  BY <1>1, <1>2, <1>4, <1>5, <1>6, <1>7, <1>8

(* One more level of the walk is held. *)
LEMMA WalkedOn ==
  ASSUME NEW e, NEW a, NEW page, NEW low \in Level, low > 0, NEW x,
         x # Null, x = WalkIn(e, page)[low - 1],
         a \in [Level -> Int], WalkedTo(e, a, page, low)
  PROVE  WalkedTo(e, [a EXCEPT ![low - 1] = x], page, low - 1)
<1> DEFINE b == [a EXCEPT ![low - 1] = x]
<1>1. Root \in Nat /\ low \in Nat /\ low - 1 \in Level
  BY Levels DEF Level
<1>2. ASSUME NEW l \in Level, l >= low - 1 PROVE b[l] # Null /\ b[l] = WalkIn(e, page)[l]
  <2>1. CASE l = low - 1
    BY <1>1, <2>1
  <2>2. CASE l # low - 1
    <3>1. l >= low
      BY <1>1, <1>2, <2>2 DEF Level
    <3>2. b[l] = a[l]
      BY <2>2
    <3> QED
      BY <3>1, <3>2 DEF WalkedTo
  <2> QED
    BY <2>1, <2>2
<1> QED
  BY <1>2 DEF WalkedTo

LEMMA DescendInv ==
  ASSUME MmuInv, Descend PROVE MmuInv'
<1>1. /\ UNCHANGED <<entry, pool, pc, call, i, got, ret>> /\ pc = "walking" /\ level > 0
      /\ Corrupted' = Corrupted /\ Found # Null
      /\ level' = level - 1 /\ at' = [at EXCEPT ![level - 1] = Found]
  BY DEF Descend, Corrupted, Linked, Reached
<1>2. /\ level - 1 \in Level /\ level \in Level /\ Found = WalkIn(entry, PageNow)[level - 1]
      /\ Tree(entry) /\ PageNow \in Page
  BY <1>1, HereFacts
<1>3. Found \in LinkedIn(entry)
  BY <1>1, <1>2, WalkTables DEF LinkedIn
<1>4. at \in [Level -> LinkedIn(entry) \cup {Null}] /\ WalkedTo(entry, at, PageNow, level)
  BY <1>1 DEF MmuInv, WalkInv
<1>5. LinkedIn(entry) \cup {Null} \subseteq Int
  <2>1. LinkedIn(entry) \subseteq Table
    BY <1>2, TreeFacts DEF LinkedIn
  <2> QED
    BY <2>1, TableFacts
<1>6. WalkedTo(entry, at', PageNow, level')
  <2>1. at \in [Level -> Int]
    BY <1>4, <1>5
  <2> HIDE DEF Found
  <2> QED
    BY <1>1, <1>2, <1>4, <2>1, WalkedOn
<1>7. at' \in [Level -> LinkedIn(entry) \cup {Null}]
  <2> HIDE DEF Found
  <2> QED
    BY <1>1, <1>2, <1>3, <1>4
<1> QED
  BY <1>1, <1>2, <1>6, <1>7 DEF MmuInv, TablesInv, WalkInv, PageNow

(* What alloc_table and linking the new table do to the tables. *)
LEMMA AllocTableFacts ==
  ASSUME MmuInv, AllocTable
  PROVE  LET new == Min(pool)
         IN /\ new \in pool /\ new \in Table /\ new # Null
            /\ Tree(entry') /\ LinkedIn(entry') = LinkedIn(entry) \cup {new}
            /\ ~ Corrupted /\ ~ Corrupted'
            /\ \A p \in Page : VirtToPhys(p)' = VirtToPhys(p)
            /\ \A l \in level .. Root : WalkIn(entry', PageNow)[l] = WalkIn(entry, PageNow)[l]
            /\ WalkIn(entry', PageNow)[level - 1] = new
<1> DEFINE new == Min(pool)
           u == at[level]
           s == Here
           k == level - 1
           f == Linking(entry, u, s, new)
<1>1. /\ pc = "walking" /\ level > 0 /\ Found = Null /\ pool # {}
      /\ entry' = f /\ pool' = pool \ {new}
  BY DEF AllocTable, WithTable, Linking
<1>2. /\ Tree(entry) /\ ~ Corrupted /\ PageNow \in Page /\ k \in Below /\ k \in Level /\ k + 1 = level
      /\ u \in ReachedIn(entry)[level] /\ s \in Slot /\ s = Index[PageNow][level]
      /\ u = WalkIn(entry, PageNow)[level]
  BY <1>1, HereFacts
<1>3. entry[u][s] = Null
  BY <1>1 DEF Found
<1>4. new \in pool /\ new \in Table /\ new # Null
  <2>1. pool \subseteq Table
    BY DEF MmuInv, TablesInv
  <2>2. Table \subseteq Nat
    BY TableFacts
  <2>3. new \in pool
    BY <1>1, <2>1, <2>2, MinLemma
  <2> QED
    BY <2>1, <2>3, TableFacts
<1>5. new \notin LinkedIn(entry)
  BY <1>2, <1>4, LinkedLemma DEF Corrupted
<1> HIDE DEF new, u, s, k
<1>6. /\ Tree(f)
      /\ \A l \in Level : ReachedIn(f)[l] = ReachedIn(entry)[l] \cup (IF l = k THEN {new} ELSE {})
      /\ \A p \in Page :
           /\ \A l \in k + 1 .. Root : WalkIn(f, p)[l] = WalkIn(entry, p)[l]
           /\ WalkIn(entry, p)[k + 1] = u /\ Index[p][k + 1] = s => WalkIn(f, p)[k] = new
           /\ WalkIn(f, p)[-1] = WalkIn(entry, p)[-1]
  <2>1. /\ Tree(entry) /\ k \in Below /\ u \in ReachedIn(entry)[k + 1] /\ s \in Slot
        /\ entry[u][s] = Null /\ new \in Table /\ new \notin LinkedIn(entry)
    BY <1>2, <1>3, <1>4, <1>5
  <2> QED
    BY <2>1, LinkLemma
<1> HIDE DEF f
<1>7. LinkedIn(f) = LinkedIn(entry) \cup {new}
  BY <1>2, <1>6 DEF LinkedIn
<1>8. ~ Corrupted'
  <2>1. LinkedIn(entry) \cap pool = {}
    BY <1>2, LinkedLemma DEF Corrupted
  <2>2. Linked' = LinkedIn(entry')
    BY DEF Linked, LinkedIn, Reached
  <2> QED
    BY <1>1, <1>7, <2>1, <2>2 DEF Corrupted
<1>9. \A p \in Page : VirtToPhys(p)' = VirtToPhys(p)
  BY <1>1, <1>6 DEF VirtToPhys
<1>10. WalkIn(f, PageNow)[k] = new
  BY <1>2, <1>6
<1>11. \A l \in level .. Root : WalkIn(f, PageNow)[l] = WalkIn(entry, PageNow)[l]
  BY <1>2, <1>6
<1> QED
  BY <1>1, <1>2, <1>4, <1>6, <1>7, <1>8, <1>9, <1>10, <1>11 DEF new, k

LEMMA AllocTableInv ==
  ASSUME MmuInv, AllocTable PROVE MmuInv'
<1> DEFINE new == Min(pool)
<1>1. /\ UNCHANGED <<pc, call, i, ret>> /\ pc = "walking" /\ level > 0
      /\ level' = level - 1 /\ at' = [at EXCEPT ![level - 1] = new]
      /\ got' = [got EXCEPT ![level - 1] = TRUE] /\ pool' = pool \ {new}
  BY DEF AllocTable
<1>2. /\ level - 1 \in Level /\ level - 1 \in Below /\ level \in Level /\ PageNow \in Page
  BY <1>1, HereFacts
<1>3. /\ new \in pool /\ new \in Table /\ new # Null
      /\ Tree(entry') /\ LinkedIn(entry') = LinkedIn(entry) \cup {new}
      /\ ~ Corrupted'
      /\ \A l \in level .. Root : WalkIn(entry', PageNow)[l] = WalkIn(entry, PageNow)[l]
      /\ WalkIn(entry', PageNow)[level - 1] = new
  BY AllocTableFacts
<1> HIDE DEF new
<1>4. /\ at \in [Level -> LinkedIn(entry) \cup {Null}] /\ WalkedTo(entry, at, PageNow, level)
      /\ got \in [Below -> BOOLEAN] /\ LinkedIn(entry) \cup pool = Table
  BY <1>1 DEF MmuInv, WalkInv, TablesInv
<1>5. WalkedTo(entry', at, PageNow, level)
  BY <1>2, <1>3, <1>4 DEF WalkedTo, Level
<1>6. at \in [Level -> Int]
  <2>1. LinkedIn(entry) \cup {Null} \subseteq Int
    <3>1. LinkedIn(entry) \subseteq Table
      BY <1>4
    <3> QED
      BY <3>1, TableFacts
  <2> QED
    BY <1>4, <2>1
<1>7. WalkedTo(entry', at', PageNow, level')
  BY <1>1, <1>2, <1>3, <1>5, <1>6, WalkedOn
<1>8. at' \in [Level -> LinkedIn(entry') \cup {Null}]
  BY <1>1, <1>2, <1>3, <1>4
<1>9. got' \in [Below -> BOOLEAN]
  BY <1>1, <1>2, <1>4
<1>10. LinkedIn(entry') \cup pool' = Table
  BY <1>1, <1>3, <1>4
<1> QED
  BY <1>1, <1>2, <1>3, <1>7, <1>8, <1>9, <1>10 DEF MmuInv, TablesInv, WalkInv, PageNow

LEMMA NoTableInv ==
  ASSUME MmuInv, NoTable PROVE MmuInv'
<1>1. /\ UNCHANGED <<entry, pool, call, i, level, got>> /\ pc = "walking" /\ level > 0
      /\ Corrupted' = Corrupted /\ pc' = "failing" /\ ret' = "NO_MEMORY"
      /\ at' = [at EXCEPT ![level - 1] = Null]
  BY DEF NoTable, Corrupted, Linked, Reached
<1>2. level - 1 \in Level /\ ~ Corrupted
  BY <1>1, HereFacts
<1>3. at' \in [Level -> LinkedIn(entry) \cup {Null}]
  BY <1>1, <1>2 DEF MmuInv, WalkInv
<1> QED
  BY <1>1, <1>2, <1>3 DEF MmuInv, TablesInv, WalkInv

LEMMA ErrorPathInv ==
  ASSUME MmuInv, ErrorPath PROVE MmuInv'
<1>1. /\ UNCHANGED <<entry, call, i, level, at, got, ret>> /\ pc = "failing"
      /\ pc' = "idle" /\ pool' = pool \cup (Freed \ {Null})
  BY DEF ErrorPath
<1>2. ret = "NO_MEMORY" /\ ~ Corrupted /\ at \in [Level -> LinkedIn(entry) \cup {Null}]
  BY <1>1 DEF MmuInv, WalkInv
<1>3. Freed \subseteq LinkedIn(entry) \cup {Null}
  BY <1>2, Levels DEF Freed
<1>4. LinkedIn(entry') \cup pool' = Table
  BY <1>1, <1>3 DEF MmuInv, TablesInv
<1>5. Corrupted' => \E l \in Below : got[l]
  <2>1. Linked' = Linked
    BY <1>1 DEF Linked, Reached
  <2> QED
    BY <1>1, <1>2, <2>1 DEF Corrupted, Freed
<1> QED
  BY <1>1, <1>2, <1>4, <1>5 DEF MmuInv, TablesInv, WalkInv

(* Two pages whose walks end in the same slot are the same, unless one of     *)
(* them goes through the mirror.                                              *)
LEMMA SamePage ==
  ASSUME NEW e, Tree(e), NEW p \in Own, NEW q \in Own,
         WalkIn(e, p)[0] = WalkIn(e, q)[0], WalkIn(e, p)[0] # Null, Index[p][0] = Index[q][0]
  PROVE  p = q
<1>1. p \in Page /\ q \in Page /\ Index[p][Root] # Mirror /\ Index[q][Root] # Mirror
  BY DEF Own
<1>2. 0 \in Level /\ \A k \in Level : k = 0 \/ k > 0
  BY Levels DEF Level
<1>3. ASSUME NEW k \in Level PROVE Index[p][k] = Index[q][k]
  BY <1>1, <1>2, WalksMeet
<1>4. Index \in [Page -> [Level -> Slot]]
  BY PageTablesAssumption
<1>5. Index[p] = Index[q]
  BY <1>1, <1>3, <1>4
<1> QED
  BY <1>1, <1>5, PageTablesAssumption

(* What entering a page does to the tables.  That no other page is mapped     *)
(* takes a call for pages that are not reached through the mirror.            *)
LEMMA EnterPageFacts ==
  ASSUME MmuInv, EnterPage
  PROVE  /\ Tree(entry') /\ LinkedIn(entry') = LinkedIn(entry) /\ ~ Corrupted /\ ~ Corrupted'
         /\ \A p \in Page : WalkIn(entry', p)[Root] = WalkIn(entry, p)[Root]
         /\ PageNow \in Page /\ PhysicalAddr \in Frame
         /\ WalkIn(entry', PageNow)[-1] = PhysicalAddr
         /\ PageNow \in Own =>
              \A p \in Own \ {PageNow} : VirtToPhys(p)' = VirtToPhys(p)
<1> DEFINE t == at[0]
           s == Here
           x == PhysicalAddr
           w == WalkIn(entry, PageNow)
<1>1. pc = "walking" /\ level = 0 /\ UNCHANGED pool /\ entry' = Entering(entry, t, s, x)
  BY DEF EnterPage, Entering
<1>2. /\ Tree(entry) /\ ~ Corrupted /\ PageNow \in Page /\ x \in Frame
      /\ t \in ReachedIn(entry)[0] /\ s \in Slot /\ s = Index[PageNow][0] /\ t = w[0]
  BY <1>1, HereFacts
<1>0. 0 \in Level /\ Root \in Level
  BY Levels DEF Level
<1> HIDE DEF t, s, x
<1> DEFINE f == Entering(entry, t, s, x)
<1>3. /\ Tree(f)
      /\ \A l \in Level : ReachedIn(f)[l] = ReachedIn(entry)[l]
      /\ \A p \in Page :
           /\ \A l \in Level : WalkIn(f, p)[l] = WalkIn(entry, p)[l]
           /\ WalkIn(f, p)[-1] = IF WalkIn(entry, p)[0] = t /\ Index[p][0] = s THEN x
                                 ELSE WalkIn(entry, p)[-1]
  BY <1>2, EnterLemma
<1>e. entry' = f
  BY <1>1
<1> HIDE DEF f
<1>4. LinkedIn(f) = LinkedIn(entry)
  BY <1>3 DEF LinkedIn
<1>5. ~ Corrupted'
  <2>1. Linked' = LinkedIn(entry') /\ Linked = LinkedIn(entry)
    BY DEF Linked, LinkedIn, Reached
  <2> QED
    BY <1>1, <1>2, <1>4, <1>e, <2>1 DEF Corrupted
<1>6. WalkIn(f, PageNow)[-1] = x
  BY <1>2, <1>3
<1>7. ASSUME PageNow \in Own, NEW p \in Own \ {PageNow}
      PROVE  VirtToPhys(p)' = VirtToPhys(p)
  <2>1. p \in Page /\ p \in Own /\ p # PageNow
    BY <1>7 DEF Own
  <2>2. t # Null
    <3>1. t \in Table
      BY <1>0, <1>2, TreeFacts
    <3> QED
      BY <3>1, TableFacts
  <2>3. ~ (WalkIn(entry, p)[0] = t /\ Index[p][0] = s)
    BY <1>2, <1>7, <2>1, <2>2, SamePage
  <2>4. WalkIn(f, p)[-1] = WalkIn(entry, p)[-1]
    BY <1>3, <2>1, <2>3
  <2> QED
    BY <1>e, <2>4 DEF VirtToPhys
<1> QED
  BY <1>0, <1>2, <1>3, <1>4, <1>5, <1>6, <1>7, <1>e DEF x

LEMMA EnterPageInv ==
  ASSUME MmuInv, EnterPage PROVE MmuInv'
<1>1. /\ UNCHANGED <<pool, call, at, got, ret>> /\ pc = "walking" /\ level = 0
      /\ i' = i + 1 /\ level' = Root /\ pc' = IF i + 1 >= call.count THEN "idle" ELSE "walking"
  BY DEF EnterPage, NextPage, LastPage
<1>2. /\ Tree(entry') /\ LinkedIn(entry') = LinkedIn(entry) /\ ~ Corrupted'
  BY EnterPageFacts
<1>3. /\ WalkedTo(entry, at, PageNow, level) /\ ret = "NO_ERROR" /\ i \in Nat /\ GoodCall(call)
      /\ at \in [Level -> LinkedIn(entry) \cup {Null}] /\ got \in [Below -> BOOLEAN]
  BY <1>1 DEF MmuInv, WalkInv
<1>4. Root \in Level /\ Root >= 0 /\ \A l \in Level : l >= Root => l = Root
  BY Levels DEF Level
<1>5. at[Root] # Null /\ at[Root] = Pml4
  BY <1>1, <1>3, <1>4, WalkLemma DEF WalkedTo
<1>6. WalkedTo(entry', at', PageNow', level')
  BY <1>1, <1>4, <1>5, WalkLemma DEF WalkedTo
<1>7. /\ i' \in Nat /\ pc' \in {"idle", "walking"} /\ level' \in Level
      /\ pc' = "walking" => i' < call'.count
  BY <1>1, <1>3, <1>4 DEF GoodCall
<1>8. TablesInv'
  BY <1>1, <1>2 DEF MmuInv, TablesInv
<1> QED
  BY <1>1, <1>2, <1>3, <1>6, <1>7, <1>8 DEF MmuInv, WalkInv

LEMMA StepInv == ASSUME MmuInv, Step PROVE MmuInv'
BY DescendInv, AllocTableInv, NoTableInv, EnterPageInv, ErrorPathInv DEF Step

LEMMA MmuStutter ==
  ASSUME UNCHANGED mmuVars
  PROVE  /\ MmuInv => MmuInv'
         /\ UNCHANGED (AddressSpace!vars)
         /\ Corrupted' = Corrupted /\ \A p : VirtToPhys(p)' = VirtToPhys(p)
<1>1. UNCHANGED <<entry, pool, pc, call, i, level, at, got, ret>>
  BY DEF mmuVars
<1>2. Corrupted' = Corrupted /\ \A p : VirtToPhys(p)' = VirtToPhys(p)
  BY <1>1 DEF Corrupted, Linked, Reached, VirtToPhys
<1>3. MmuInv => MmuInv'
  BY <1>1, <1>2 DEF MmuInv, TablesInv, WalkInv, PageNow
<1>4. UNCHANGED (AddressSpace!vars)
  BY <1>1, <1>2 DEF AddressSpace!vars, Asked
<1> QED
  BY <1>2, <1>3, <1>4

(* What the invariant says of the tables and of the pool. *)
LEMMA MmuResults == MmuInv => TablesAccounted /\ CorruptedOnlyByFailure
<1> SUFFICES ASSUME MmuInv PROVE TablesAccounted /\ CorruptedOnlyByFailure
  OBVIOUS
<1>1. CorruptedOnlyByFailure
  BY DEF MmuInv, WalkInv, CorruptedOnlyByFailure
<1>2. Linked \cup pool = Table
  BY LinkedLemma DEF MmuInv, TablesInv
<1>3. ASSUME NEW t \in Linked \ {Pml4} PROVE \E p \in LinksIn(entry, t) : LinksIn(entry, t) = {p}
  <2>1. PICK l \in Level : t \in ReachedIn(entry)[l]
    BY <1>3, LinkedLemma DEF LinkedIn
  <2>2. l # Root
    BY <1>3, <2>1, ReachedLemma
  <2>3. l \in Below
    BY <2>1, <2>2, Levels
  <2> QED
    BY <2>1, <2>3 DEF MmuInv, TablesInv, Tree, TreeIn
<1> QED
  BY <1>1, <1>2, <1>3 DEF TablesAccounted

-----------------------------------------------------------------------------
(* The tables implement AddressMap: of calls for pages that are not reached   *)
(* through the mirror, every step is a step of it or changes nothing there.   *)
OwnInv == pc # "idle" => OwnPages(call)
AskedFrom(c, n) == {[page |-> c.page + k, frame |-> c.frame + k] : k \in n .. c.count - 1}

LEMMA MapInit == MmuInit => AddressSpace!Init
<1> SUFFICES ASSUME MmuInit PROVE AddressSpace!Init
  OBVIOUS
<1>1. Tree(entry) /\ LinkedIn(entry) = DOMAIN BootEntry /\ pool = Pool /\ pc = "idle"
  BY InitTables DEF MmuInit
<1>2. [p \in Own |-> VirtToPhys(p)] \in [Own -> Frame \cup {Null}]
  <2>1. ASSUME NEW p \in Own PROVE VirtToPhys(p) \in Frame \cup {Null}
    BY <1>1, WalkTables DEF Own, VirtToPhys
  <2> QED
    BY <2>1
<1>3. Corrupted = FALSE
  BY <1>1, LinkedLemma, PageTablesAssumption DEF Corrupted
<1>4. Asked = {}
  BY <1>1 DEF Asked
<1> QED
  BY <1>2, <1>3, <1>4 DEF AddressSpace!Init

LEMMA AskStep ==
  ASSUME MmuInv, NEW c, GoodCall(c), OwnPages(c), MapMemory(c)
  PROVE  AddressSpace!Ask
<1>1. /\ UNCHANGED entry /\ Corrupted' = Corrupted /\ ~ Corrupted
      /\ pc = "idle" /\ call' = c /\ i' = 0
  BY DEF MapMemory, Corrupted, Linked, Reached
<1>2. UNCHANGED [p \in Own |-> VirtToPhys(p)]
  BY <1>1 DEF VirtToPhys
<1>3. Asked = {}
  BY <1>1 DEF Asked
<1>4. Asked' = {} \/ Asked' = AskedFrom(c, 0)
  BY <1>1 DEF Asked, AskedFrom
<1>5. /\ c.page \in Nat /\ c.frame \in Nat /\ c.count \in Nat /\ FrameCount \in Nat
      /\ c.frame + c.count <= FrameCount
  BY PageTablesAssumption DEF GoodCall
<1>6. AskedFrom(c, 0) \subseteq [page : Own, frame : Frame]
  <2> SUFFICES ASSUME NEW k \in 0 .. c.count - 1
               PROVE  c.page + k \in Own /\ c.frame + k \in Frame
    BY DEF AskedFrom
  <2> QED
    BY <1>5 DEF OwnPages, Frame
<1>7. \A a, b \in AskedFrom(c, 0) : a.page = b.page => a = b
  <2> SUFFICES ASSUME NEW k \in 0 .. c.count - 1, NEW l \in 0 .. c.count - 1,
                      c.page + k = c.page + l
               PROVE  k = l
    BY DEF AskedFrom
  <2> QED
    BY <1>5
<1> QED
  BY <1>1, <1>2, <1>3, <1>4, <1>6, <1>7 DEF AddressSpace!Ask

LEMMA StepRefines ==
  ASSUME MmuInv, OwnInv, Step
  PROVE  [AddressSpace!Next]_(AddressSpace!vars)
<1> DEFINE Map == [p \in Own |-> VirtToPhys(p)]
<1>1. CASE Descend
  BY <1>1 DEF Descend, AddressSpace!vars, Asked, Corrupted, Linked, Reached, VirtToPhys
<1>2. CASE AllocTable
  <2>1. UNCHANGED Asked
    BY <1>2 DEF AllocTable, Asked
  <2>2. ~ Corrupted /\ ~ Corrupted'
    BY <1>2, AllocTableFacts
  <2>3. \A p \in Page : VirtToPhys(p)' = VirtToPhys(p)
    BY <1>2, AllocTableFacts
  <2>4. UNCHANGED Map
    BY <2>3 DEF Own
  <2>5. Corrupted' = Corrupted
    BY <2>2 DEF Corrupted
  <2> QED
    BY <2>1, <2>4, <2>5 DEF AddressSpace!vars
<1>3. CASE NoTable
  <2>1. UNCHANGED <<entry, pool>> /\ pc = "walking" /\ pc' = "failing"
    BY <1>3 DEF NoTable
  <2>2. ~ Corrupted /\ Corrupted' = Corrupted /\ UNCHANGED Map /\ Asked' = {}
    BY <2>1, HereFacts DEF Corrupted, Linked, Reached, VirtToPhys, Asked
  <2> QED
    BY <2>2 DEF AddressSpace!Next, AddressSpace!GiveUp
<1>4. CASE EnterPage
  <2> DEFINE a == [page |-> PageNow, frame |-> PhysicalAddr]
  <2>1. /\ UNCHANGED call /\ pc = "walking" /\ i' = i + 1
        /\ pc' = IF i + 1 >= call.count THEN "idle" ELSE "walking"
    BY <1>4 DEF EnterPage, NextPage, LastPage
  <2>2. i \in Nat /\ i < call.count /\ GoodCall(call) /\ OwnPages(call)
    BY <2>1 DEF MmuInv, WalkInv, OwnInv
  <2>3. call.count \in Nat /\ call.page \in Nat /\ call.frame \in Nat /\ i \in 0 .. call.count - 1
    BY <2>2 DEF GoodCall
  <2>4. PageNow \in Own
    BY <2>2, <2>3 DEF OwnPages, PageNow
  <2>5. Asked = AskedFrom(call, i)
    BY <2>1 DEF Asked, AskedFrom
  <2>6. a \in Asked
    <3>1. i \in i .. call.count - 1
      BY <2>3
    <3> QED
      BY <2>5, <3>1 DEF AskedFrom, PageNow, PhysicalAddr
  <2>7. AskedFrom(call, i) \ {a} = AskedFrom(call, i + 1)
    <3>1. ASSUME NEW k \in i .. call.count - 1
          PROVE  [page |-> call.page + k, frame |-> call.frame + k] = a <=> k = i
      <4>1. call.page + k = call.page + i <=> k = i
        BY <2>3
      <4> QED
        BY <4>1 DEF PageNow, PhysicalAddr
    <3>2. \A k : k \in i + 1 .. call.count - 1 <=> k \in i .. call.count - 1 /\ k # i
      BY <2>3
    <3> HIDE DEF a
    <3> QED
      BY <3>1, <3>2 DEF AskedFrom
  <2>8. Asked' = AskedFrom(call, i + 1)
    <3>1. CASE i + 1 >= call.count
      <4>1. i + 1 .. call.count - 1 = {}
        BY <2>3, <3>1
      <4> QED
        BY <2>1, <3>1, <4>1 DEF Asked, AskedFrom
    <3>2. CASE ~ (i + 1 >= call.count)
      BY <2>1, <3>2 DEF Asked, AskedFrom
    <3> QED
      BY <3>1, <3>2
  <2>9. /\ ~ Corrupted /\ ~ Corrupted'
        /\ PageNow \in Page
        /\ WalkIn(entry', PageNow)[-1] = PhysicalAddr
        /\ \A p \in Own \ {PageNow} : VirtToPhys(p)' = VirtToPhys(p)
    BY <1>4, <2>4, EnterPageFacts
  <2>10. Map' = [Map EXCEPT ![a.page] = a.frame]
    <3> HIDE DEF Map
    <3>1. Map = [p \in Own |-> VirtToPhys(p)] /\ Map' = [p \in Own |-> WalkIn(entry', p)[-1]]
      BY DEF Map, VirtToPhys
    <3>2. \A p \in Own \ {PageNow} : WalkIn(entry', p)[-1] = VirtToPhys(p)
      BY <2>9 DEF VirtToPhys
    <3>3. a.page = PageNow /\ a.frame = PhysicalAddr
      OBVIOUS
    <3> DEFINE M == [Map EXCEPT ![PageNow] = PhysicalAddr]
    <3>4. M = [p \in Own |-> IF p = PageNow THEN PhysicalAddr ELSE VirtToPhys(p)]
      BY <3>1, <2>4
    <3>5. Map' = M
      BY <2>9, <3>1, <3>2, <3>4
    <3> QED
      BY <3>3, <3>5
  <2> HIDE DEF a, Map
  <2>11. \E b \in Asked : Map' = [Map EXCEPT ![b.page] = b.frame] /\ Asked' = Asked \ {b}
    BY <2>5, <2>6, <2>7, <2>8, <2>10
  <2>12. Corrupted' = Corrupted
    BY <2>9 DEF Corrupted
  <2>13. AddressSpace!Map
    BY <2>9, <2>11, <2>12 DEF AddressSpace!Map, Map
  <2> QED
    BY <2>13 DEF AddressSpace!Next
<1>5. CASE ErrorPath
  <2>1. UNCHANGED entry /\ pc = "failing" /\ pc' = "idle"
    BY <1>5 DEF ErrorPath
  <2>2. ~ Corrupted /\ UNCHANGED Map /\ Asked' = Asked
    BY <2>1 DEF MmuInv, WalkInv, VirtToPhys, Asked
  <2>3. CASE Corrupted'
    <3>1. Corrupted' = TRUE
      BY <2>3 DEF Corrupted
    <3> QED
      BY <2>2, <3>1 DEF AddressSpace!Next, AddressSpace!Break
  <2>4. CASE ~ Corrupted'
    <3>1. Corrupted' = Corrupted
      BY <2>2, <2>4 DEF Corrupted
    <3> QED
      BY <2>2, <3>1 DEF AddressSpace!vars
  <2> QED
    BY <2>3, <2>4
<1> QED
  BY <1>1, <1>2, <1>3, <1>4, <1>5 DEF Step

(* Every step keeps the invariant, and is one of AddressMap or none. *)
LEMMA MmuStep ==
  ASSUME MmuInv, OwnInv, [MmuNext]_mmuVars
  PROVE  /\ MmuInv' /\ OwnInv'
         /\ [AddressSpace!Next]_(AddressSpace!vars)
<1>1. CASE Step
  <2>1. call' = call /\ pc # "idle"
    BY <1>1 DEF Step, Descend, AllocTable, NoTable, EnterPage, ErrorPath
  <2>2. OwnInv'
    BY <2>1 DEF OwnInv, OwnPages
  <2> QED
    BY <1>1, <2>2, StepInv, StepRefines
<1>2. ASSUME NEW c \in AnyCall, GoodCall(c), OwnPages(c), MapMemory(c)
      PROVE  MmuInv' /\ OwnInv' /\ AddressSpace!Ask
  <2>1. MmuInv'
    BY <1>2, MapMemoryInv
  <2>2. call' = c
    BY <1>2 DEF MapMemory
  <2>3. OwnInv'
    BY <1>2, <2>2 DEF OwnInv, OwnPages
  <2> QED
    BY <1>2, <2>1, <2>3, AskStep
<1>3. CASE UNCHANGED mmuVars
  <2>1. MmuInv' /\ UNCHANGED (AddressSpace!vars)
    BY <1>3, MmuStutter
  <2>2. OwnInv'
    BY <1>3 DEF mmuVars, OwnInv, OwnPages
  <2> QED
    BY <2>1, <2>2
<1> QED
  BY <1>1, <1>2, <1>3 DEF MmuNext, AddressSpace!Next

LEMMA MmuStart == MmuInit => MmuInv /\ OwnInv
BY MmuInitInv DEF MmuInit, OwnInv

(* For every memory, every tree of tables that boot may leave and whatever   *)
(* mmu_map_memory is asked for: no table is lost, and each that is linked is *)
(* linked in one slot only, in the middle of a call and after a failed one   *)
(* too.                                                                      *)
THEOREM Tables == MmuSpec => []TablesAccounted
<1>1. MmuInv /\ OwnInv /\ [MmuNext]_mmuVars => MmuInv' /\ OwnInv'
  BY MmuStep
<1>2. MmuInv => TablesAccounted
  BY MmuResults
<1> QED
  BY MmuStart, <1>1, <1>2, PTL DEF MmuSpec

(* A table that is linked gets into mmu_mem_pool only by the error path, in  *)
(* a call that has got a table before it found none.                         *)
THEOREM Corruption == MmuSpec => []CorruptedOnlyByFailure
<1>1. MmuInv /\ OwnInv /\ [MmuNext]_mmuVars => MmuInv' /\ OwnInv'
  BY MmuStep
<1>2. MmuInv => CorruptedOnlyByFailure
  BY MmuResults
<1> QED
  BY MmuStart, <1>1, <1>2, PTL DEF MmuSpec

(* mmu_map_memory, whatever tables it makes or shares on the way, enters the *)
(* pages asked for one at a time and moves no other page.                    *)
THEOREM WalksRefine == MmuSpec => ImplementsAddressMap
<1>1. MmuInv /\ OwnInv /\ [MmuNext]_mmuVars =>
        MmuInv' /\ OwnInv' /\ [AddressSpace!Next]_(AddressSpace!vars)
  BY MmuStep
<1> QED
  BY MmuStart, MapInit, <1>1, PTL DEF MmuSpec, ImplementsAddressMap, AddressSpace!Spec

-----------------------------------------------------------------------------
VP == INSTANCE FirstFitProofs WITH
  AddrMod <- PageSize * PageCount, Top <- PageSize * PageCount - 1,
  MaxHeaders <- Headers, Starts <- {}, Sizes <- {}, Alignments <- {},
  pool <- virt, heap <- headers, held <- taken

(* Virt and VP are one pool: what the first defines the second does too.    *)
LEMMA SameBasics ==
  /\ \A a, b : Virt!Plus(a, b) = VP!Plus(a, b) /\ Virt!Minus(a, b) = VP!Minus(a, b)
  /\ \A b : Virt!End(b) = VP!End(b)
  /\ \A a, b : Virt!Interval(a, b) = VP!Interval(a, b)
  /\ \A s, j : Virt!RemoveAt(s, j) = VP!RemoveAt(s, j)
  /\ \A s, j, e : Virt!InsertAt(s, j, e) = VP!InsertAt(s, j, e)
  /\ \A b, size : Virt!WithSize(b, size) = VP!WithSize(b, size)
  /\ \A S : Virt!FirstOf(S) = VP!FirstOf(S)
  /\ Virt!Null = VP!Null
  /\ \A op, arg, size, ok, addr : Virt!Answer(op, arg, size, ok, addr)
                                    <=> VP!Answer(op, arg, size, ok, addr)
  /\ \A x, y, z : Virt!IsBetween(x, y, z) <=> VP!IsBetween(x, y, z)
<1>1. \A a, b : Virt!Plus(a, b) = VP!Plus(a, b) /\ Virt!Minus(a, b) = VP!Minus(a, b)
  BY DEF Virt!Plus, VP!Plus, Virt!Minus, VP!Minus
<1>2. \A b : Virt!End(b) = VP!End(b)
  BY <1>1 DEF Virt!End, VP!End
<1>3. \A a, b : Virt!Interval(a, b) = VP!Interval(a, b)
  BY DEF Virt!Interval, VP!Interval
<1>4. \A s, j : Virt!RemoveAt(s, j) = VP!RemoveAt(s, j)
  BY DEF Virt!RemoveAt, VP!RemoveAt
<1>5. \A s, j, e : Virt!InsertAt(s, j, e) = VP!InsertAt(s, j, e)
  BY DEF Virt!InsertAt, VP!InsertAt
<1>6. \A b, size : Virt!WithSize(b, size) = VP!WithSize(b, size)
  BY DEF Virt!WithSize, VP!WithSize
<1>7. \A S : Virt!FirstOf(S) = VP!FirstOf(S)
  BY DEF Virt!FirstOf, VP!FirstOf
<1>8. Virt!Null = VP!Null
  BY DEF Virt!Null, VP!Null
<1>9. \A op, arg, size, ok, addr : Virt!Answer(op, arg, size, ok, addr)
                                    <=> VP!Answer(op, arg, size, ok, addr)
  BY DEF Virt!Answer, VP!Answer
<1>10. \A x, y, z : Virt!IsBetween(x, y, z) <=> VP!IsBetween(x, y, z)
  BY DEF Virt!IsBetween, VP!IsBetween
<1> QED
  BY <1>1, <1>2, <1>3, <1>4, <1>5, <1>6, <1>7, <1>8, <1>9, <1>10

LEMMA SameAllocate ==
  ASSUME NEW op, NEW arg, NEW size
  PROVE  Virt!Allocate(op, arg, size) <=> VP!Allocate(op, arg, size)
<1> DEFINE req == [op |-> op, arg |-> arg, size |-> size]
<1> HIDE DEF req
<1>1. \A b : Virt!MeetsConstraint(req, b) <=> VP!MeetsConstraint(req, b)
  BY DEF Virt!MeetsConstraint, VP!MeetsConstraint, Virt!IsAligned, VP!IsAligned
<1>2. Virt!Fitting(req) = VP!Fitting(req)
  BY DEF Virt!Fitting, VP!Fitting, Virt!FirstOf, VP!FirstOf, Virt!MeetsConstraint,
         VP!MeetsConstraint, Virt!IsAligned, VP!IsAligned
<1>3. \A b : Virt!WantedStart(req, b) = VP!WantedStart(req, b)
  BY DEF Virt!WantedStart, VP!WantedStart, Virt!AlignUp, VP!AlignUp, Virt!Plus, VP!Plus
<1>4. \A b : Virt!RightOffset(req, b) = VP!RightOffset(req, b)
  BY <1>3, SameBasics DEF Virt!RightOffset, VP!RightOffset
<1>5. \A b : Virt!Splittable(req, b) <=> VP!Splittable(req, b)
  BY <1>3, <1>4, SameBasics DEF Virt!Splittable, VP!Splittable
<1>6. Virt!BlockToSplit(req) = VP!BlockToSplit(req)
  <2> DEFINE V == {k \in DOMAIN virt :
                     /\ Virt!Splittable(req, virt[k])
                     /\ \A j \in DOMAIN virt : Virt!Splittable(req, virt[j]) =>
                          Virt!RightOffset(req, virt[j]) <= Virt!RightOffset(req, virt[k])}
             P == {k \in DOMAIN virt :
                     /\ VP!Splittable(req, virt[k])
                     /\ \A j \in DOMAIN virt : VP!Splittable(req, virt[j]) =>
                          VP!RightOffset(req, virt[j]) <= VP!RightOffset(req, virt[k])}
  <2>1. V = P
    BY <1>4, <1>5
  <2>2. Virt!BlockToSplit(req) = Virt!FirstOf(V) /\ VP!BlockToSplit(req) = VP!FirstOf(P)
    BY DEF Virt!BlockToSplit, VP!BlockToSplit
  <2> HIDE DEF V, P
  <2> QED
    BY <2>1, <2>2, SameBasics
<1>7. Virt!GrantedAddr(req) = VP!GrantedAddr(req)
  BY <1>2, <1>3, <1>6 DEF Virt!GrantedAddr, VP!GrantedAddr
<1>8. Virt!TakeFront(req) <=> VP!TakeFront(req)
  BY <1>2, SameBasics DEF Virt!TakeFront, VP!TakeFront
<1>9. Virt!TakeWhole(req) <=> VP!TakeWhole(req)
  BY <1>2, SameBasics DEF Virt!TakeWhole, VP!TakeWhole
<1>10. Virt!Split(req) <=> VP!Split(req)
  BY <1>2, <1>3, <1>4, <1>6, SameBasics DEF Virt!Split, VP!Split
<1>11. Virt!Refused(req) <=> VP!Refused(req)
  BY <1>2, <1>6 DEF Virt!Refused, VP!Refused
<1> QED
  BY <1>7, <1>8, <1>9, <1>10, <1>11, SameBasics
     DEF Virt!Allocate, VP!Allocate, Virt!Granted, VP!Granted, req

LEMMA SameFreeAddrs == Virt!FreeAddrs = VP!FreeAddrs /\ Virt!FreeAddrs' = VP!FreeAddrs'
BY SameBasics DEF Virt!FreeAddrs, VP!FreeAddrs, Virt!AddrsOf, VP!AddrsOf

LEMMA SameFree ==
  ASSUME NEW start, NEW size
  PROVE  Virt!Free(start, size) <=> VP!Free(start, size)
<1>1. Virt!CurrIndex(start) = VP!CurrIndex(start)
  BY DEF Virt!CurrIndex, VP!CurrIndex, Virt!FirstOf, VP!FirstOf, Virt!End, VP!End,
         Virt!Plus, VP!Plus
<1>2. Virt!PrevIndex(start) = VP!PrevIndex(start)
  BY <1>1 DEF Virt!PrevIndex, VP!PrevIndex
<1>3. Virt!Acceptable(start, size) <=> VP!Acceptable(start, size)
  BY <1>1, SameBasics DEF Virt!Acceptable, VP!Acceptable, Virt!OverlapsBlock, VP!OverlapsBlock
<1>4. /\ Virt!JoinsLeft(start) <=> VP!JoinsLeft(start)
      /\ Virt!JoinsRight(start, size) <=> VP!JoinsRight(start, size)
  BY <1>1, <1>2, SameBasics
     DEF Virt!JoinsLeft, VP!JoinsLeft, Virt!JoinsRight, VP!JoinsRight
<1>5. Virt!JoinBoth(start, size) <=> VP!JoinBoth(start, size)
  BY <1>1, <1>2, <1>4, SameBasics DEF Virt!JoinBoth, VP!JoinBoth
<1>6. Virt!JoinLeft(start, size) <=> VP!JoinLeft(start, size)
  BY <1>1, <1>2, <1>4, SameBasics DEF Virt!JoinLeft, VP!JoinLeft
<1>7. Virt!JoinRight(start, size) <=> VP!JoinRight(start, size)
  BY <1>1, <1>2, <1>4, SameBasics DEF Virt!JoinRight, VP!JoinRight
<1>8. Virt!NewBlock(start, size) <=> VP!NewBlock(start, size)
  BY <1>1, <1>2, <1>4, SameBasics DEF Virt!NewBlock, VP!NewBlock
<1>9. /\ Virt!AddAccepted(start, size) <=> VP!AddAccepted(start, size)
      /\ Virt!AddRefused(start, size) <=> VP!AddRefused(start, size)
  BY <1>3, <1>4, <1>5, <1>6, <1>7, <1>8
     DEF Virt!AddAccepted, VP!AddAccepted, Virt!AddRefused, VP!AddRefused,
         Virt!NoHeader, VP!NoHeader
<1> QED
  BY <1>9, SameBasics, SameFreeAddrs DEF Virt!Free, VP!Free

LEMMA SameForced ==
  ASSUME NEW start, NEW size
  PROVE  /\ Virt!Supported(start, size) <=> VP!Supported(start, size)
         /\ Virt!ForceAlloc(start, size) <=> VP!ForceAlloc(start, size)
<1> DEFINE end == Virt!Plus(start, size)
<1>0. VP!Plus(start, size) = end
  BY SameBasics
<1> HIDE DEF end
<1>1. \A b : Virt!Reaches(b, start, end) <=> VP!Reaches(b, start, end)
  BY SameBasics DEF Virt!Reaches, VP!Reaches
<1>2. Virt!RightSize(end) = VP!RightSize(end)
  BY SameBasics DEF Virt!RightSize, VP!RightSize
<1>3. Virt!SplitsFirst(start, end) <=> VP!SplitsFirst(start, end)
  BY <1>1, <1>2 DEF Virt!SplitsFirst, VP!SplitsFirst
<1>4. Virt!Visited(start, end) = VP!Visited(start, end)
  BY <1>1, <1>3 DEF Virt!Visited, VP!Visited
<1>5. \A b : /\ Virt!KeepBehind(b, end) = VP!KeepBehind(b, end)
             /\ Virt!KeepBefore(b, start) = VP!KeepBefore(b, start)
             /\ Virt!KeepAround(b, start, end) = VP!KeepAround(b, start, end)
  BY <1>2, SameBasics DEF Virt!KeepBehind, VP!KeepBehind, Virt!KeepBefore, VP!KeepBefore,
                          Virt!KeepAround, VP!KeepAround
<1>6. \A k : Virt!Kept(k, start, end) = VP!Kept(k, start, end)
  BY <1>3, <1>4, <1>5 DEF Virt!Kept, VP!Kept
<1>7. Virt!FlattenSeq([k \in DOMAIN virt |-> Virt!Kept(k, start, end)])
        = VP!FlattenSeq([k \in DOMAIN virt |-> VP!Kept(k, start, end)])
  <2> DEFINE a == [k \in DOMAIN virt |-> Virt!Kept(k, start, end)]
             b == [k \in DOMAIN virt |-> VP!Kept(k, start, end)]
  <2>1. a = b
    BY <1>6
  <2> HIDE DEF a, b
  <2>2. \A s : Virt!FlattenSeq(s) = VP!FlattenSeq(s)
    BY DEF Virt!FlattenSeq, VP!FlattenSeq
  <2> QED
    BY <2>1, <2>2 DEF a, b
<1>8. Virt!ForceAlloc(start, size) <=> VP!ForceAlloc(start, size)
  BY <1>0, <1>3, <1>5, <1>7, SameBasics
     DEF Virt!ForceAlloc, VP!ForceAlloc, Virt!Claim, VP!Claim, end,
         Virt!HeadersForSplit, VP!HeadersForSplit
<1>9. Virt!Supported(start, size) <=> VP!Supported(start, size)
  BY SameBasics, SameFreeAddrs DEF Virt!Supported, VP!Supported
<1> QED
  BY <1>8, <1>9

-----------------------------------------------------------------------------
(* Pages and units. *)
LEMMA ConstantFacts ==
  /\ PageSize \in Nat /\ PageSize > 1 /\ PageCount \in Nat
  /\ KernelStart \in Nat /\ KernelStart > 0 /\ KernelStart < PageCount
  /\ Headers \in Nat
BY AddrSpaceAssumption, PageTablesAssumption DEF Page

LEMMA PageSums ==
  ASSUME NEW p \in Nat, NEW n \in Nat
  PROVE  PageSize * p \in Nat /\ PageSize * p + PageSize * n = PageSize * (p + n)
BY ConstantFacts

LEMMA PageOrder ==
  ASSUME NEW p \in Nat, NEW q \in Nat, p < q
  PROVE  PageSize * p + PageSize <= PageSize * q
<1> DEFINE d == q - (p + 1)
<1>1. d \in Nat /\ q = (p + 1) + d
  OBVIOUS
<1> HIDE DEF d
<1>2. PageSize * q = PageSize * (p + 1) + PageSize * d /\ PageSize * d \in Nat
  BY <1>1, PageSums
<1>3. PageSize * (p + 1) = PageSize * p + PageSize * 1
  BY PageSums
<1> QED
  BY <1>2, <1>3, PageSums, ConstantFacts

LEMMA PageOf ==
  ASSUME NEW a \in Nat
  PROVE  /\ a \div PageSize \in Nat
         /\ PageSize * (a \div PageSize) <= a
         /\ a < PageSize * (a \div PageSize) + PageSize
BY ConstantFacts

LEMMA PageIs ==
  ASSUME NEW a \in Nat, NEW p \in Nat, PageSize * p <= a, a < PageSize * p + PageSize
  PROVE  a \div PageSize = p
<1> DEFINE q == a \div PageSize
<1>1. q \in Nat /\ PageSize * q <= a /\ a < PageSize * q + PageSize
  BY PageOf
<1> HIDE DEF q
<1>2. p < q => PageSize * p + PageSize <= PageSize * q
  BY <1>1, PageOrder
<1>3. q < p => PageSize * q + PageSize <= PageSize * p
  BY <1>1, PageOrder
<1>4. PageSize * p \in Nat /\ PageSize * q \in Nat /\ PageSize \in Nat
  BY <1>1, PageSums, ConstantFacts
<1>5. ~ p < q /\ ~ q < p
  BY <1>1, <1>2, <1>3, <1>4
<1>6. p = q
  BY <1>1, <1>5
<1> QED
  BY <1>6 DEF q

(* A unit lies in a range of whole pages if its page does. *)
LEMMA UnitInRange ==
  ASSUME NEW a \in Nat, NEW p \in Nat, NEW n \in Nat
  PROVE  a \in PageSize * p .. PageSize * p + PageSize * n - 1
           <=> a \div PageSize \in p .. p + n - 1
<1> DEFINE q == a \div PageSize
           e == p + n
           sp == PageSize * p
           se == PageSize * e
           sq == PageSize * q
<1>1. q \in Nat /\ sq <= a /\ a < sq + PageSize
  BY PageOf
<1>2. e \in Nat /\ PageSize * p + PageSize * n = se
  BY PageSums
<1> HIDE DEF q, e
<1>3. /\ q < p => sq + PageSize <= sp
      /\ e < q => se + PageSize <= sq
      /\ q < e => sq + PageSize <= se
      /\ p < q => sp + PageSize <= sq
  BY <1>1, <1>2, PageOrder
<1>4. /\ q = e => sq = se
      /\ q = p => sq = sp
      /\ sp \in Nat /\ se \in Nat /\ sq \in Nat /\ PageSize \in Nat /\ PageSize > 1
  BY <1>1, <1>2, PageSums, ConstantFacts
<1> HIDE DEF sp, se, sq
<1>5. a \in sp .. se - 1 <=> q \in p .. e - 1
  BY <1>1, <1>2, <1>3, <1>4
<1> DEFINE sn == PageSize * n
<1>6. sp + sn = se /\ sn \in Nat
  BY <1>2, PageSums DEF sp, se
<1> HIDE DEF sn
<1>7. a \in sp .. sp + sn - 1 <=> q \in p .. p + n - 1
  <2>1. a \in sp .. sp + sn - 1 <=> q \in p .. e - 1
    BY <1>4, <1>5, <1>6
  <2> QED
    BY <2>1 DEF e
<1> QED
  BY <1>7 DEF q, sp, sn

-----------------------------------------------------------------------------
(* The pool of virtual ranges, in the terms of AddrSpace. *)
LEMMA VirtAssumption ==
  /\ PageSize * PageCount \in Nat /\ PageSize * PageCount - 1 \in Nat /\ Headers \in Nat
  /\ PageSize * PageCount - 1 < PageSize * PageCount
  /\ {} \subseteq 0 .. PageSize * PageCount - 1
<1>1. PageSize * 0 + PageSize <= PageSize * PageCount
  BY PageOrder, ConstantFacts
<1>2. PageSize * PageCount \in Nat /\ PageSize * 0 = 0
  BY PageSums, ConstantFacts
<1> QED
  BY <1>1, <1>2, ConstantFacts

Whole == Virt!Interval(PageSize * KernelStart, SpaceSize)
FreeUnits == Virt!FreeAddrs
RangeOf(c) == Virt!Interval(Address(c), Size(c))
LastUnit == PageSize * (PageCount - 1)
Hung == Virt!Hung
Fits(c) == /\ c.page \in Nat /\ c.count \in Nat /\ c.count # 0
           /\ c.page + c.count < PageCount

PoolGood == VP!PoolInv /\ managed = Whole /\ LastUnit \in FreeUnits

(* The ranges of whole pages lie below the last unit, which is in none. *)
LEMMA RangeFacts ==
  ASSUME NEW c, Fits(c)
  PROVE  /\ Address(c) \in Nat /\ Size(c) \in Nat \ {0}
         /\ Address(c) + Size(c) <= LastUnit
         /\ LastUnit \in Nat /\ LastUnit + PageSize = PageSize * PageCount
         /\ Address(c) + Size(c) <= PageSize * PageCount - 1
         /\ \A a \in Nat : a \in RangeOf(c) <=> a \div PageSize \in Pages(c)
         /\ LastUnit \notin RangeOf(c)
<1> DEFINE p == c.page
           n == c.count
           e == p + n
           l == PageCount - 1
<1>1. p \in Nat /\ n \in Nat /\ n > 0 /\ e \in Nat /\ e < PageCount /\ l \in Nat /\ e <= l
      /\ l + 1 = PageCount
  BY ConstantFacts DEF Fits
<1> HIDE DEF p, n, e, l
<1>2. /\ PageSize * p \in Nat /\ PageSize * n \in Nat /\ PageSize * e \in Nat
      /\ PageSize * l \in Nat /\ PageSize * 0 = 0
      /\ PageSize * p + PageSize * n = PageSize * e
      /\ PageSize * l + PageSize * 1 = PageSize * PageCount
  BY <1>1, PageSums, ConstantFacts DEF e
<1>3. /\ PageSize * 0 + PageSize <= PageSize * n
      /\ e < l => PageSize * e + PageSize <= PageSize * l
      /\ PageSize \in Nat /\ PageSize > 1 /\ PageSize * 1 = PageSize
  BY <1>1, PageOrder, ConstantFacts
<1> DEFINE sp == PageSize * p
           sn == PageSize * n
           se == PageSize * e
           sl == PageSize * l
           sc == PageSize * PageCount
<1>4. /\ Address(c) = sp /\ Size(c) = sn /\ LastUnit = sl
  BY DEF Address, Size, LastUnit, p, n, l
<1>5. e = l => se = sl
  OBVIOUS
<1>6. \A a \in Nat : a \in RangeOf(c) <=> a \div PageSize \in Pages(c)
  BY <1>1, UnitInRange DEF RangeOf, Virt!Interval, Address, Size, Pages, p, n
<1>7. /\ sp \in Nat /\ sn \in Nat /\ sl \in Nat /\ se \in Nat /\ sp + sn = se /\ sl + PageSize = sc
      /\ PageSize <= sn /\ (e < l => se + PageSize <= sl) /\ (e = l => se = sl)
  BY <1>2, <1>3, <1>5
<1> HIDE DEF sp, sn, se, sl, sc
<1>8. sn # 0 /\ se <= sl /\ se <= sc - 1
  BY <1>1, <1>3, <1>7
<1>9. LastUnit \notin RangeOf(c)
  BY <1>4, <1>7, <1>8 DEF RangeOf, Virt!Interval
<1> QED
  BY <1>4, <1>6, <1>7, <1>8, <1>9 DEF sc

LEMMA WholeFacts ==
  /\ Whole \subseteq Nat /\ \A a \in Whole : a # 0 /\ a \div PageSize \in KernelStart .. PageCount - 1
  /\ \A a \in Whole : PageSize * KernelStart <= a
  /\ \A p \in KernelStart .. PageCount - 1 : PageSize * p \in Whole /\ (PageSize * p) \div PageSize = p
  /\ LastUnit \in Whole
  /\ \A a \in Whole : a + 1 < PageSize * PageCount
<1> DEFINE k == KernelStart
           n == PageCount - KernelStart
           sk == PageSize * k
           sn == PageSize * n
           sc == PageSize * PageCount
<1>1. k \in Nat /\ k > 0 /\ n \in Nat /\ n > 0 /\ k + n = PageCount
  BY ConstantFacts
<1> HIDE DEF n, k
<1>2. /\ sk \in Nat /\ sn \in Nat /\ sc \in Nat /\ sk + sn = sc
  BY <1>1, PageSums, ConstantFacts
<1>3. PageSize * 0 + PageSize <= sk /\ PageSize * 0 = 0
  BY <1>1, PageOrder, ConstantFacts
<1>4. \A a \in Nat : a \in sk .. sk + sn - 1 <=> a \div PageSize \in k .. k + n - 1
  BY <1>1, UnitInRange
<1>5. Whole = sk .. sk + (sc - 1 - sk) - 1
  BY DEF Whole, SpaceSize, Virt!Interval, k
<1>6. PageSize \in Nat /\ PageSize > 1
  BY ConstantFacts
<1>7. sk + (sc - 1 - sk) - 1 = sk + sn - 2 /\ sk > 0
  <2> HIDE DEF sk, sn, sc
  <2> QED
    BY <1>2, <1>3, <1>6
<1>8. \A a \in Whole : a \in Nat /\ a # 0 /\ sk <= a /\ a \in sk .. sk + sn - 1 /\ a + 1 < sc
  <2> HIDE DEF sk, sn, sc
  <2> QED
    BY <1>2, <1>5, <1>7
<1>9. ASSUME NEW p \in k .. PageCount - 1
      PROVE  PageSize * p \in Whole /\ (PageSize * p) \div PageSize = p
  <2> DEFINE a == PageSize * p
  <2>1. p \in Nat /\ p < PageCount /\ PageCount \in Nat
    BY <1>1, ConstantFacts
  <2>2. a \in Nat /\ a + PageSize <= sc
    BY <2>1, PageSums, PageOrder, ConstantFacts
  <2>3. k < p => sk + PageSize <= a
    BY <1>1, <2>1, PageOrder
  <2>4. k = p => sk = a
    OBVIOUS
  <2>5. a <= PageSize * p /\ PageSize * p <= a /\ a < PageSize * p + PageSize
    BY <1>6, <2>2
  <2>6. a \div PageSize = p
    BY <2>1, <2>2, <2>5, PageIs
  <2>7. a \in Whole
    <3> HIDE DEF a, sk, sn, sc
    <3>1. sk <= a
      BY <1>1, <1>2, <1>6, <2>1, <2>2, <2>3, <2>4
    <3> QED
      BY <1>2, <1>5, <1>6, <1>7, <2>2, <3>1
  <2> QED
    BY <2>6, <2>7
<1>10. LastUnit \in Whole
  BY <1>1, <1>9, ConstantFacts DEF LastUnit
<1>11. k .. k + n - 1 = KernelStart .. PageCount - 1
  BY <1>1 DEF k
<1> QED
  BY <1>4, <1>8, <1>9, <1>10, <1>11 DEF k

(* The pool is never empty, and the range it starts with is not at 0: that no
   range is found shows in what mem_map and mem_map_virt_addr look at.        *)
LEMMA FirstBlock ==
  ASSUME PoolGood
  PROVE  /\ virt # <<>> /\ 1 \in DOMAIN virt
         /\ virt[1].start \in FreeUnits /\ virt[1].start # Virt!Null
         /\ FreeUnits \subseteq Whole /\ taken \subseteq Whole
         /\ FreeUnits \cap taken = {} /\ managed = Whole
<1>1. VP!PoolInv /\ managed = Whole /\ LastUnit \in VP!FreeAddrs
  BY SameFreeAddrs DEF PoolGood, FreeUnits
<1>2. /\ virt \in Seq(VP!Block) /\ VP!WellFormed(virt)
      /\ VP!FreeAddrs \cap taken = {} /\ VP!FreeAddrs \cup taken = Whole
  BY <1>1 DEF VP!PoolInv, VP!Coalesced, VP!Isolated, VP!Conserved
<1>3. /\ Len(virt) \in Nat /\ DOMAIN virt = 1 .. Len(virt)
      /\ \A k \in 1 .. Len(virt) : /\ virt[k].start \in Nat /\ virt[k].size \in Nat
                                   /\ virt[k].size > 0
                                   /\ VP!Interval(virt[k].start, virt[k].size) \subseteq VP!FreeAddrs
  <2>1. \A k \in 1 .. Len(virt) :
          VP!Interval(virt[k].start, virt[k].size) \subseteq VP!AddrsOf(virt)
    BY <1>2, VirtAssumption, VP!BlockOf
  <2> QED
    BY <1>2, <2>1, VirtAssumption, VP!ListFacts DEF VP!FreeAddrs
<1>4. Len(virt) # 0
  BY <1>1, <1>3 DEF VP!FreeAddrs, VP!AddrsOf
<1>5. 1 \in 1 .. Len(virt)
  BY <1>3, <1>4
<1>6. virt[1].start \in VP!FreeAddrs
  <2> DEFINE s == virt[1].start
             z == virt[1].size
  <2>1. s \in Nat /\ z \in Nat /\ z > 0 /\ VP!Interval(s, z) \subseteq VP!FreeAddrs
    BY <1>3, <1>5
  <2> HIDE DEF s, z
  <2>2. s \in VP!Interval(s, z)
    BY <2>1 DEF VP!Interval
  <2> QED
    BY <2>1, <2>2 DEF s
<1>7. virt[1].start # Virt!Null
  BY <1>2, <1>6, WholeFacts DEF Virt!Null
<1> QED
  BY <1>1, <1>2, <1>3, <1>4, <1>5, <1>6, <1>7, SameFreeAddrs DEF FreeUnits

(* What a range granted, taken or given back changes. *)
PoolSame == PoolGood' /\ FreeUnits' = FreeUnits /\ taken' = taken
Reserved(c) ==
  /\ PoolGood'
  /\ RangeOf(c) \subseteq FreeUnits
  /\ FreeUnits' = FreeUnits \ RangeOf(c) /\ taken' = taken \cup RangeOf(c)

LEMMA ReserveFacts ==
  ASSUME PoolGood, NEW c, Fits(c), Virt!AllocAt(Address(c), Size(c))
  PROVE  /\ reply'.op = "alloc_at"
         /\ \/ NoRange /\ PoolSame
            \/ ~ NoRange /\ Reserved(c) /\ VP!Returnable(Address(c), Size(c))'
<1> DEFINE start == Address(c)
           size == Size(c)
<1>1. /\ start \in Nat /\ size \in Nat \ {0} /\ start + size <= PageSize * PageCount - 1
      /\ LastUnit \notin RangeOf(c) /\ RangeOf(c) = VP!Interval(start, size)
  BY RangeFacts, SameBasics DEF RangeOf
<1> HIDE DEF start, size
<1>2. start \in VP!Addr /\ size \in VP!Addr /\ start + size < PageSize * PageCount
  BY <1>1, VirtAssumption DEF VP!Addr
<1>3. VP!Allocate("alloc_at", start, size)
  BY SameAllocate DEF Virt!AllocAt, start, size
<1>4. VP!PoolInv
  BY DEF PoolGood
<1>5. /\ VP!PoolInv' /\ managed' = managed
      /\ reply'.op = "alloc_at"
      /\ \/ ~ reply'.ok /\ UNCHANGED <<VP!FreeAddrs, taken>>
         \/ /\ reply'.ok /\ reply'.addr = start /\ size > 0
            /\ VP!Interval(start, size) \subseteq VP!FreeAddrs
            /\ VP!FreeAddrs' = VP!FreeAddrs \ VP!Interval(start, size)
            /\ taken' = taken \cup VP!Interval(start, size)
            /\ VP!Interval(start, size) \cap VP!FreeAddrs' = {}
            /\ headers' > 0 \/ \E k \in 1 .. Len(virt') : virt'[k].start = start + size
  BY <1>2, <1>3, <1>4, VirtAssumption, VP!AllocatePool
<1>6. NoRange <=> ~ reply'.ok
  BY FirstBlock DEF NoRange, FirstFree
<1>7. LastUnit \in VP!FreeAddrs /\ managed = Whole
  BY SameFreeAddrs DEF PoolGood, FreeUnits
<1>8. VP!FreeAddrs = FreeUnits /\ VP!FreeAddrs' = FreeUnits'
  BY SameFreeAddrs DEF FreeUnits
<1>9. CASE ~ reply'.ok /\ UNCHANGED <<VP!FreeAddrs, taken>>
  <2>1. PoolGood'
    BY <1>5, <1>7, <1>8, <1>9 DEF PoolGood, LastUnit, Whole, Virt!Interval
  <2> QED
    BY <1>5, <1>6, <1>8, <1>9, <2>1 DEF PoolSame
<1>10. CASE ~ (~ reply'.ok /\ UNCHANGED <<VP!FreeAddrs, taken>>)
  <2>1. PoolGood'
    BY <1>1, <1>5, <1>7, <1>8, <1>10 DEF PoolGood, LastUnit, Whole, Virt!Interval
  <2>2. Reserved(c)
    BY <1>1, <1>5, <1>8, <1>10, <2>1 DEF Reserved
  <2>3. VP!Returnable(start, size)'
    BY <1>5, <1>10 DEF VP!Returnable
  <2> QED
    BY <1>5, <1>6, <1>10, <2>2, <2>3 DEF start, size
<1> QED
  BY <1>9, <1>10

LEMMA MemMapFacts ==
  ASSUME PoolGood, NEW count \in Nat \ {0}, NoWrap(count), NEW frame,
         Virt!AllocAligned(PageSize, PageSize * count)
  PROVE  LET c == [page |-> reply'.addr \div PageSize, frame |-> frame, count |-> count]
         IN /\ reply'.op = "alloc_aligned"
            /\ \/ NoRange /\ PoolSame
               \/ ~ NoRange /\ Reserved(c) /\ Fits(c) /\ c.page >= KernelStart
<1> DEFINE size == PageSize * count
           max == PageSize * PageCount
           addr == reply'.addr
           p == addr \div PageSize
           c == [page |-> p, frame |-> frame, count |-> count]
<1>1. size \in Nat /\ size > 0 /\ PageSize \in Nat \ {0} /\ PageSize * (count + 1) = size + PageSize
  <2>1. PageSize * 0 + PageSize <= PageSize * count /\ PageSize * 0 = 0
    BY PageOrder, ConstantFacts
  <2>2. PageSize * count + PageSize * 1 = PageSize * (count + 1)
    BY PageSums, ConstantFacts
  <2> QED
    BY <2>1, <2>2, PageSums, ConstantFacts
<1>2. /\ virt # <<>> /\ 1 \in DOMAIN virt /\ virt[1].start \in Nat
      /\ FreeUnits \subseteq Whole /\ managed = Whole
  BY FirstBlock, WholeFacts
<1>3. DOMAIN virt = 1 .. Len(virt) /\ \A k \in 1 .. Len(virt) : virt[k].start \in Nat
  BY VirtAssumption, VP!ListFacts DEF PoolGood, VP!PoolInv, VP!Coalesced
<1>4. VP!NoneWraps(PageSize, size)
  <2>1. \A k \in 1 .. Len(virt) : virt[k].start + (size + PageSize) < max
    BY <1>1, <1>3 DEF NoWrap
  <2> HIDE DEF size, max
  <2>2. ASSUME NEW k \in 1 .. Len(virt) PROVE virt[k].start + PageSize + size < max
    <3> DEFINE s == virt[k].start
    <3>1. s \in Nat /\ s + (size + PageSize) < max /\ max \in Nat
      BY <1>3, <2>1, VirtAssumption DEF max
    <3> HIDE DEF s
    <3>2. s + PageSize + size < max
      BY <1>1, <3>1
    <3> QED
      BY <3>2 DEF s
  <2> QED
    BY <2>2 DEF VP!NoneWraps, max
<1>5. PageSize \in VP!Addr /\ size \in VP!Addr
  <2>1. virt[1].start + PageSize + size < max
    BY <1>2, <1>3, <1>4 DEF VP!NoneWraps
  <2>2. max \in Nat
    BY VirtAssumption
  <2> HIDE DEF size, max
  <2>3. PageSize \in 0 .. max - 1 /\ size \in 0 .. max - 1
    BY <1>1, <1>2, <2>1, <2>2
  <2> QED
    BY <2>3 DEF VP!Addr, max
<1> HIDE DEF size
<1>6. VP!Allocate("alloc_aligned", PageSize, size)
  BY SameAllocate DEF Virt!AllocAligned, size
<1>7. VP!PoolInv
  BY DEF PoolGood
<1>8. /\ VP!PoolInv' /\ managed' = managed
      /\ reply'.op = "alloc_aligned"
      /\ \/ ~ reply'.ok /\ UNCHANGED <<VP!FreeAddrs, taken>>
         \/ /\ reply'.ok /\ addr \in VP!Addr
            /\ VP!IsAligned(addr, PageSize)
            /\ VP!Interval(addr, size) \subseteq VP!FreeAddrs
            /\ VP!FreeAddrs' = VP!FreeAddrs \ VP!Interval(addr, size)
            /\ taken' = taken \cup VP!Interval(addr, size)
  BY <1>4, <1>5, <1>6, <1>7, VirtAssumption, VP!AllocatePool
<1>9. NoRange <=> ~ reply'.ok
  BY FirstBlock DEF NoRange, FirstFree
<1>10. LastUnit \in FreeUnits
  BY DEF PoolGood
<1>11. VP!FreeAddrs = FreeUnits /\ VP!FreeAddrs' = FreeUnits'
  BY SameFreeAddrs DEF FreeUnits
<1>12. CASE ~ reply'.ok /\ UNCHANGED <<VP!FreeAddrs, taken>>
  <2>1. PoolGood'
    BY <1>2, <1>8, <1>10, <1>11, <1>12 DEF PoolGood, LastUnit, Whole, Virt!Interval
  <2> QED
    BY <1>8, <1>9, <1>11, <1>12, <2>1 DEF PoolSame
<1>13. CASE ~ (~ reply'.ok /\ UNCHANGED <<VP!FreeAddrs, taken>>)
  <2> HIDE DEF addr
  <2>1. addr \in Nat
    BY <1>8, <1>13, VirtAssumption DEF VP!Addr
  <2>2. p \in Nat /\ PageSize * p = addr
    <3>1. addr % PageSize = 0
      BY <1>8, <1>13 DEF VP!IsAligned
    <3> QED
      BY <1>1, <2>1, <3>1
  <2> HIDE DEF p
  <2>3. addr \in Whole /\ addr + size - 1 \in Whole
    <3>1. addr \in VP!Interval(addr, size) /\ addr + size - 1 \in VP!Interval(addr, size)
      BY <1>1, <2>1 DEF VP!Interval
    <3> QED
      BY <1>2, <1>8, <1>11, <1>13, <3>1
  <2>4. p >= KernelStart
    BY <2>3, WholeFacts DEF p
  <2>5. p + count < PageCount
    <3> DEFINE e == p + count
               se == PageSize * e
    <3>1. addr + size = se /\ e \in Nat /\ se \in Nat
      BY <2>2, PageSums DEF size
    <3>2. addr + size < max
      <4>1. addr + size - 1 + 1 < max
        BY <2>3, WholeFacts
      <4> HIDE DEF max
      <4> QED
        BY <1>1, <2>1, <4>1
    <3> HIDE DEF e
    <3>3. PageCount < e => max + PageSize <= se
      BY <3>1, PageOrder, ConstantFacts
    <3>4. PageCount = e => max = se
      OBVIOUS
    <3>5. max \in Nat /\ PageCount \in Nat
      BY VirtAssumption, ConstantFacts
    <3> HIDE DEF max, se
    <3>6. e < PageCount
      BY <1>1, <3>1, <3>2, <3>3, <3>4, <3>5
    <3> QED
      BY <3>6 DEF e
  <2>6. Fits(c)
    BY <2>2, <2>5 DEF Fits
  <2>7. RangeOf(c) = VP!Interval(addr, size)
    BY <2>2, SameBasics DEF RangeOf, Address, Size, size
  <2>8. LastUnit \notin RangeOf(c)
    BY <2>6, RangeFacts
  <2>9. PoolGood'
    BY <1>2, <1>8, <1>10, <1>11, <1>13, <2>7, <2>8 DEF PoolGood, LastUnit, Whole, Virt!Interval
  <2>10. Reserved(c)
    BY <1>8, <1>11, <1>13, <2>7, <2>9 DEF Reserved
  <2> QED
    BY <1>8, <1>9, <1>13, <2>4, <2>6, <2>10 DEF p, addr
<1> QED
  BY <1>12, <1>13

(* The kernel's pages are the upper half of memory, or less. *)
LEMMA UpperHalf ==
  ASSUME KernelIsUpper
  PROVE  PageSize * PageCount <= 2 * (PageSize * KernelStart)
<1> DEFINE max == PageSize * PageCount
           sk == PageSize * KernelStart
           k2 == KernelStart + KernelStart
           s2 == PageSize * k2
<1>1. sk \in Nat /\ sk + sk = s2 /\ k2 \in Nat
  BY PageSums, ConstantFacts
<1>2. PageCount <= k2
  BY ConstantFacts DEF KernelIsUpper
<1> HIDE DEF k2
<1>3. PageCount < k2 => max + PageSize <= s2
  BY <1>1, PageOrder, ConstantFacts
<1>4. PageCount = k2 => max = s2
  OBVIOUS
<1>5. max \in Nat /\ PageSize \in Nat /\ PageCount \in Nat /\ s2 \in Nat
  BY <1>1, VirtAssumption, ConstantFacts
<1> HIDE DEF max, s2, sk
<1>6. max <= 2 * sk
  BY <1>1, <1>2, <1>3, <1>4, <1>5
<1> QED
  BY <1>6 DEF max, sk

LEMMA ForceFacts ==
  ASSUME KernelIsUpper, PoolGood, NEW c, Fits(c), VP!Supported(Address(c), Size(c)),
         Virt!ForceAlloc(Address(c), Size(c))
  PROVE  /\ managed' = managed
         /\ \/ /\ reply'.op = "force" /\ PoolGood'
               /\ FreeUnits' = FreeUnits \ RangeOf(c)
               /\ taken' = taken \cup (RangeOf(c) \cap managed)
            \/ reply'.op = "hung" /\ taken' = taken
<1> DEFINE start == Address(c)
           size == Size(c)
<1>1. /\ start \in Nat /\ size \in Nat \ {0} /\ start + size <= PageSize * PageCount - 1
      /\ LastUnit \notin RangeOf(c) /\ RangeOf(c) = VP!Interval(start, size)
  BY RangeFacts, SameBasics DEF RangeOf
<1> HIDE DEF start, size
<1>2. start \in VP!Addr /\ size \in VP!Addr
  BY <1>1, VirtAssumption DEF VP!Addr
<1>3. VP!ForceAlloc(start, size)
  BY SameForced DEF start, size
<1>4. VP!PoolInv /\ VP!Supported(start, size)
  BY DEF PoolGood, start, size
<1>5. VP!FreeAddrs = FreeUnits /\ VP!FreeAddrs' = FreeUnits'
  BY SameFreeAddrs DEF FreeUnits
<1>6. VP!SmallPool
  <2> DEFINE max == PageSize * PageCount
             sk == PageSize * KernelStart
  <2>1. max \in Nat /\ sk \in Nat /\ max <= 2 * sk
    BY UpperHalf, VirtAssumption, PageSums, ConstantFacts
  <2>2. \A a \in VP!FreeAddrs : a \in Nat /\ sk <= a /\ a + 1 < max
    BY <1>5, FirstBlock, WholeFacts
  <2> HIDE DEF max, sk
  <2>3. \A a \in VP!FreeAddrs : 2 * (max - 1 - a) < max
    BY <2>1, <2>2
  <2> QED
    BY <2>3 DEF VP!SmallPool, max
<1>7. /\ managed' = managed
      /\ \/ /\ reply'.op = "force"
            /\ VP!PoolInv'
            /\ VP!FreeAddrs' = VP!FreeAddrs \ VP!Interval(start, size)
            /\ taken' = taken \cup (VP!Interval(start, size) \cap managed)
         \/ reply'.op = "hung"
  BY <1>1, <1>2, <1>3, <1>4, <1>6, VirtAssumption, VP!ForceAllocPool
<1>8. reply'.op = "hung" => taken' = taken
  BY <1>3 DEF VP!ForceAlloc, VP!Answer
<1>9. LastUnit \in FreeUnits /\ managed = Whole
  BY DEF PoolGood
<1>10. ASSUME reply'.op = "force", VP!PoolInv',
              VP!FreeAddrs' = VP!FreeAddrs \ VP!Interval(start, size)
       PROVE  PoolGood' /\ FreeUnits' = FreeUnits \ RangeOf(c)
  BY <1>1, <1>5, <1>7, <1>9, <1>10 DEF PoolGood, LastUnit, Whole, Virt!Interval
<1> QED
  BY <1>1, <1>7, <1>8, <1>10

LEMMA GiveBackFacts ==
  ASSUME PoolGood, NEW c, Fits(c), c.page >= KernelStart,
         VP!Returnable(Address(c), Size(c)), Virt!Free(Address(c), Size(c))
  PROVE  /\ PoolGood' /\ reply'.ok /\ reply'.op = "free"
         /\ FreeUnits' = FreeUnits \cup RangeOf(c) /\ taken' = taken \ RangeOf(c)
<1> DEFINE start == Address(c)
           size == Size(c)
<1>1. /\ start \in Nat /\ size \in Nat \ {0} /\ start + size <= PageSize * PageCount - 1
      /\ RangeOf(c) = VP!Interval(start, size)
  BY RangeFacts, SameBasics DEF RangeOf
<1>2. start # 0
  <2>1. c.page \in KernelStart .. PageCount - 1
    BY ConstantFacts DEF Fits
  <2> QED
    BY <2>1, WholeFacts DEF Address
<1> HIDE DEF start, size
<1>3. start \in VP!Addr /\ size \in VP!Addr
  BY <1>1, VirtAssumption DEF VP!Addr
<1>4. VP!Free(start, size) /\ VP!Returnable(start, size) /\ VP!PoolInv
  BY SameFree DEF PoolGood, start, size
<1>5. VP!PoolInv' /\ managed' = managed
  BY <1>1, <1>3, <1>4, VirtAssumption, VP!FreePool
<1>6. /\ reply'.ok
      /\ VP!FreeAddrs' = VP!FreeAddrs \cup VP!Interval(start, size)
      /\ taken' = taken \ VP!Interval(start, size)
  BY <1>1, <1>2, <1>4, VirtAssumption, VP!FreeAccepted
<1>7. VP!FreeAddrs = FreeUnits /\ VP!FreeAddrs' = FreeUnits'
  BY SameFreeAddrs DEF FreeUnits
<1>8. reply'.op = "free"
  BY <1>4 DEF VP!Free, VP!Answer
<1> QED
  BY <1>1, <1>5, <1>6, <1>7, <1>8 DEF PoolGood, LastUnit, Whole, Virt!Interval

-----------------------------------------------------------------------------
(* The pool may also be broken, by a range that it does not support.  What   *)
(* it still grants starts at a page of the kernel's: see the last part of    *)
(* FirstFitProofs.                                                           *)
KernelGrid == {PageSize * p : p \in KernelPages}
Shaped == VP!Rough(virt, KernelGrid)

LEMMA GridFacts ==
  ASSUME KernelIsUpper
  PROVE  /\ VP!Grid(KernelGrid)
         /\ \A p \in KernelPages : PageSize * p \in KernelGrid
         /\ \A g \in KernelGrid : \E p \in KernelPages :
              g = PageSize * p /\ g \in Nat /\ g # 0 /\ PageSize * KernelStart <= g /\ g % PageSize = 0
<1> DEFINE max == PageSize * PageCount
           sk == PageSize * KernelStart
<1>1. max \in Nat /\ sk \in Nat /\ max <= 2 * sk
  BY UpperHalf, VirtAssumption, PageSums, ConstantFacts
<1>2. ASSUME NEW p \in KernelPages
      PROVE  /\ PageSize * p \in Nat /\ PageSize * p # 0 /\ PageSize * p + 1 < max
             /\ sk <= PageSize * p /\ (PageSize * p) % PageSize = 0
  <2>1. PageSize * p \in Whole
    BY WholeFacts DEF KernelPages
  <2>0. p \in Nat
    BY ConstantFacts DEF KernelPages
  <2> DEFINE g == PageSize * p
  <2>2. g % PageSize = 0
    BY <2>0, ConstantFacts
  <2> QED
    BY <2>1, <2>2, WholeFacts
<1> HIDE DEF max, sk
<1>3. ASSUME NEW g \in KernelGrid
      PROVE  g \in Nat /\ g + 1 < max /\ sk <= g
  BY <1>2 DEF KernelGrid
<1>4. ASSUME NEW g \in KernelGrid
      PROVE  g \in 0 .. max - 1 /\ g < max - 1 /\ 2 * ((max - 1) - g) < max
  BY <1>1, <1>3
<1>5. VP!Grid(KernelGrid)
  BY <1>4 DEF VP!Grid, VP!Addr, max
<1>6. ASSUME NEW g \in KernelGrid
      PROVE  \E p \in KernelPages :
               g = PageSize * p /\ g \in Nat /\ g # 0 /\ PageSize * KernelStart <= g /\ g % PageSize = 0
  <2>1. PICK p \in KernelPages : g = PageSize * p
    BY DEF KernelGrid
  <2>2. g \in Nat /\ g # 0 /\ sk <= g /\ g % PageSize = 0
    BY <1>2, <2>1
  <2> QED
    BY <2>1, <2>2 DEF sk
<1>7. \A p \in KernelPages : PageSize * p \in KernelGrid
  BY DEF KernelGrid
<1> QED
  BY <1>5, <1>6, <1>7

(* As ranges of whole pages are. *)
LEMMA GridRange ==
  ASSUME KernelIsUpper, NEW c, Fits(c)
  PROVE  /\ Address(c) \in VP!Addr /\ Size(c) \in VP!Addr /\ Size(c) # 0
         /\ VP!Plus(Address(c), Size(c)) = Address(c) + Size(c)
         /\ Address(c) + Size(c) < PageSize * PageCount
         /\ c.page + c.count > KernelStart => VP!Plus(Address(c), Size(c)) \in KernelGrid
         /\ c.page >= KernelStart => c.page + c.count > KernelStart /\ Address(c) \in KernelGrid
<1> DEFINE start == Address(c)
           size == Size(c)
           max == PageSize * PageCount
           e == c.page + c.count
<1>1. start \in Nat /\ size \in Nat \ {0} /\ start + size <= max - 1 /\ max \in Nat
  BY RangeFacts, VirtAssumption
<1>2. start + size = PageSize * e /\ e \in Nat /\ e < PageCount
  <2>1. c.page \in Nat /\ c.count \in Nat /\ e \in Nat /\ e < PageCount
    BY ConstantFacts DEF Fits
  <2>2. PageSize * c.page + PageSize * c.count = PageSize * e
    BY <2>1, PageSums
  <2> QED
    BY <2>1, <2>2 DEF Address, Size
<1> HIDE DEF start, size, max
<1>3. start \in VP!Addr /\ size \in VP!Addr /\ start + size < max
  BY <1>1 DEF VP!Addr, max
<1>4. VP!Plus(start, size) = start + size
  BY <1>3 DEF VP!Plus, max
<1>5. e > KernelStart => PageSize * e \in KernelGrid
  BY <1>2, GridFacts, ConstantFacts DEF KernelPages
<1>6. c.page >= KernelStart => e > KernelStart /\ c.page \in KernelPages
  BY ConstantFacts DEF Fits, KernelPages
<1>7. c.page >= KernelStart => start \in KernelGrid
  BY <1>6, GridFacts DEF start, Address
<1> QED
  BY <1>1, <1>2, <1>3, <1>4, <1>5, <1>6, <1>7 DEF start, size, max

LEMMA ShapedFacts ==
  ASSUME KernelIsUpper, Shaped
  PROVE  /\ 1 \in DOMAIN virt /\ FirstFree # Virt!Null /\ DOMAIN virt = 1 .. Len(virt)
         /\ \A k \in 1 .. Len(virt) : virt[k].start \in KernelGrid
<1>1. /\ DOMAIN virt = 1 .. Len(virt) /\ 1 \in 1 .. Len(virt)
      /\ \A k \in 1 .. Len(virt) : virt[k].start \in KernelGrid
  BY GridFacts, VirtAssumption, VP!RoughFacts DEF Shaped
<1>2. virt[1].start # 0
  BY <1>1, GridFacts
<1> QED
  BY <1>1, <1>2 DEF FirstFree, Virt!Null

LEMMA ShapedReserve ==
  ASSUME KernelIsUpper, Shaped, NEW c, Fits(c), Virt!AllocAt(Address(c), Size(c))
  PROVE  /\ reply'.op = "alloc_at" /\ Shaped'
         /\ ~ NoRange => c.page >= KernelStart
<1> DEFINE start == Address(c)
           size == Size(c)
           req == [op |-> "alloc_at", arg |-> start, size |-> size]
<1>1. VP!Allocate("alloc_at", start, size)
  BY SameAllocate DEF Virt!AllocAt
<1>2. /\ start \in VP!Addr /\ size \in VP!Addr /\ size # 0
      /\ start + size < PageSize * PageCount
      /\ start \in Nat /\ size \in Nat
  BY GridRange, RangeFacts
<1>3. /\ c.page + c.count > KernelStart => VP!Plus(start, size) \in KernelGrid
      /\ c.page >= KernelStart => c.page + c.count > KernelStart
  BY GridRange
<1> HIDE DEF start, size
<1>4. \/ VP!Granted(req) /\ reply'.ok
      \/ virt' = virt /\ ~ reply'.ok
  BY <1>1, <1>2 DEF VP!Allocate, VP!Answer
<1>5. reply'.op = "alloc_at"
  BY <1>1 DEF VP!Allocate, VP!Answer
<1>6. CASE virt' = virt /\ ~ reply'.ok
  BY <1>5, <1>6, ShapedFacts DEF NoRange, Shaped, KernelGrid, KernelPages
<1>7. CASE VP!Granted(req) /\ reply'.ok
  <2>1. VP!Valid(req) /\ req.op = "alloc_at" /\ req.arg = start /\ req.size = size
    BY <1>2 DEF VP!Valid
  <2> HIDE DEF req
  <2>2. /\ VP!Grid(KernelGrid) /\ VP!Rough(virt, KernelGrid) /\ VP!Granted(req) /\ req.op # "alloc"
        /\ req.op # "alloc_aligned"
    BY <1>7, <2>1, GridFacts DEF Shaped
  <2>3. \E k \in 1 .. Len(virt) : VP!GrantedAddr(req) = start /\ start >= virt[k].start
    <3>1. \E k \in 1 .. Len(virt) :
            IF req.op = "alloc_at" THEN VP!GrantedAddr(req) = req.arg /\ req.arg >= virt[k].start
                                   ELSE VP!GrantedAddr(req) = virt[k].start
      BY <2>1, <2>2, VirtAssumption, VP!RoughPlace
    <3> QED
      BY <2>1, <3>1
  <2>4. c.page >= KernelStart
    <3>1. PageSize * KernelStart <= start
      <4>1. PICK k \in 1 .. Len(virt) : start >= virt[k].start
        BY <2>3
      <4> DEFINE s == virt[k].start
                 sk == PageSize * KernelStart
      <4>2. s \in Nat /\ sk <= s /\ sk \in Nat
        BY <4>1, ShapedFacts, GridFacts, PageSums, ConstantFacts
      <4> HIDE DEF s, sk
      <4>3. sk <= start
        BY <1>2, <4>1, <4>2 DEF s
      <4> QED
        BY <4>3 DEF sk
    <3>2. c.page < KernelStart => PageSize * c.page + PageSize <= PageSize * KernelStart
      BY PageOrder, ConstantFacts DEF Fits
    <3> DEFINE sk == PageSize * KernelStart
    <3>3. sk \in Nat /\ start = PageSize * c.page /\ c.page \in Nat
      BY PageSums, ConstantFacts DEF Fits, start, Address
    <3>4. sk <= start /\ (c.page < KernelStart => start + PageSize <= sk)
      BY <3>1, <3>2, <3>3
    <3> HIDE DEF sk
    <3> QED
      BY <1>2, <3>3, <3>4, ConstantFacts
  <2>5. VP!Rough(virt', KernelGrid)
    <3>1. req.size \in VP!Addr /\ VP!GrantedAddr(req) \in VP!Addr
          /\ VP!Plus(VP!GrantedAddr(req), req.size) \in KernelGrid
      BY <1>2, <1>3, <2>1, <2>3, <2>4
    <3> QED
      BY <2>2, <3>1, VirtAssumption, VP!RoughGrant
  <2> QED
    BY <1>5, <2>4, <2>5 DEF Shaped, KernelGrid, KernelPages
<1> QED
  BY <1>4, <1>6, <1>7

LEMMA ShapedMemMap ==
  ASSUME KernelIsUpper, Shaped, NEW count \in Nat \ {0}, NoWrap(count), NEW frame,
         Virt!AllocAligned(PageSize, PageSize * count)
  PROVE  LET c == [page |-> reply'.addr \div PageSize, frame |-> frame, count |-> count]
         IN /\ reply'.op = "alloc_aligned" /\ Shaped'
            /\ ~ NoRange => Fits(c) /\ c.page >= KernelStart
<1> DEFINE size == PageSize * count
           max == PageSize * PageCount
           addr == reply'.addr
           req == [op |-> "alloc_aligned", arg |-> PageSize, size |-> size]
<1>1. size \in Nat /\ size > 0 /\ PageSize \in Nat \ {0} /\ PageSize * (count + 1) = size + PageSize
  <2>1. PageSize * 0 + PageSize <= PageSize * count /\ PageSize * 0 = 0
    BY PageOrder, ConstantFacts
  <2>2. PageSize * count + PageSize * 1 = PageSize * (count + 1)
    BY PageSums, ConstantFacts
  <2> QED
    BY <2>1, <2>2, PageSums, ConstantFacts
<1>2. ASSUME NEW k \in 1 .. Len(virt)
      PROVE  /\ virt[k].start \in Nat /\ virt[k].start % PageSize = 0
             /\ \E q \in KernelPages : virt[k].start = PageSize * q
             /\ virt[k].start + (size + PageSize) < max
  <2>1. virt[k].start \in KernelGrid /\ k \in DOMAIN virt
    BY ShapedFacts
  <2>2. virt[k].start + PageSize * (count + 1) < max
    BY <2>1 DEF NoWrap
  <2>3. \E q \in KernelPages : /\ virt[k].start = PageSize * q /\ virt[k].start \in Nat
                               /\ virt[k].start % PageSize = 0
    BY <2>1, GridFacts
  <2> HIDE DEF size, max
  <2> QED
    BY <1>1, <2>2, <2>3
<1>3. max \in Nat /\ 1 \in 1 .. Len(virt)
  BY ShapedFacts, VirtAssumption
<1>4. VP!NoneWraps(PageSize, size) /\ size \in VP!Addr
  <2> HIDE DEF size, max
  <2>1. ASSUME NEW k \in 1 .. Len(virt)
        PROVE  virt[k].start + PageSize + size < max /\ size < max
    <3> DEFINE s == virt[k].start
    <3>1. s \in Nat /\ s + (size + PageSize) < max
      BY <1>2
    <3> HIDE DEF s
    <3>2. s + PageSize + size < max /\ size < max
      BY <1>1, <1>3, <3>1
    <3> QED
      BY <3>2 DEF s
  <2>2. size \in 0 .. max - 1
    BY <1>1, <1>3, <2>1
  <2> QED
    BY <2>1, <2>2 DEF VP!NoneWraps, VP!Addr, max
<1>5. VP!Allocate("alloc_aligned", PageSize, size)
  BY SameAllocate DEF Virt!AllocAligned
<1> HIDE DEF size, max
<1>6. \/ VP!Granted(req) /\ reply'.ok /\ addr = VP!GrantedAddr(req)
      \/ virt' = virt /\ ~ reply'.ok
  BY <1>1, <1>5 DEF VP!Allocate, VP!Answer
<1>7. reply'.op = "alloc_aligned"
  BY <1>5 DEF VP!Allocate, VP!Answer
<1>8. CASE virt' = virt /\ ~ reply'.ok
  BY <1>7, <1>8, ShapedFacts DEF NoRange, Shaped, KernelGrid, KernelPages
<1>9. CASE VP!Granted(req) /\ reply'.ok /\ addr = VP!GrantedAddr(req)
  <2> DEFINE p == addr \div PageSize
             c == [page |-> p, frame |-> frame, count |-> count]
  <2>1. /\ VP!Valid(req) /\ req.op = "alloc_aligned" /\ req.arg = PageSize /\ req.size = size
        /\ \A k \in 1 .. Len(virt) : VP!IsAligned(virt[k].start, PageSize)
    BY <1>1, <1>2, <1>4 DEF VP!Valid, VP!IsAligned
  <2>2. /\ VP!Grid(KernelGrid) /\ VP!Rough(virt, KernelGrid) /\ VP!Granted(req) /\ req.op # "alloc"
        /\ req.op # "alloc_at"
    BY <1>9, <2>1, GridFacts DEF Shaped
  <2> HIDE DEF req
  <2>3. PICK k \in 1 .. Len(virt) : VP!GrantedAddr(req) = virt[k].start
    <3>1. \E k \in 1 .. Len(virt) :
            IF req.op = "alloc_at" THEN VP!GrantedAddr(req) = req.arg /\ req.arg >= virt[k].start
                                   ELSE VP!GrantedAddr(req) = virt[k].start
      BY <2>1, <2>2, VirtAssumption, VP!RoughPlace
    <3> QED
      BY <2>2, <3>1
  <2>4. addr = virt[k].start
    BY <1>9, <2>3
  <2> HIDE DEF addr
  <2>5. PICK q \in KernelPages : addr = PageSize * q
    BY <1>2, <2>4
  <2>6. p = q /\ q \in Nat /\ q >= KernelStart
    <3>1. (PageSize * q) \div PageSize = q
      BY WholeFacts DEF KernelPages
    <3> QED
      BY <2>5, <3>1, ConstantFacts DEF KernelPages
  <2>7. addr \in Nat /\ addr + (size + PageSize) < max
    BY <1>2, <2>4
  <2> HIDE DEF p
  <2>8. q + count < PageCount
    <3> DEFINE e == q + count
               se == PageSize * e
    <3>1. addr + size = se /\ e \in Nat /\ se \in Nat
      BY <2>5, <2>6, PageSums DEF size
    <3> HIDE DEF e
    <3>2. PageCount < e => max + PageSize <= se
      BY <3>1, PageOrder, ConstantFacts DEF max
    <3>3. PageCount = e => max = se
      BY DEF max
    <3>4. PageCount \in Nat
      BY ConstantFacts
    <3> HIDE DEF se
    <3>5. e < PageCount
      BY <1>1, <1>3, <2>7, <3>1, <3>2, <3>3, <3>4
    <3> QED
      BY <3>5 DEF e
  <2>9. Fits(c) /\ c.page >= KernelStart
    BY <2>6, <2>8 DEF Fits
  <2>10. Address(c) = addr /\ Size(c) = size
    BY <2>5, <2>6 DEF Address, Size, size
  <2>11. VP!GrantedAddr(req) \in VP!Addr /\ VP!Plus(VP!GrantedAddr(req), req.size) \in KernelGrid
    <3> HIDE DEF c
    <3> QED
      BY <2>1, <2>3, <2>4, <2>9, <2>10, GridRange
  <2>12. Shaped'
    <3>1. VP!Rough(virt', KernelGrid)
      BY <1>4, <2>1, <2>2, <2>11, VirtAssumption, VP!RoughGrant
    <3> QED
      BY <3>1 DEF Shaped, KernelGrid, KernelPages
  <2> QED
    BY <1>7, <2>9, <2>12 DEF p, addr
<1> QED
  BY <1>6, <1>8, <1>9

LEMMA ShapedForced ==
  ASSUME KernelIsUpper, Shaped, NEW c, Fits(c), Virt!ForceAlloc(Address(c), Size(c)), ~ Hung'
  PROVE  Shaped'
<1> DEFINE start == Address(c)
           size == Size(c)
           max == PageSize * PageCount
           e == c.page + c.count
<1>1. /\ start \in VP!Addr /\ size \in VP!Addr /\ size # 0
      /\ VP!Plus(start, size) = start + size
      /\ e > KernelStart => VP!Plus(start, size) \in KernelGrid
  BY GridRange
<1>2. VP!ForceAlloc(start, size)
  BY SameForced
<1>3. e \in Nat /\ start + size = PageSize * e /\ start + size \in Nat
  <2>1. c.page \in Nat /\ c.count \in Nat /\ e \in Nat
    BY ConstantFacts DEF Fits
  <2>2. PageSize * c.page + PageSize * c.count = PageSize * e /\ PageSize * e \in Nat
    BY <2>1, PageSums
  <2> QED
    BY <2>1, <2>2 DEF Address, Size
<1> HIDE DEF start, size, e
<1>4. reply'.op = "force"
  BY <1>2 DEF VP!ForceAlloc, VP!Answer, Hung, Virt!Hung
<1>5. ASSUME NEW k \in 1 .. Len(virt), virt[k].start < VP!Plus(start, size)
      PROVE  VP!Plus(start, size) \in KernelGrid
  <2> DEFINE s == virt[k].start
             sk == PageSize * KernelStart
             se == PageSize * e
  <2>1. s \in Nat /\ sk <= s /\ sk \in Nat /\ se \in Nat
    BY <1>3, ShapedFacts, GridFacts, PageSums, ConstantFacts
  <2>2. s < se
    BY <1>1, <1>3, <1>5
  <2>3. e < KernelStart => se + PageSize <= sk
    BY <1>3, PageOrder, ConstantFacts
  <2>4. e = KernelStart => se = sk
    OBVIOUS
  <2> HIDE DEF s, sk, se
  <2>5. e > KernelStart
    BY <1>3, <2>1, <2>2, <2>3, <2>4, ConstantFacts
  <2> QED
    BY <1>1, <2>5
<1>6. VP!Rough(virt', KernelGrid)
  <2>1. VP!Grid(KernelGrid) /\ VP!Rough(virt, KernelGrid)
    BY GridFacts DEF Shaped
  <2> QED
    BY <1>1, <1>2, <1>4, <1>5, <2>1, VirtAssumption, VP!RoughForce
<1> QED
  BY <1>6 DEF Shaped, KernelGrid, KernelPages

LEMMA ShapedGiveBack ==
  ASSUME KernelIsUpper, Shaped, NEW c, Fits(c), c.page >= KernelStart,
         Virt!Free(Address(c), Size(c))
  PROVE  reply'.op = "free" /\ Shaped'
<1> DEFINE start == Address(c)
           size == Size(c)
<1>1. start \in KernelGrid /\ size \in VP!Addr
  BY GridRange
<1>2. VP!Free(start, size)
  BY SameFree
<1> HIDE DEF start, size
<1>3. reply'.op = "free"
  BY <1>2 DEF VP!Free, VP!Answer
<1>4. VP!Rough(virt', KernelGrid)
  <2>1. VP!Grid(KernelGrid) /\ VP!Rough(virt, KernelGrid)
    BY GridFacts DEF Shaped
  <2> QED
    BY <1>1, <1>2, <2>1, VirtAssumption, VP!RoughFree
<1> QED
  BY <1>3, <1>4 DEF Shaped, KernelGrid, KernelPages

(* The inductive invariant, besides that of the page tables.  JobInv: the     *)
(* call under way is for whole pages, none of them the last.  MapInv holds    *)
(* whatever has become of the pool; the rest until a range is forced that the *)
(* pool does not support.  PoolPart: until the core hangs the pool is in      *)
(* order, and a range the call under way may give back can be given back.     *)
(* PromisePart: the pool, the promises and the page tables agree.             *)
ReservedJob == [by |-> "mem_map_virt_addr", forced |-> FALSE, reserved |-> TRUE]
ForcedJob == [by |-> "mem_map_virt_addr", forced |-> TRUE, reserved |-> FALSE]
MemMapJob == [by |-> "mem_map", forced |-> FALSE, reserved |-> FALSE]

JobInv ==
  /\ mapped \in 0 .. Len(KernelMappings)
  /\ job \in {Idle, ReservedJob, ForcedJob, MemMapJob}
  /\ pc # "idle" => job # Idle
  /\ job # Idle => Fits(call) /\ Pages(call) \subseteq Own
  /\ job \in {ReservedJob, MemMapJob} => call.page >= KernelStart

MapInv == /\ MmuInv /\ JobInv
          /\ Hung => job # Idle /\ pc = "idle"
          /\ ~ Hung => Shaped

PoolPart ==
  /\ managed = Whole
  /\ ~ Hung => /\ PoolGood
               /\ job = ReservedJob => VP!Returnable(Address(call), Size(call))
  /\ RollbackSucceeds

PromisedPages == {p \in Page : promised[p] # Null}
EnteredTo == IF pc = "walking" THEN i ELSE IF pc = "idle" /\ ret = "NO_ERROR" THEN call.count ELSE 0
Entered == \A k \in 0 .. EnteredTo - 1 : VirtToPhys(call.page + k) = call.frame + k
PromisePart ==
  /\ PromisedPages \subseteq Own
  /\ \A p \in Page : promised[p] # Null => VirtToPhys(p) = promised[p]
  /\ job # Idle => Pages(call) \cap PromisedPages = {}
  /\ job = ReservedJob => Pages(call) \cap lost = {}
  /\ job # Idle => Entered
  /\ RangesAccounted

SpaceInv == MapInv /\ PoolPart /\ PromisePart

LEMMA JobFacts ==
  /\ Idle # ReservedJob /\ Idle # ForcedJob /\ Idle # MemMapJob
  /\ ReservedJob # ForcedJob /\ ReservedJob # MemMapJob /\ ForcedJob # MemMapJob
  /\ Idle.by = "nobody" /\ ~ Idle.forced /\ ~ Idle.reserved
  /\ ReservedJob.by = "mem_map_virt_addr" /\ ~ ReservedJob.forced /\ ReservedJob.reserved
  /\ ForcedJob.by = "mem_map_virt_addr" /\ ForcedJob.forced /\ ~ ForcedJob.reserved
  /\ MemMapJob.by = "mem_map" /\ ~ MemMapJob.forced /\ ~ MemMapJob.reserved
BY DEF Idle, ReservedJob, ForcedJob, MemMapJob

LEMMA CallFacts ==
  ASSUME NEW c, IsCall(c), c.count # 0
  PROVE  Fits(c) /\ GoodCall(c)
BY ConstantFacts, PageTablesAssumption DEF IsCall, Fits, GoodCall

(* Pages asked for without FORCE_MAP, and page numbers at large. *)
LEMMA PagesFacts ==
  ASSUME NEW c, Fits(c)
  PROVE  /\ Pages(c) \subseteq Page
         /\ c.page >= KernelStart => Pages(c) \subseteq KernelPages
         /\ \A k \in 0 .. c.count - 1 : c.page + k \in Pages(c)
         /\ \A p \in Pages(c) : p - c.page \in 0 .. c.count - 1 /\ c.page + (p - c.page) = p
BY ConstantFacts DEF Fits, Pages, Page, KernelPages

LEMMA OwnAreOwn ==
  ASSUME NEW c, Fits(c), Pages(c) \subseteq Own PROVE OwnPages(c)
BY PagesFacts DEF OwnPages

(* A page of the kernel's stands for its first unit. *)
LEMMA PageUnits ==
  ASSUME NEW c, Fits(c), NEW p \in KernelPages
  PROVE  /\ PageSize * p \in Whole /\ PageSize * p \in Nat
         /\ (PageSize * p) \div PageSize = p
         /\ PageSize * p \in RangeOf(c) <=> p \in Pages(c)
BY WholeFacts, RangeFacts DEF KernelPages

(* A pool that does not change stays as it was. *)
LEMMA PoolStutter ==
  ASSUME UNCHANGED virtVars
  PROVE  /\ PoolGood => PoolGood'
         /\ FreeUnits' = FreeUnits /\ taken' = taken /\ managed' = managed
         /\ Hung' <=> Hung
         /\ RollbackSucceeds => RollbackSucceeds'
         /\ \A start, size : /\ VP!Supported(start, size) => VP!Supported(start, size)'
                             /\ VP!Returnable(start, size) => VP!Returnable(start, size)'
<1>1. virt' = virt /\ headers' = headers /\ taken' = taken /\ managed' = managed /\ reply' = reply
  BY DEF virtVars
<1>2. VP!FreeAddrs' = VP!FreeAddrs /\ FreeUnits' = FreeUnits
  BY <1>1 DEF VP!FreeAddrs, FreeUnits, Virt!FreeAddrs
<1>3. VP!PoolInv => VP!PoolInv'
  BY <1>1, <1>2 DEF VP!PoolInv, VP!Coalesced, VP!Isolated, VP!Conserved
<1>4. ASSUME NEW start, NEW size
      PROVE  /\ VP!Supported(start, size) => VP!Supported(start, size)'
             /\ VP!Returnable(start, size) => VP!Returnable(start, size)'
  BY <1>1, <1>2 DEF VP!Supported, VP!Returnable
<1>5. PoolGood => PoolGood'
  BY <1>1, <1>2, <1>3 DEF PoolGood, Whole, LastUnit, Virt!Interval
<1>6. (Hung' <=> Hung) /\ (RollbackSucceeds => RollbackSucceeds')
  BY <1>1 DEF Hung, Virt!Hung, RollbackSucceeds
<1> QED
  BY <1>1, <1>2, <1>4, <1>5, <1>6

-----------------------------------------------------------------------------
(* What holds also of a pool that is broken: that every page asked of         *)
(* mmu_map_memory can be mapped.                                              *)
MapKept == MapInv' /\ [AddressSpace!Next]_(AddressSpace!vars)

LEMMA ShapedStutter ==
  ASSUME UNCHANGED virtVars
  PROVE  (Shaped => Shaped') /\ (Hung' <=> Hung)
BY DEF virtVars, Shaped, VP!Rough, VP!End, VP!Plus, VP!Placed, VP!Block, VP!Addr, KernelGrid,
       KernelPages, Hung, Virt!Hung

LEMMA InitMap ==
  ASSUME Init, CallsOwn PROVE MapInv
<1> DEFINE start == PageSize * KernelStart
           max == PageSize * PageCount
           b == [start |-> start, size |-> SpaceSize]
<1>1. MmuInv /\ job = Idle /\ pc = "idle" /\ mapped = 0 /\ virt = <<b>> /\ reply.op = "add"
  BY MmuInitInv DEF Init, MmuInit
<1>2. JobInv
  <2>1. Len(KernelMappings) \in Nat
    BY DEF CallsOwn, SomeMappings
  <2> QED
    BY <1>1, <2>1, JobFacts DEF JobInv
<1>3. start \in Nat /\ max \in Nat /\ SpaceSize = max - 1 - start /\ start + PageSize <= max
  BY PageOrder, PageSums, ConstantFacts, VirtAssumption DEF SpaceSize
<1>4. start \in KernelGrid
  BY GridFacts, ConstantFacts DEF CallsOwn, KernelPages
<1> HIDE DEF start, max
<1>5. /\ start \in 0 .. max - 1 /\ SpaceSize \in 0 .. max - 1 /\ start + SpaceSize = max - 1
      /\ (max - 1) % max = max - 1
  BY <1>3, ConstantFacts
<1>6. b \in VP!Placed(KernelGrid) /\ VP!End(b) = max - 1
  <2>1. VP!Addr = 0 .. max - 1
    BY DEF VP!Addr, max
  <2>2. b.start = start /\ b.size = SpaceSize /\ b \in VP!Placed(KernelGrid)
    BY <1>4, <1>5, <2>1 DEF VP!Placed, VP!Block
  <2>3. VP!End(b) = VP!Plus(start, SpaceSize)
    BY <2>2 DEF VP!End
  <2>4. VP!Plus(start, SpaceSize) = start + SpaceSize
    <3>1. start \in Nat /\ SpaceSize \in Nat /\ start + SpaceSize < max /\ max \in Nat
      BY <1>3, <1>5
    <3> QED
      BY <3>1 DEF VP!Plus, max
  <2> QED
    BY <1>5, <2>2, <2>3, <2>4
<1>7. VP!Rough(virt, KernelGrid)
  <2> HIDE DEF b
  <2>1. virt \in Seq(VP!Placed(KernelGrid)) /\ Len(virt) = 1 /\ virt[1] = b
    BY <1>1, <1>6
  <2> QED
    BY <1>6, <2>1 DEF VP!Rough, max
<1> QED
  BY <1>1, <1>2, <1>7 DEF MapInv, Hung, Virt!Hung, Shaped

LEMMA MapIdle ==
  ASSUME MapInv, job = Idle PROVE pc = "idle" /\ ~ Hung /\ Shaped
BY DEF MapInv, JobInv

(* A call is refused. *)
LEMMA MapReturn ==
  ASSUME MapInv, job = Idle, NEW err, Return(err), Shaped', reply'.op # "hung",
         mapped' \in 0 .. Len(KernelMappings)
  PROVE  MapKept
<1>1. UNCHANGED mmuVars /\ job' = Idle
  BY DEF Return
<1>2. MmuInv' /\ UNCHANGED (AddressSpace!vars) /\ pc' = "idle"
  BY <1>1, MapIdle, MmuStutter DEF MapInv, mmuVars
<1>3. JobInv'
  BY <1>1, <1>2, JobFacts DEF JobInv
<1> QED
  BY <1>2, <1>3 DEF MapKept, MapInv, Hung, Virt!Hung

(* A call goes on to the page tables. *)
LEMMA MapGoOn ==
  ASSUME MapInv, job = Idle, NEW c, Fits(c), GoodCall(c), Pages(c) \subseteq Own,
         NEW by, NEW forced, NEW reserved, GoOn(c, by, forced, reserved),
         job' \in {ReservedJob, ForcedJob, MemMapJob},
         job' # ForcedJob => c.page >= KernelStart,
         Shaped', reply'.op # "hung", mapped' \in 0 .. Len(KernelMappings)
  PROVE  MapKept
<1>1. MapMemory(c) /\ call' = c
  BY DEF GoOn, MapMemory
<1>2. MmuInv' /\ AddressSpace!Ask
  BY <1>1, OwnAreOwn, MapMemoryInv, AskStep DEF MapInv
<1>3. JobInv'
  <2>1. Fits(call)' /\ Pages(call)' \subseteq Own /\ ((call.page)' >= KernelStart <=> c.page >= KernelStart)
    BY <1>1 DEF Fits, Pages
  <2> QED
    BY <2>1, JobFacts DEF JobInv
<1> QED
  BY <1>2, <1>3 DEF MapKept, MapInv, Hung, Virt!Hung, AddressSpace!Next

LEMMA MapKernelCall ==
  ASSUME MapInv, CallsOwn, MakeKernelMappings PROVE MapKept
<1> DEFINE c == KernelMappings[mapped + 1]
<1>0. /\ mapped < Len(KernelMappings) /\ mapped' = mapped + 1
      /\ job = Idle /\ MemMapVirtAddr(c, TRUE)
  BY DEF MakeKernelMappings, MemMapVirtAddr
<1>1. mapped + 1 \in DOMAIN KernelMappings /\ mapped' \in 0 .. Len(KernelMappings)
  <2>1. Len(KernelMappings) \in Nat /\ DOMAIN KernelMappings = 1 .. Len(KernelMappings)
    BY DEF CallsOwn, SomeMappings
  <2> QED
    BY <1>0, <2>1 DEF MapInv, JobInv
<1>2. IsCall(c) /\ Pages(c) \subseteq Own
  BY <1>1, AddrSpaceAssumption DEF CallsOwn, AsksOwn
<1> HIDE DEF c
<1>3. UNCHANGED virtVars => Shaped' /\ reply'.op # "hung"
  BY <1>0, MapIdle, ShapedStutter DEF Hung, Virt!Hung
<1>4. CASE c.count = 0 /\ Return("BAD_PARAM") /\ UNCHANGED virtVars
  BY <1>0, <1>1, <1>3, <1>4, MapReturn
<1>5. CASE c.count # 0 /\ GoOn(c, "mem_map_virt_addr", TRUE, FALSE) /\ UNCHANGED virtVars
  <2>1. Fits(c) /\ GoodCall(c) /\ job' = ForcedJob
    BY <1>2, <1>5, CallFacts DEF GoOn, ForcedJob
  <2> QED
    BY <1>0, <1>1, <1>2, <1>3, <1>5, <2>1, MapGoOn
<1> QED
  BY <1>0, <1>4, <1>5 DEF MemMapVirtAddr

LEMMA MapClientCall ==
  ASSUME MapInv, CallsOwn, ClientCalls PROVE MapKept
<1>0. mapped' \in 0 .. Len(KernelMappings) /\ KernelIsUpper /\ KernelPages \subseteq Own
  BY DEF ClientCalls, MapInv, JobInv, CallsOwn, AsksOwn
<1>1. ASSUME UNCHANGED virtVars, job = Idle PROVE Shaped' /\ reply'.op # "hung"
  BY <1>1, MapIdle, ShapedStutter DEF Hung, Virt!Hung
<1>2. ASSUME NEW c \in Calls, NEW forced \in BOOLEAN, MemMapVirtAddr(c, forced)
      PROVE  MapKept
  <2>1. job = Idle /\ IsCall(c) /\ Pages(c) \subseteq Own /\ Shaped
    BY <1>2, AddrSpaceAssumption, MapIdle DEF MemMapVirtAddr, CallsOwn, AsksOwn
  <2>2. CASE c.count = 0 /\ Return("BAD_PARAM") /\ UNCHANGED virtVars
    BY <1>0, <1>1, <2>1, <2>2, MapReturn
  <2>3. CASE c.count # 0 /\ Reserve(c)
    <3>1. Fits(c) /\ GoodCall(c)
      BY <2>1, <2>3, CallFacts
    <3>2. reply'.op = "alloc_at" /\ Shaped' /\ (~ NoRange => c.page >= KernelStart)
      BY <1>0, <2>1, <2>3, <3>1, ShapedReserve DEF Reserve
    <3>3. CASE NoRange /\ Return("NO_MEMORY")
      BY <1>0, <2>1, <3>2, <3>3, MapReturn
    <3>4. CASE ~ NoRange /\ GoOn(c, "mem_map_virt_addr", FALSE, TRUE)
      <4>1. job' = ReservedJob
        BY <3>4 DEF GoOn, ReservedJob
      <4> QED
        BY <1>0, <2>1, <3>1, <3>2, <3>4, <4>1, MapGoOn
    <3> QED
      BY <2>3, <3>3, <3>4 DEF Reserve
  <2>4. CASE c.count # 0 /\ GoOn(c, "mem_map_virt_addr", TRUE, FALSE) /\ UNCHANGED virtVars
    <3>1. Fits(c) /\ GoodCall(c) /\ job' = ForcedJob
      BY <2>1, <2>4, CallFacts DEF GoOn, ForcedJob
    <3> QED
      BY <1>0, <1>1, <2>1, <2>4, <3>1, MapGoOn
  <2> QED
    BY <1>2, <2>2, <2>3, <2>4 DEF MemMapVirtAddr
<1>3. ASSUME NEW m \in MemMapCalls, NoWrap(m.count), MemMap(m.frame, m.count)
      PROVE  MapKept
  <2>1. /\ job = Idle /\ Shaped
        /\ m.frame \in Nat /\ m.count \in Nat /\ m.frame + m.count <= FrameCount
    BY <1>3, AddrSpaceAssumption, MapIdle DEF MemMap
  <2>2. CASE m.count = 0 /\ Return("BAD_PARAM") /\ UNCHANGED virtVars
    BY <1>0, <1>1, <2>1, <2>2, MapReturn
  <2> DEFINE c == [page |-> reply'.addr \div PageSize, frame |-> m.frame, count |-> m.count]
  <2>3. CASE /\ m.count # 0 /\ Virt!AllocAligned(PageSize, PageSize * m.count)
             /\ \/ NoRange /\ Return("NO_MEMORY")
                \/ ~ NoRange /\ GoOn(c, "mem_map", FALSE, FALSE)
    <3>1. /\ reply'.op = "alloc_aligned" /\ Shaped'
          /\ ~ NoRange => Fits(c) /\ c.page >= KernelStart
      BY <1>0, <1>3, <2>1, <2>3, ShapedMemMap
    <3>2. CASE NoRange
      BY <1>0, <2>1, <2>3, <3>1, <3>2, MapReturn
    <3>3. CASE ~ NoRange
      <4>1. c.frame = m.frame /\ c.count = m.count
        OBVIOUS
      <4> HIDE DEF c
      <4>2. GoodCall(c) /\ Pages(c) \subseteq Own
        BY <1>0, <2>1, <3>1, <3>3, <4>1, PagesFacts, ConstantFacts DEF Fits, GoodCall
      <4>3. job' = MemMapJob
        BY <2>3, <3>3 DEF GoOn, MemMapJob
      <4> QED
        BY <1>0, <2>1, <2>3, <3>1, <3>3, <4>2, <4>3, MapGoOn
    <3> QED
      BY <3>2, <3>3
  <2> QED
    BY <1>3, <2>2, <2>3 DEF MemMap
<1> QED
  BY <1>2, <1>3 DEF ClientCalls, Request

(* What a step of mmu_map_memory maps: the page it is at, if any. *)
LEMMA StepMaps ==
  ASSUME MmuInv, OwnInv, Step
  PROVE  /\ pc # "idle" /\ call' = call
         /\ \/ /\ \A p \in Own : VirtToPhys(p)' = VirtToPhys(p)
               /\ pc' = "walking" => pc = "walking" /\ i' = i
               /\ pc' = "idle" => ret' # "NO_ERROR"
            \/ /\ pc = "walking" /\ i \in Nat /\ i < call.count /\ i' = i + 1
               /\ pc' \in {"idle", "walking"} /\ (pc' = "idle" => i' = call.count)
               /\ \A p \in Own : VirtToPhys(p)' = IF p = call.page + i THEN call.frame + i
                                                  ELSE VirtToPhys(p)
<1>1. CASE Descend
  BY <1>1 DEF Descend, VirtToPhys
<1>2. CASE AllocTable
  BY <1>2, AllocTableFacts DEF AllocTable, Own
<1>3. CASE NoTable
  BY <1>3 DEF NoTable, VirtToPhys
<1>4. CASE ErrorPath
  <2>1. ret = "NO_MEMORY"
    BY <1>4 DEF ErrorPath, MmuInv, WalkInv
  <2> QED
    BY <1>4, <2>1 DEF ErrorPath, VirtToPhys
<1>5. CASE EnterPage
  <2>1. /\ i \in Nat /\ i < call.count /\ call.count \in Nat
    BY <1>5 DEF MmuInv, WalkInv, EnterPage, GoodCall
  <2>2. /\ pc = "walking" /\ i' = i + 1 /\ call' = call
        /\ pc' = IF i + 1 >= call.count THEN "idle" ELSE "walking"
    BY <1>5 DEF EnterPage, NextPage, LastPage
  <2>3. PageNow \in Own
    BY <2>1, <2>2 DEF OwnInv, OwnPages, PageNow
  <2>4. \A p \in Own : VirtToPhys(p)' = IF p = PageNow THEN PhysicalAddr ELSE VirtToPhys(p)
    <3>1. /\ WalkIn(entry', PageNow)[-1] = PhysicalAddr
          /\ \A p \in Own \ {PageNow} : VirtToPhys(p)' = VirtToPhys(p)
      BY <1>5, <2>3, EnterPageFacts
    <3> QED
      BY <3>1 DEF VirtToPhys
  <2> QED
    BY <2>1, <2>2, <2>4 DEF PhysicalAddr, PageNow
<1> QED
  BY <1>1, <1>2, <1>3, <1>4, <1>5 DEF Step

LEMMA MapMapping ==
  ASSUME MapInv, Mapping PROVE MapKept
<1>0. Step /\ UNCHANGED virtVars /\ UNCHANGED <<mapped, job>>
  BY DEF Mapping
<1>1. pc # "idle"
  BY <1>0 DEF Step, Descend, AllocTable, NoTable, EnterPage, ErrorPath
<1>2. job # Idle /\ Fits(call) /\ Pages(call) \subseteq Own /\ MmuInv /\ ~ Hung
  BY <1>1 DEF MapInv, JobInv
<1>3. OwnInv
  BY <1>2, OwnAreOwn DEF OwnInv
<1>4. MmuInv' /\ [AddressSpace!Next]_(AddressSpace!vars) /\ call' = call
  BY <1>0, <1>2, <1>3, StepInv, StepRefines, StepMaps
<1>5. JobInv'
  BY <1>0, <1>2, <1>4 DEF MapInv, JobInv, Fits, Pages
<1>6. ~ Hung' /\ Shaped'
  BY <1>0, <1>2, ShapedStutter DEF MapInv
<1> QED
  BY <1>4, <1>5, <1>6 DEF MapKept, MapInv

(* The call is done, and the pool is told. *)
LEMMA MapFinish ==
  ASSUME MapInv, CallsOwn, Finish PROVE MapKept
<1>0. /\ UNCHANGED mmuVars /\ mapped' = mapped /\ job # Idle /\ job' = Idle /\ pc = "idle" /\ ~ Hung
      /\ Succeed \/ Fail
  BY DEF Finish, Hung
<1>1. /\ MmuInv' /\ UNCHANGED (AddressSpace!vars) /\ pc' = "idle" /\ KernelIsUpper
      /\ Shaped /\ Fits(call)
  BY <1>0, MmuStutter DEF MapInv, JobInv, mmuVars, CallsOwn
<1>2. JobInv'
  BY <1>0, <1>1, JobFacts DEF MapInv, JobInv
<1>3. UNCHANGED virtVars => ~ Hung' /\ Shaped'
  BY <1>0, <1>1, ShapedStutter
<1>4. ASSUME Succeed PROVE ~ Hung' /\ Shaped'
  <2>1. ~ Hung' /\ (UNCHANGED virtVars \/ Virt!ForceAlloc(Address(call), Size(call)))
    BY <1>4 DEF Succeed, TakeForced, Hung
  <2> QED
    BY <1>1, <1>3, <2>1, ShapedForced
<1>5. ASSUME Fail PROVE ~ Hung' /\ Shaped'
  <2>1. CASE GivesBack
    <3>1. call.page >= KernelStart
      BY <1>0, <2>1, JobFacts DEF GivesBack, MapInv, JobInv
    <3>2. Virt!Free(Address(call), Size(call))
      BY <1>5, <2>1 DEF Fail
    <3> QED
      BY <1>1, <3>1, <3>2, ShapedGiveBack DEF Hung, Virt!Hung
  <2>2. CASE ~ GivesBack
    BY <1>3, <1>5, <2>2 DEF Fail
  <2> QED
    BY <2>1, <2>2
<1> QED
  BY <1>0, <1>1, <1>2, <1>4, <1>5 DEF MapKept, MapInv

LEMMA MapStep ==
  ASSUME MapInv, CallsOwn, [Next]_vars PROVE MapKept
<1>1. CASE Hang
  <2>1. /\ UNCHANGED mmuVars /\ UNCHANGED <<mapped, job>> /\ job # Idle /\ pc = "idle" /\ Hung'
    BY <1>1 DEF Hang, Hung
  <2>2. MmuInv' /\ UNCHANGED (AddressSpace!vars) /\ pc' = "idle"
    BY <2>1, MmuStutter DEF MapInv, mmuVars
  <2>3. JobInv'
    BY <2>1, <2>2 DEF MapInv, JobInv, mmuVars, Fits, Pages
  <2> QED
    BY <2>1, <2>2, <2>3 DEF MapKept, MapInv, Idle
<1>2. CASE UNCHANGED vars
  <2>1. UNCHANGED mmuVars /\ UNCHANGED virtVars /\ UNCHANGED <<mapped, job>>
    BY <1>2 DEF vars
  <2>2. MmuInv' /\ UNCHANGED (AddressSpace!vars) /\ pc' = pc
    BY <2>1, MmuStutter DEF MapInv, mmuVars
  <2>3. JobInv'
    BY <2>1 DEF MapInv, JobInv, mmuVars, Fits, Pages
  <2>4. (Shaped => Shaped') /\ (Hung' <=> Hung)
    BY <2>1, ShapedStutter
  <2> QED
    BY <2>1, <2>2, <2>3, <2>4 DEF MapKept, MapInv, Idle
<1> QED
  BY <1>1, <1>2, MapKernelCall, MapClientCall, MapMapping, MapFinish DEF Next

-----------------------------------------------------------------------------
(* Of a pool that is in order.  An idle system. *)
LEMMA IdleFacts ==
  ASSUME SpaceInv, job = Idle
  PROVE  /\ pc = "idle" /\ ~ Hung /\ PoolGood /\ managed = Whole
         /\ FreeUnits \subseteq Whole /\ FreeUnits \cap taken = {}
         /\ InHand = {} /\ taken = Units(PromisedPages \cup lost)
<1>1. pc = "idle" /\ ~ Hung /\ PoolGood
  BY MapIdle DEF SpaceInv, PoolPart
<1>2. InHand = {}
  BY JobFacts DEF InHand
<1>3. taken = Units(PromisedPages \cup lost)
  BY <1>2 DEF SpaceInv, PromisePart, RangesAccounted, PromisedPages
<1> QED
  BY <1>1, <1>2, <1>3, FirstBlock

(* The pool that boot makes. *)
LEMMA InitPool ==
  ASSUME Init
  PROVE  PoolGood /\ FreeUnits = Whole /\ taken = {}
<1> DEFINE start == PageSize * KernelStart
           size == SpaceSize
           b == [start |-> start, size |-> size]
           max == PageSize * PageCount
<1>1. virt = <<b>> /\ headers \in Nat /\ taken = {} /\ managed = Whole
  BY AddrSpaceAssumption DEF Init, Whole
<1>2. start \in Nat /\ size \in Nat /\ size > 0 /\ start + size <= max - 1 /\ max \in Nat
  <2>1. start + PageSize <= max
    BY PageOrder, ConstantFacts
  <2>2. start \in Nat /\ max \in Nat /\ PageSize \in Nat /\ PageSize > 1 /\ size = max - 1 - start
    BY PageSums, ConstantFacts, VirtAssumption DEF SpaceSize
  <2> HIDE DEF start, size, max
  <2> QED
    BY <2>1, <2>2
<1> HIDE DEF start, size
<1>3. b \in VP!Block
  <2>1. start \in 0 .. max - 1 /\ size \in 0 .. max - 1
    <3> HIDE DEF max
    <3> QED
      BY <1>2
  <2> QED
    BY <2>1 DEF VP!Block, VP!Addr
<1>4. virt \in Seq(VP!Block) /\ Len(virt) = 1 /\ virt[1] = b /\ DOMAIN virt = {1}
  BY <1>1, <1>3
<1>5. VP!Coalesced
  BY <1>2, <1>4 DEF VP!Coalesced, VP!WellFormed
<1>6. VP!FreeAddrs = VP!Interval(start, size)
  BY <1>4 DEF VP!FreeAddrs, VP!AddrsOf
<1>7. VP!Interval(start, size) = Whole
  BY SameBasics DEF Whole, start, size
<1>8. Whole \subseteq 0 .. max - 1
  BY WholeFacts, VirtAssumption
<1>9. VP!PoolInv
  BY <1>1, <1>4, <1>5, <1>6, <1>7, <1>8 DEF VP!PoolInv, VP!Isolated, VP!Conserved
<1>10. FreeUnits = Whole /\ LastUnit \in Whole
  BY <1>6, <1>7, SameFreeAddrs, WholeFacts DEF FreeUnits
<1> QED
  BY <1>1, <1>9, <1>10 DEF PoolGood

LEMMA InitSpace ==
  ASSUME Init, CallsOwn PROVE SpaceInv
<1>1. MapInv
  BY InitMap
<1>2. PoolGood /\ FreeUnits = Whole /\ taken = {} /\ managed = Whole
  BY InitPool DEF Init, Whole
<1>3. job = Idle /\ pc = "idle" /\ mapped = 0 /\ lost = {}
  BY DEF Init, MmuInit
<1>4. reply.op = "add"
  BY DEF Init
<1>6. PoolPart
  BY <1>2, <1>3, <1>4, JobFacts DEF PoolPart, RollbackSucceeds
<1>8. PromisedPages = {} /\ \A p \in Page : promised[p] = Null
  BY DEF Init, PromisedPages
<1>9. RangesAccounted
  BY <1>2, <1>3, <1>8, JobFacts DEF RangesAccounted, InHand, Units, PromisedPages
<1>10. PromisePart
  BY <1>3, <1>8, <1>9, JobFacts DEF PromisePart
<1> QED
  BY <1>1, <1>6, <1>10 DEF SpaceInv

(* Whatever is free and mapped, a call has failed on, or is to do with the call
   under way or with the first one to come. *)
Unmapped ==
  ~ Hung => \A p \in KernelPages :
              VirtToPhys(p) # Null /\ PageSize * p \in FreeUnits =>
                \/ p \in spoiled
                \/ job # Idle /\ p \in Pages(call)
                \/ mapped = 0 /\ p \in Pages(First)

LEMMA InitUnmapped ==
  ASSUME Init, BootMapsFirst PROVE Unmapped
<1>1. \A p \in Page : VirtToPhys(p) = WalkIn(BootEntry, p)[-1]
  BY InitTables DEF Init, MmuInit, VirtToPhys
<1>2. KernelPages \subseteq Page
  BY ConstantFacts DEF KernelPages, Page
<1> QED
  BY <1>1, <1>2 DEF BootMapsFirst, Unmapped, Init

(* What a step keeps that leaves the pool in order. *)
Kept == SpaceInv' /\ (Unmapped => Unmapped')

(* A call that is refused. *)
LEMMA RefusedInv ==
  ASSUME SpaceInv, job = Idle, NEW err, Return(err), PoolSame,
         RollbackSucceeds', MapInv',
         mapped' = mapped \/ (mapped = 0 => Pages(First) = {})
  PROVE  Kept
<1>0. /\ UNCHANGED mmuVars /\ UNCHANGED <<promised, lost, spoiled>>
      /\ job' = Idle /\ answer' = err
  BY DEF Return
<1>1. \A p : VirtToPhys(p)' = VirtToPhys(p)
  BY <1>0, MmuStutter
<1>2. /\ pc = "idle" /\ PoolGood /\ managed = Whole /\ InHand = {}
      /\ taken = Units(PromisedPages \cup lost)
  BY IdleFacts
<1>3. PoolGood' /\ FreeUnits' = FreeUnits /\ taken' = taken /\ managed' = Whole
  BY DEF PoolSame, PoolGood, Whole, Virt!Interval
<1>7. PoolPart'
  BY <1>0, <1>3, JobFacts DEF PoolPart, Whole, Virt!Interval
<1>9. PromisedPages' = PromisedPages
  BY <1>0 DEF PromisedPages
<1>10. RangesAccounted'
  <2>1. InHand' = {}
    BY <1>0, JobFacts DEF InHand
  <2>2. Units(PromisedPages \cup lost)' = Units(PromisedPages \cup lost)
    BY <1>0, <1>2, <1>3, <1>9 DEF Units
  <2> QED
    BY <1>2, <1>3, <2>1, <2>2 DEF RangesAccounted, PromisedPages
<1>11. PromisePart'
  BY <1>0, <1>1, <1>9, <1>10, JobFacts DEF PromisePart, SpaceInv
<1>12. Unmapped => Unmapped'
  <2> SUFFICES ASSUME Unmapped, NEW p \in KernelPages, VirtToPhys(p)' # Null,
                      PageSize * p \in FreeUnits'
               PROVE  p \in spoiled' \/ (mapped' = 0 /\ p \in Pages(First))
    BY DEF Unmapped, First, Pages
  <2>1. VirtToPhys(p) # Null /\ PageSize * p \in FreeUnits /\ ~ Hung
    BY <1>1, <1>3, IdleFacts
  <2> QED
    BY <1>0, <2>1 DEF Unmapped
<1> QED
  BY <1>7, <1>11, <1>12 DEF SpaceInv, Kept

(* A call that goes on to the page tables with a range of its own. *)
LEMMA WentOnInv ==
  ASSUME SpaceInv, KernelPages \subseteq Own, job = Idle,
         mapped' = mapped, MapInv', NEW c, Fits(c), c.page >= KernelStart,
         NEW reserved \in BOOLEAN, NEW by, by = IF reserved THEN "mem_map_virt_addr" ELSE "mem_map",
         GoOn(c, by, FALSE, reserved),
         Reserved(c), reserved => VP!Returnable(Address(c), Size(c))',
         reply'.op # "free"
  PROVE  Kept
<1>0. /\ MapMemory(c) /\ UNCHANGED <<promised, lost, spoiled>>
      /\ job' = [by |-> by, forced |-> FALSE, reserved |-> reserved]
      /\ entry' = entry /\ call' = c /\ i' = 0 /\ pc' = "walking" /\ c.count # 0
  BY DEF GoOn, MapMemory, Fits
<1>2. \A p : VirtToPhys(p)' = VirtToPhys(p)
  BY <1>0 DEF VirtToPhys
<1>3. job' \in {ReservedJob, MemMapJob} /\ (job' = ReservedJob => reserved)
  BY <1>0 DEF ReservedJob, MemMapJob
<1>4. /\ pc = "idle" /\ ~ Hung /\ PoolGood /\ managed = Whole /\ InHand = {}
      /\ FreeUnits \subseteq Whole /\ FreeUnits \cap taken = {}
      /\ taken = Units(PromisedPages \cup lost)
  BY IdleFacts
<1>5. /\ PoolGood' /\ managed' = Whole /\ RangeOf(c) \subseteq FreeUnits
      /\ FreeUnits' = FreeUnits \ RangeOf(c) /\ taken' = taken \cup RangeOf(c)
  BY DEF Reserved, PoolGood, Whole, Virt!Interval
<1>6. Pages(c) \subseteq KernelPages
  BY PagesFacts
<1>9. PoolPart'
  <2>1. job' = ReservedJob => VP!Returnable(Address(call), Size(call))'
    BY <1>0, <1>3 DEF VP!Returnable, VP!FreeAddrs, Address, Size
  <2>2. RollbackSucceeds'
    BY DEF RollbackSucceeds
  <2> QED
    BY <1>3, <1>5, <2>1, <2>2, JobFacts DEF PoolPart, Whole, Virt!Interval
<1>11. PromisedPages' = PromisedPages
  BY <1>0 DEF PromisedPages
(* The pages were free, so nobody was promised them. *)
<1>12. Pages(c) \cap (PromisedPages \cup lost) = {}
  <2> SUFFICES ASSUME NEW p \in Pages(c), p \in PromisedPages \cup lost PROVE FALSE
    OBVIOUS
  <2>1. /\ PageSize * p \in RangeOf(c) /\ PageSize * p \in Whole
        /\ (PageSize * p) \div PageSize = p
    BY <1>6, PageUnits
  <2>2. PageSize * p \in taken
    BY <1>4, <2>1 DEF Units
  <2> QED
    BY <1>4, <1>5, <2>1, <2>2
<1>13. RangesAccounted'
  <2>1. InHand' = Pages(c)
    BY <1>0, <1>3, JobFacts DEF InHand, Pages
  <2>2. Units(PromisedPages \cup lost \cup InHand)' = Units(PromisedPages \cup lost) \cup RangeOf(c)
    <3>1. \A a \in Whole : a \in RangeOf(c) <=> a \div PageSize \in Pages(c)
      BY RangeFacts, WholeFacts
    <3>2. RangeOf(c) \subseteq Whole
      BY <1>4, <1>5
    <3> QED
      BY <1>0, <1>4, <1>5, <1>11, <2>1, <3>1, <3>2 DEF Units
  <2> QED
    BY <1>4, <1>5, <2>2 DEF RangesAccounted, PromisedPages
<1>14. Entered'
  BY <1>0 DEF Entered, EnteredTo
<1>15. PromisePart'
  <2>1. Pages(call)' \cap (PromisedPages \cup lost)' = {}
    BY <1>0, <1>11, <1>12 DEF Pages
  <2> QED
    BY <1>0, <1>2, <1>11, <1>13, <1>14, <2>1 DEF PromisePart, SpaceInv
<1>16. Unmapped => Unmapped'
  <2> SUFFICES ASSUME Unmapped, NEW p \in KernelPages, VirtToPhys(p)' # Null,
                      PageSize * p \in FreeUnits'
               PROVE  p \in spoiled' \/ (mapped' = 0 /\ p \in Pages(First))
    BY DEF Unmapped, First, Pages
  <2>1. VirtToPhys(p) # Null /\ PageSize * p \in FreeUnits
    BY <1>2, <1>5
  <2> QED
    BY <1>0, <1>4, <2>1 DEF Unmapped
<1> QED
  BY <1>9, <1>15, <1>16 DEF SpaceInv, Kept

(* A forced call takes its pages away from whoever was promised them. *)
LEMMA WentForcedInv ==
  ASSUME SpaceInv, job = Idle, UNCHANGED virtVars,
         MapInv', NEW c, Fits(c), GoOn(c, "mem_map_virt_addr", TRUE, FALSE),
         mapped' = mapped \/ (mapped = 0 => c = First)
  PROVE  Kept
<1>0. /\ MapMemory(c) /\ spoiled' = spoiled /\ job' = ForcedJob
      /\ promised' = [p \in Page |-> IF p \in Pages(c) THEN Null ELSE promised[p]]
      /\ lost' = lost \cup {p \in Pages(c) : promised[p] # Null /\ p >= KernelStart}
      /\ entry' = entry /\ call' = c /\ i' = 0 /\ pc' = "walking" /\ c.count # 0
  BY DEF GoOn, MapMemory, ForcedJob, Fits
<1>2. \A p : VirtToPhys(p)' = VirtToPhys(p)
  BY <1>0 DEF VirtToPhys
<1>4. /\ pc = "idle" /\ ~ Hung /\ PoolGood /\ managed = Whole /\ InHand = {}
      /\ taken = Units(PromisedPages \cup lost)
  BY IdleFacts
<1>5. /\ PoolGood' /\ FreeUnits' = FreeUnits /\ taken' = taken /\ managed' = Whole
      /\ RollbackSucceeds'
  BY <1>4, PoolStutter DEF SpaceInv, PoolPart
<1>9. PoolPart'
  BY <1>0, <1>5, JobFacts DEF PoolPart, Whole, Virt!Interval
<1>11. PromisedPages' = PromisedPages \ Pages(c)
  BY <1>0 DEF PromisedPages
<1>13. RangesAccounted'
  <2>1. InHand' = {}
    BY <1>0, JobFacts DEF InHand
  <2>2. ASSUME NEW a \in Whole
        PROVE  a \div PageSize \in PromisedPages \cup lost
                 <=> a \div PageSize \in (PromisedPages \cup lost)'
    <3> DEFINE p == a \div PageSize
    <3>1. p \in Page /\ p >= KernelStart
      BY WholeFacts, ConstantFacts DEF Page
    <3> HIDE DEF p
    <3>2. p \in lost' <=> p \in lost \/ (p \in Pages(c) /\ p \in PromisedPages)
      BY <1>0, <3>1 DEF PromisedPages
    <3> QED
      BY <1>11, <3>2 DEF p
  <2>3. Units(PromisedPages \cup lost)' = Units(PromisedPages \cup lost)
    BY <1>4, <1>5, <2>2 DEF Units
  <2> QED
    BY <1>4, <1>5, <2>1, <2>3 DEF RangesAccounted, PromisedPages
<1>14. Entered'
  BY <1>0 DEF Entered, EnteredTo
<1>15. PromisePart'
  <2>1. Pages(call)' \cap PromisedPages' = {}
    BY <1>0, <1>11 DEF Pages
  <2>2. \A p \in Page : promised'[p] # Null => VirtToPhys(p)' = promised'[p]
    BY <1>0, <1>2 DEF SpaceInv, PromisePart
  <2> QED
    BY <1>0, <1>11, <1>13, <1>14, <2>1, <2>2, JobFacts DEF PromisePart, SpaceInv
<1>16. Unmapped => Unmapped'
  <2> SUFFICES ASSUME Unmapped, NEW p \in KernelPages, VirtToPhys(p)' # Null,
                      PageSize * p \in FreeUnits'
               PROVE  \/ p \in spoiled'
                      \/ job' # Idle /\ p \in Pages(call)'
                      \/ mapped' = 0 /\ p \in Pages(First)
    BY DEF Unmapped, First, Pages
  <2>1. VirtToPhys(p) # Null /\ PageSize * p \in FreeUnits
    BY <1>2, <1>5
  <2>2. Pages(call)' = Pages(c)
    BY <1>0 DEF Pages
  <2> QED
    BY <1>0, <1>4, <2>1, <2>2, JobFacts DEF Unmapped, First
<1> QED
  BY <1>9, <1>15, <1>16 DEF SpaceInv, Kept

(* The pages before the one that mmu_map_memory is at lead where they were
   asked to. *)
LEMMA StepEntered ==
  ASSUME MmuInv, OwnInv, Step, Fits(call), Entered PROVE Entered'
<1>1. call' = call /\ pc # "idle"
  BY StepMaps
<1>2. \A k \in 0 .. call.count - 1 : call.page + k \in Own
  BY <1>1 DEF OwnInv, OwnPages
<1>3. CASE /\ \A p \in Own : VirtToPhys(p)' = VirtToPhys(p)
           /\ pc' = "walking" => pc = "walking" /\ i' = i
           /\ pc' = "idle" => ret' # "NO_ERROR"
  <2>1. pc = "walking" => i \in Nat /\ i < call.count
    BY DEF MmuInv, WalkInv
  <2> SUFFICES ASSUME NEW k \in 0 .. EnteredTo' - 1
               PROVE  VirtToPhys(call.page + k)' = call.frame + k
    BY <1>1 DEF Entered
  <2>2. pc = "walking" /\ k \in 0 .. i - 1 /\ i < call.count
    BY <1>3, <2>1 DEF EnteredTo
  <2>3. k \in 0 .. call.count - 1 /\ VirtToPhys(call.page + k) = call.frame + k
    BY <2>1, <2>2 DEF Entered, EnteredTo, Fits
  <2>4. call.page + k \in Own
    BY <1>2, <2>3
  <2> DEFINE p == call.page + k
  <2>5. VirtToPhys(p)' = WalkIn(entry', p)[-1] /\ p' = p
    BY <1>1 DEF VirtToPhys
  <2>6. \A q \in Own : WalkIn(entry', q)[-1] = VirtToPhys(q)
    BY <1>3 DEF VirtToPhys
  <2>7. WalkIn(entry', p)[-1] = VirtToPhys(p)
    BY <2>4, <2>6
  <2> QED
    BY <2>3, <2>5, <2>7
<1>4. CASE /\ pc = "walking" /\ i \in Nat /\ i < call.count /\ i' = i + 1
           /\ pc' \in {"idle", "walking"} /\ (pc' = "idle" => i' = call.count)
           /\ \A p \in Own : VirtToPhys(p)' = IF p = call.page + i THEN call.frame + i
                                              ELSE VirtToPhys(p)
  <2> SUFFICES ASSUME NEW k \in 0 .. EnteredTo' - 1
               PROVE  VirtToPhys(call.page + k)' = call.frame + k
    BY <1>1 DEF Entered
  <2>1. k \in 0 .. i /\ i \in Nat /\ i < call.count /\ call.page \in Nat /\ call.count \in Nat
    <3>1. EnteredTo' \in {0, i + 1}
      BY <1>1, <1>4 DEF EnteredTo
    <3>2. k \in 0 .. i /\ i \in Nat
      <4> DEFINE z == EnteredTo'
      <4>1. k \in 0 .. z - 1 /\ z \in {0, i + 1} /\ i \in Nat
        BY <1>4, <3>1
      <4> HIDE DEF z
      <4> QED
        BY <4>1
    <3> QED
      BY <1>4, <3>2 DEF Fits
  <2>2. k \in 0 .. call.count - 1
    BY <2>1
  <2> DEFINE p == call.page + k
             n == call.page + i
  <2>3. p \in Own
    BY <1>2, <2>2
  <2>4. VirtToPhys(p)' = WalkIn(entry', p)[-1]
    BY <1>1 DEF VirtToPhys
  <2>5. \A q \in Own : WalkIn(entry', q)[-1] = IF q = n THEN call.frame + i ELSE VirtToPhys(q)
    BY <1>4 DEF VirtToPhys
  <2>6. WalkIn(entry', p)[-1] = IF p = n THEN call.frame + i ELSE VirtToPhys(p)
    BY <2>3, <2>5
  <2>7. CASE k = i
    BY <2>4, <2>6, <2>7
  <2>8. CASE k # i
    <3>1. k \in 0 .. i - 1 /\ p # n
      BY <2>1, <2>8
    <3>2. VirtToPhys(p) = call.frame + k
      BY <1>4, <3>1 DEF Entered, EnteredTo
    <3> QED
      BY <2>4, <2>6, <3>1, <3>2
  <2> QED
    BY <2>7, <2>8
<1> QED
  BY <1>3, <1>4, StepMaps

LEMMA MappingInv ==
  ASSUME SpaceInv, KernelPages \subseteq Own, MapInv', Mapping
  PROVE  Kept
<1>0. /\ Step /\ UNCHANGED virtVars
      /\ UNCHANGED <<mapped, job, answer, promised, lost, spoiled>>
  BY DEF Mapping
<1>1. job # Idle /\ Fits(call) /\ Pages(call) \subseteq Own /\ pc # "idle"
  <2>1. pc # "idle"
    BY <1>0 DEF Step, Descend, AllocTable, NoTable, EnterPage, ErrorPath
  <2> QED
    BY <2>1 DEF SpaceInv, MapInv, JobInv
<1>2. MmuInv /\ OwnInv /\ MmuInv'
  BY <1>0, <1>1, OwnAreOwn, StepInv DEF SpaceInv, MapInv, OwnInv
<1>3. call' = call
  BY <1>0, <1>2, StepMaps
<1>4. ~ Hung /\ PoolGood /\ managed = Whole
  BY <1>1 DEF SpaceInv, MapInv, PoolPart
<1>5. /\ PoolGood' /\ FreeUnits' = FreeUnits /\ taken' = taken /\ managed' = Whole
      /\ RollbackSucceeds'
  BY <1>0, <1>4, PoolStutter DEF SpaceInv, PoolPart
<1>6. Pages(call)' = Pages(call) /\ Fits(call)' /\ (call.page >= KernelStart)' = (call.page >= KernelStart)
  BY <1>1, <1>3 DEF Pages, Fits
<1>8. PoolPart'
  <2>1. Address(call)' = Address(call) /\ Size(call)' = Size(call)
    BY <1>3 DEF Address, Size
  <2>3. job = ReservedJob => VP!Returnable(Address(call), Size(call))'
    <3> DEFINE start == Address(call)
               size == Size(call)
    <3>1. job = ReservedJob => VP!Returnable(start, size)
      BY <1>4 DEF SpaceInv, PoolPart
    <3>2. start' = start /\ size' = size
      BY <2>1
    <3> HIDE DEF start, size
    <3> QED
      BY <1>0, <3>1, <3>2
         DEF VP!Returnable, VP!FreeAddrs, virtVars, start, size
  <2> QED
    BY <1>0, <1>1, <1>5, <2>3 DEF PoolPart, Whole, Virt!Interval
<1>10. PromisedPages' = PromisedPages
  BY <1>0 DEF PromisedPages
<1>11. RangesAccounted'
  BY <1>0, <1>4, <1>5, <1>6, <1>10 DEF SpaceInv, PromisePart, RangesAccounted, InHand, Units,
                                  PromisedPages
(* A step maps a page of the call only, and none of those was promised. *)
<1>12. ASSUME NEW p \in Own, p \notin Pages(call)
       PROVE  VirtToPhys(p)' = VirtToPhys(p)
  <2>1. i \in Nat /\ i < call.count => call.page + i \in Pages(call)
    BY <1>1 DEF Fits, Pages
  <2> QED
    BY <1>0, <1>2, <1>12, <2>1, StepMaps
<1>13. \A p \in Page : promised'[p] # Null => VirtToPhys(p)' = promised'[p]
  <2> SUFFICES ASSUME NEW p \in Page, promised[p] # Null
               PROVE  VirtToPhys(p)' = promised[p]
    BY <1>0
  <2>1. p \in PromisedPages /\ p \in Own /\ p \notin Pages(call) /\ VirtToPhys(p) = promised[p]
    BY <1>1 DEF SpaceInv, PromisePart, PromisedPages
  <2> QED
    BY <1>12, <2>1
<1>14. Entered'
  BY <1>0, <1>1, <1>2, StepEntered DEF SpaceInv, PromisePart
<1>15. PromisePart'
  BY <1>0, <1>6, <1>10, <1>11, <1>13, <1>14 DEF SpaceInv, PromisePart
<1>16. Unmapped => Unmapped'
  <2> SUFFICES ASSUME Unmapped, NEW p \in KernelPages, VirtToPhys(p)' # Null,
                      PageSize * p \in FreeUnits'
               PROVE  \/ p \in spoiled'
                      \/ job' # Idle /\ p \in Pages(call)'
                      \/ mapped' = 0 /\ p \in Pages(First)
    BY DEF Unmapped, First, Pages
  <2>1. CASE p \in Pages(call)
    BY <1>0, <1>1, <1>6, <2>1
  <2>2. CASE p \notin Pages(call)
    <3>1. VirtToPhys(p) # Null /\ PageSize * p \in FreeUnits
      BY <1>5, <1>12, <2>2
    <3> QED
      BY <1>0, <1>4, <2>2, <3>1 DEF Unmapped
  <2> QED
    BY <2>1, <2>2
<1> QED
  BY <1>8, <1>15, <1>16 DEF SpaceInv, Kept

(* The call is done, and what it has mapped is told to the client. *)
LEMMA SucceedInv ==
  ASSUME SpaceInv, KernelIsUpper, MapInv', ~ misforced', Finish, Succeed
  PROVE  Kept
<1>0. /\ job # Idle /\ pc = "idle" /\ ~ Hung /\ ret = "NO_ERROR" /\ answer' = ret /\ job' = Idle
      /\ UNCHANGED mmuVars /\ mapped' = mapped
      /\ TakeForced /\ ~ Hung' /\ ~ misforced'
      /\ promised' = [p \in Page |-> IF p \in Pages(call) THEN call.frame + p - call.page
                                     ELSE promised[p]]
      /\ lost' = lost \ Pages(call) /\ spoiled' = spoiled \ Pages(call)
  BY DEF Finish, Succeed, Told, Hung
<1>1. \A p : VirtToPhys(p)' = VirtToPhys(p)
  BY <1>0, MmuStutter
<1>2. /\ PoolGood /\ managed = Whole /\ Fits(call) /\ Pages(call) \subseteq Own /\ RollbackSucceeds
      /\ job \in {ReservedJob, ForcedJob, MemMapJob}
  BY <1>0 DEF SpaceInv, MapInv, JobInv, PoolPart
<1>3. /\ taken \subseteq Whole /\ FreeUnits \cap taken = {} /\ FreeUnits \subseteq Whole
      /\ taken = Units(PromisedPages \cup lost \cup InHand)
      /\ InHand = IF job = ForcedJob THEN {} ELSE Pages(call)
  BY <1>2, FirstBlock, JobFacts DEF SpaceInv, PromisePart, RangesAccounted, PromisedPages, InHand
<1>4. \A a \in Whole : a \in RangeOf(call) <=> a \div PageSize \in Pages(call)
  BY <1>2, RangeFacts, WholeFacts
(* However it was come by, the range is taken now. *)
<1>5. /\ PoolGood' /\ managed' = Whole /\ RollbackSucceeds'
      /\ taken' = Units(PromisedPages \cup lost \cup Pages(call))
      /\ FreeUnits' \subseteq FreeUnits
      /\ job = ForcedJob => FreeUnits' = FreeUnits \ RangeOf(call)
  <2>1. CASE job = ForcedJob
    <3>1. Virt!ForceAlloc(Address(call), Size(call)) /\ VP!Supported(Address(call), Size(call))
      BY <1>0, <2>1, JobFacts, SameForced DEF TakeForced
    <3>2. reply'.op # "hung"
      BY <1>0 DEF Hung, Virt!Hung
    <3>3. /\ managed' = managed /\ reply'.op = "force" /\ PoolGood'
          /\ FreeUnits' = FreeUnits \ RangeOf(call)
          /\ taken' = taken \cup (RangeOf(call) \cap managed)
      BY <1>2, <3>1, <3>2, ForceFacts
    <3>4. taken' = Units(PromisedPages \cup lost \cup Pages(call))
      BY <1>2, <1>3, <1>4, <2>1, <3>3 DEF Units
    <3> QED
      BY <1>2, <3>3, <3>4 DEF RollbackSucceeds
  <2>2. CASE job # ForcedJob
    <3>1. UNCHANGED virtVars
      BY <1>0, <1>2, <2>2, JobFacts DEF TakeForced
    <3> QED
      BY <1>2, <1>3, <2>2, <3>1, PoolStutter
  <2> QED
    BY <2>1, <2>2
<1>7. PoolPart'
  BY <1>0, <1>5, JobFacts DEF PoolPart, Whole, Virt!Interval
<1>9. PromisedPages' = PromisedPages \cup Pages(call)
  <2>1. Pages(call) \subseteq Page
    BY <1>2, PagesFacts
  <2>2. \A p \in Pages(call) : call.frame + p - call.page # Null
    <3>1. call.frame \in Nat
      BY DEF SpaceInv, MapInv, MmuInv, WalkInv, GoodCall
    <3>2. \A p \in Pages(call) : p - call.page \in Nat /\ p \in Int /\ call.page \in Int
      BY <1>2 DEF Fits, Pages
    <3> QED
      BY <3>1, <3>2 DEF Null
  <2> QED
    BY <1>0, <2>1, <2>2 DEF PromisedPages
<1>10. RangesAccounted'
  <2>1. InHand' = {}
    BY <1>0, JobFacts DEF InHand
  <2>2. Units(PromisedPages \cup lost)' = Units(PromisedPages \cup lost \cup Pages(call))
    BY <1>0, <1>2, <1>5, <1>9 DEF Units
  <2> QED
    BY <1>5, <2>1, <2>2 DEF RangesAccounted, PromisedPages
<1>11. \A p \in Page : promised'[p] # Null => VirtToPhys(p)' = promised'[p]
  <2> SUFFICES ASSUME NEW p \in Page, promised'[p] # Null PROVE VirtToPhys(p) = promised'[p]
    BY <1>1
  <2>1. CASE p \in Pages(call)
    <3> DEFINE k == p - call.page
    <3>1. k \in 0 .. call.count - 1 /\ call.page + k = p
      BY <1>2, <2>1, PagesFacts
    <3>2. VirtToPhys(call.page + k) = call.frame + k
      BY <1>0, <3>1 DEF SpaceInv, PromisePart, Entered, EnteredTo
    <3>3. call.frame + k = call.frame + p - call.page
      <4>1. call.frame \in Nat /\ call.page \in Nat /\ p \in Nat
        BY DEF SpaceInv, MapInv, MmuInv, WalkInv, GoodCall, Page
      <4> QED
        BY <4>1
    <3> QED
      BY <1>0, <2>1, <3>1, <3>2, <3>3
  <2>2. CASE p \notin Pages(call)
    BY <1>0, <2>2 DEF SpaceInv, PromisePart
  <2> QED
    BY <2>1, <2>2
<1>12. PromisePart'
  BY <1>0, <1>2, <1>9, <1>10, <1>11, JobFacts DEF SpaceInv, PromisePart
<1>13. Unmapped => Unmapped'
  <2> SUFFICES ASSUME Unmapped, NEW p \in KernelPages, VirtToPhys(p)' # Null,
                      PageSize * p \in FreeUnits'
               PROVE  p \in spoiled' \/ (mapped' = 0 /\ p \in Pages(First))
    BY DEF Unmapped, First, Pages
  <2>1. VirtToPhys(p) # Null /\ PageSize * p \in FreeUnits
    BY <1>1, <1>5
  <2>2. p \notin Pages(call)
    <3> SUFFICES ASSUME p \in Pages(call) PROVE FALSE
      OBVIOUS
    <3>1. PageSize * p \in Whole /\ (PageSize * p) \div PageSize = p /\ PageSize * p \in RangeOf(call)
      BY <1>2, PageUnits
    <3>2. PageSize * p \in taken'
      BY <1>2, <1>5, <3>1 DEF Units
    <3>3. FreeUnits' \cap taken' = {}
      BY <1>5, SameFreeAddrs DEF PoolGood, VP!PoolInv, VP!Isolated, FreeUnits
    <3> QED
      BY <3>2, <3>3
  <2> QED
    BY <1>0, <2>1, <2>2 DEF Unmapped
<1> QED
  BY <1>7, <1>12, <1>13 DEF SpaceInv, Kept

(* The call has failed: a range that was reserved for it goes back. *)
LEMMA FailInv ==
  ASSUME SpaceInv, MapInv', Finish, Fail
  PROVE  Kept
<1>0. /\ job # Idle /\ pc = "idle" /\ ~ Hung /\ ret # "NO_ERROR" /\ answer' = ret /\ job' = Idle
      /\ UNCHANGED mmuVars /\ mapped' = mapped /\ promised' = promised
      /\ IF job.reserved THEN Virt!Free(Address(call), Size(call)) ELSE UNCHANGED virtVars
      /\ lost' = IF job.by = "mem_map" THEN lost \cup Pages(call) ELSE lost
      /\ spoiled' = spoiled \cup Pages(call)
  BY DEF Finish, Fail, GivesBack, Hung
<1>1. \A p : VirtToPhys(p)' = VirtToPhys(p)
  BY <1>0, MmuStutter
<1>2. /\ PoolGood /\ managed = Whole /\ Fits(call) /\ Pages(call) \subseteq Own /\ RollbackSucceeds
      /\ job \in {ReservedJob, ForcedJob, MemMapJob}
  BY <1>0 DEF SpaceInv, MapInv, JobInv, PoolPart
<1>3. /\ taken \subseteq Whole /\ FreeUnits \cap taken = {} /\ FreeUnits \subseteq Whole
      /\ taken = Units(PromisedPages \cup lost \cup InHand)
      /\ InHand = IF job = ForcedJob THEN {} ELSE Pages(call)
  BY <1>2, FirstBlock, JobFacts DEF SpaceInv, PromisePart, RangesAccounted, PromisedPages, InHand
<1>4. \A a \in Whole : a \in RangeOf(call) <=> a \div PageSize \in Pages(call)
  BY <1>2, RangeFacts, WholeFacts
<1>5. /\ PoolGood' /\ managed' = Whole /\ RollbackSucceeds'
      /\ taken' = Units(PromisedPages \cup lost')
      /\ FreeUnits' = FreeUnits \/ FreeUnits' = FreeUnits \cup RangeOf(call)
      /\ job = ForcedJob => FreeUnits' = FreeUnits
  <2>1. CASE job = ReservedJob
    <3>1. /\ Virt!Free(Address(call), Size(call)) /\ VP!Returnable(Address(call), Size(call))
          /\ call.page >= KernelStart
      BY <1>0, <2>1, JobFacts DEF SpaceInv, MapInv, JobInv, PoolPart
    <3>2. /\ PoolGood' /\ reply'.ok /\ reply'.op = "free"
          /\ FreeUnits' = FreeUnits \cup RangeOf(call) /\ taken' = taken \ RangeOf(call)
      BY <1>2, <3>1, GiveBackFacts
    <3>3. lost' = lost /\ InHand = Pages(call)
      BY <1>0, <1>3, <2>1, JobFacts
    <3>4. Pages(call) \cap (PromisedPages \cup lost) = {}
      BY <1>0, <2>1 DEF SpaceInv, PromisePart
    <3>5. taken' = Units(PromisedPages \cup lost)
      BY <1>2, <1>3, <1>4, <3>2, <3>3, <3>4 DEF Units
    <3>6. managed' = Whole
      BY <3>2 DEF PoolGood, Whole, Virt!Interval
    <3> QED
      BY <2>1, <3>2, <3>3, <3>5, <3>6, JobFacts DEF RollbackSucceeds
  <2>2. CASE job # ReservedJob
    <3>1. UNCHANGED virtVars
      BY <1>0, <1>2, <2>2, JobFacts
    <3>2. lost' = lost \cup InHand
      BY <1>0, <1>2, <1>3, <2>2, JobFacts
    <3> QED
      BY <1>0, <1>2, <1>3, <3>1, <3>2, PoolStutter
  <2> QED
    BY <2>1, <2>2
<1>7. PoolPart'
  BY <1>0, <1>5, JobFacts DEF PoolPart, Whole, Virt!Interval
<1>9. PromisedPages' = PromisedPages
  BY <1>0 DEF PromisedPages
<1>10. RangesAccounted'
  <2>1. InHand' = {}
    BY <1>0, JobFacts DEF InHand
  <2>2. Units(PromisedPages \cup lost)' = Units(PromisedPages \cup lost')
    BY <1>0, <1>2, <1>5, <1>9 DEF Units
  <2> QED
    BY <1>5, <2>1, <2>2 DEF RangesAccounted, PromisedPages
<1>11. PromisePart'
  BY <1>0, <1>1, <1>9, <1>10, JobFacts DEF SpaceInv, PromisePart
<1>12. Unmapped => Unmapped'
  <2> SUFFICES ASSUME Unmapped, NEW p \in KernelPages, VirtToPhys(p)' # Null,
                      PageSize * p \in FreeUnits'
               PROVE  p \in spoiled' \/ (mapped' = 0 /\ p \in Pages(First))
    BY DEF Unmapped, First, Pages
  <2>1. PageSize * p \in FreeUnits \/ p \in Pages(call)
    BY <1>2, <1>5, PageUnits
  <2> QED
    BY <1>0, <1>1, <2>1 DEF Unmapped
<1> QED
  BY <1>7, <1>11, <1>12 DEF SpaceInv, Kept

(* firstfit_force_alloc lacks headers, and does not return. *)
LEMMA HangInv ==
  ASSUME SpaceInv, KernelIsUpper, MapInv', ~ misforced', Hang
  PROVE  Kept
<1>0. /\ job # Idle /\ pc = "idle" /\ ~ Hung /\ TakeForced /\ Hung' /\ ~ misforced'
      /\ UNCHANGED mmuVars /\ UNCHANGED <<mapped, job, answer, promised, lost, spoiled>>
  BY DEF Hang, Hung
<1>1. \A p : VirtToPhys(p)' = VirtToPhys(p)
  BY <1>0, MmuStutter
<1>2. /\ PoolGood /\ managed = Whole /\ Fits(call) /\ RollbackSucceeds
      /\ job \in {ReservedJob, ForcedJob, MemMapJob}
  BY <1>0 DEF SpaceInv, MapInv, JobInv, PoolPart
<1>3. job = ForcedJob
  <2> SUFFICES ASSUME job # ForcedJob PROVE FALSE
    OBVIOUS
  <2>1. UNCHANGED virtVars
    BY <1>0, <1>2, JobFacts DEF TakeForced
  <2> QED
    BY <1>0, <2>1, PoolStutter
<1>4. Virt!ForceAlloc(Address(call), Size(call)) /\ VP!Supported(Address(call), Size(call))
  BY <1>0, <1>3, JobFacts, SameForced DEF TakeForced
<1>5. managed' = managed /\ taken' = taken /\ reply'.op = "hung"
  <2>1. reply'.op = "hung"
    BY <1>0 DEF Hung, Virt!Hung
  <2> QED
    BY <1>2, <1>4, <2>1, ForceFacts
<1>6. call' = call /\ i' = i /\ pc' = pc /\ ret' = ret
  BY <1>0 DEF mmuVars
<1>8. PoolPart'
  BY <1>0, <1>2, <1>5, <1>6 DEF PoolPart, RollbackSucceeds, Whole, Virt!Interval
<1>10. PromisedPages' = PromisedPages /\ Pages(call)' = Pages(call)
  BY <1>0, <1>6 DEF PromisedPages, Pages
<1>11. RangesAccounted'
  BY <1>0, <1>5, <1>10 DEF SpaceInv, PromisePart, RangesAccounted, InHand, Units, PromisedPages
<1>12. Entered'
  <2>1. Entered
    BY <1>0 DEF SpaceInv, PromisePart
  <2>2. EnteredTo' = EnteredTo /\ entry' = entry
    BY <1>0, <1>6 DEF EnteredTo, mmuVars
  <2> QED
    BY <1>6, <2>1, <2>2 DEF Entered, VirtToPhys
<1>13. PromisePart'
  BY <1>0, <1>1, <1>10, <1>11, <1>12 DEF SpaceInv, PromisePart
<1>14. Unmapped'
  BY <1>0 DEF Unmapped
<1> QED
  BY <1>8, <1>13, <1>14 DEF SpaceInv, Kept

LEMMA KernelCallInv ==
  ASSUME SpaceInv, CallsOwn, MapInv', MakeKernelMappings PROVE Kept
<1> DEFINE c == KernelMappings[mapped + 1]
<1>0. /\ mapped' = mapped + 1 /\ job = Idle /\ MemMapVirtAddr(c, TRUE)
      /\ mapped = 0 => c = First
  <2>1. mapped = 0 => mapped + 1 = 1
    OBVIOUS
  <2>2. mapped = 0 => c = First
    BY <2>1 DEF First
  <2> QED
    BY <2>2 DEF MakeKernelMappings, MemMapVirtAddr
<1>1. IsCall(c)
  <2>1. mapped \in 0 .. Len(KernelMappings) - 1 /\ DOMAIN KernelMappings = 1 .. Len(KernelMappings)
    BY DEF SpaceInv, MapInv, JobInv, MakeKernelMappings, CallsOwn, SomeMappings
  <2> QED
    BY <2>1, AddrSpaceAssumption
<1> HIDE DEF c
<1>2. CASE c.count = 0 /\ Return("BAD_PARAM") /\ UNCHANGED virtVars
  <2>1. PoolSame /\ RollbackSucceeds'
    BY <1>0, <1>2, IdleFacts, PoolStutter DEF PoolSame, SpaceInv, PoolPart
  <2>2. mapped = 0 => Pages(First) = {}
    BY <1>0, <1>1, <1>2 DEF Pages, IsCall
  <2> QED
    BY <1>0, <1>2, <2>1, <2>2, RefusedInv
<1>3. CASE c.count # 0 /\ GoOn(c, "mem_map_virt_addr", TRUE, FALSE) /\ UNCHANGED virtVars
  BY <1>0, <1>1, <1>3, CallFacts, WentForcedInv
<1> QED
  BY <1>0, <1>2, <1>3 DEF MemMapVirtAddr

LEMMA ClientCallInv ==
  ASSUME SpaceInv, CallsOwn, MapInv', ClientCalls PROVE Kept
<1>0. mapped' = mapped /\ KernelPages \subseteq Own
  BY DEF ClientCalls, CallsOwn, AsksOwn
(* A call that is refused, by its parameters or for want of a range. *)
<1>1. ASSUME NEW err, job = Idle, Return(err), UNCHANGED virtVars
      PROVE  Kept
  <2>1. PoolSame /\ RollbackSucceeds'
    BY <1>1, PoolStutter, IdleFacts DEF PoolSame, SpaceInv, PoolPart
  <2> QED
    BY <1>0, <1>1, <2>1, RefusedInv
<1>2. ASSUME NEW err, job = Idle, Return(err), PoolSame, reply'.op # "free"
      PROVE  Kept
  BY <1>0, <1>2, RefusedInv DEF RollbackSucceeds
<1>3. ASSUME NEW c \in Calls, MemMapVirtAddr(c, FALSE)
      PROVE  Kept
  <2>0. job = Idle /\ PoolGood /\ IsCall(c)
    BY <1>3, IdleFacts, AddrSpaceAssumption DEF MemMapVirtAddr
  <2>1. CASE c.count = 0 /\ Return("BAD_PARAM") /\ UNCHANGED virtVars
    BY <1>1, <2>0, <2>1
  <2>2. CASE c.count # 0 /\ Reserve(c)
    <3>1. Fits(c) /\ GoodCall(c)
      BY <2>0, <2>2, CallFacts
    <3>2. /\ reply'.op = "alloc_at"
          /\ \/ NoRange /\ PoolSame
             \/ ~ NoRange /\ Reserved(c) /\ VP!Returnable(Address(c), Size(c))'
      BY <2>0, <2>2, <3>1, ReserveFacts DEF Reserve
    <3>3. CASE NoRange
      BY <1>2, <2>0, <2>2, <3>2, <3>3 DEF Reserve
    <3>4. CASE ~ NoRange
      <4>1. GoOn(c, "mem_map_virt_addr", FALSE, TRUE)
        BY <2>2, <3>4 DEF Reserve
      <4>2. c.page >= KernelStart
        <5> DEFINE a == PageSize * c.page
        <5>1. a \in Nat /\ a \div PageSize = c.page /\ c.page \in Nat
          BY <3>1, PageSums, PageIs, ConstantFacts DEF Fits
        <5>2. c.page \in Pages(c)
          BY <3>1 DEF Fits, Pages
        <5>3. a \in RangeOf(c)
          BY <3>1, <5>1, <5>2, RangeFacts
        <5>4. a \in Whole
          BY <2>0, <3>2, <3>4, <5>3, FirstBlock DEF Reserved
        <5> QED
          BY <5>1, <5>4, WholeFacts
      <4> QED
        BY <1>0, <2>0, <3>1, <3>2, <3>4, <4>1, <4>2, WentOnInv
    <3> QED
      BY <3>3, <3>4
  <2> QED
    BY <1>3, <2>1, <2>2 DEF MemMapVirtAddr
<1>4. ASSUME NEW c \in Calls, MemMapVirtAddr(c, TRUE)
      PROVE  Kept
  <2>0. job = Idle /\ IsCall(c)
    BY <1>4, AddrSpaceAssumption DEF MemMapVirtAddr
  <2>1. CASE c.count = 0 /\ Return("BAD_PARAM") /\ UNCHANGED virtVars
    BY <1>1, <2>0, <2>1
  <2>2. CASE c.count # 0 /\ GoOn(c, "mem_map_virt_addr", TRUE, FALSE) /\ UNCHANGED virtVars
    BY <1>0, <2>0, <2>2, CallFacts, WentForcedInv
  <2> QED
    BY <1>4, <2>1, <2>2 DEF MemMapVirtAddr
<1>5. ASSUME NEW m \in MemMapCalls, NoWrap(m.count), MemMap(m.frame, m.count)
      PROVE  Kept
  <2>0. /\ job = Idle /\ PoolGood
        /\ m.frame \in Nat /\ m.count \in Nat /\ m.frame + m.count <= FrameCount
    BY <1>5, IdleFacts, AddrSpaceAssumption DEF MemMap
  <2>1. CASE m.count = 0 /\ Return("BAD_PARAM") /\ UNCHANGED virtVars
    BY <1>1, <2>0, <2>1
  <2> DEFINE c == [page |-> reply'.addr \div PageSize, frame |-> m.frame, count |-> m.count]
  <2>2. CASE /\ m.count # 0 /\ Virt!AllocAligned(PageSize, PageSize * m.count)
             /\ \/ NoRange /\ Return("NO_MEMORY")
                \/ ~ NoRange /\ GoOn(c, "mem_map", FALSE, FALSE)
    <3>1. /\ reply'.op = "alloc_aligned"
          /\ \/ NoRange /\ PoolSame
             \/ ~ NoRange /\ Reserved(c) /\ Fits(c) /\ c.page >= KernelStart
      BY <1>5, <2>0, <2>2, MemMapFacts
    <3>2. CASE NoRange
      BY <1>2, <2>0, <2>2, <3>1, <3>2
    <3>3. CASE ~ NoRange
      <4> HIDE DEF c
      <4> QED
        BY <1>0, <2>0, <2>2, <3>1, <3>3, WentOnInv
    <3> QED
      BY <3>2, <3>3
  <2> QED
    BY <1>5, <2>1, <2>2 DEF MemMap
<1> QED
  BY <1>3, <1>4, <1>5 DEF ClientCalls, Request

(* Nothing happens. *)
LEMMA StutterInv ==
  ASSUME SpaceInv, MapInv', UNCHANGED vars
  PROVE  Kept
<1>0. /\ UNCHANGED mmuVars /\ UNCHANGED virtVars
      /\ UNCHANGED <<mapped, job, answer, promised, lost, spoiled>>
  BY DEF vars
<1>1. \A p : VirtToPhys(p)' = VirtToPhys(p)
  BY <1>0, MmuStutter
<1>2. call' = call /\ i' = i /\ pc' = pc /\ ret' = ret /\ entry' = entry
  BY <1>0 DEF mmuVars
<1>3. /\ virt' = virt /\ headers' = headers /\ taken' = taken /\ managed' = managed
      /\ reply' = reply
  BY <1>0 DEF virtVars
<1>5. FreeUnits' = FreeUnits /\ (PoolGood => PoolGood') /\ (Hung' <=> Hung)
  BY <1>0, PoolStutter
<1>6. PoolPart'
  <2>1. Address(call)' = Address(call) /\ Size(call)' = Size(call)
    BY <1>2 DEF Address, Size
  <2>3. VP!Returnable(Address(call), Size(call)) => VP!Returnable(Address(call), Size(call))'
    BY <1>3, <2>1 DEF VP!Returnable, VP!FreeAddrs
  <2> QED
    BY <1>0, <1>2, <1>3, <1>5, <2>3
       DEF SpaceInv, PoolPart, RollbackSucceeds, Whole, Virt!Interval
<1>8. PromisedPages' = PromisedPages /\ Pages(call)' = Pages(call)
  BY <1>0, <1>2 DEF PromisedPages, Pages
<1>9. RangesAccounted'
  BY <1>0, <1>3, <1>8 DEF SpaceInv, PromisePart, RangesAccounted, InHand, Units, PromisedPages
<1>10. job # Idle => Entered'
  <2> SUFFICES ASSUME job # Idle PROVE Entered'
    OBVIOUS
  <2>1. Entered /\ EnteredTo' = EnteredTo
    BY <1>0, <1>2 DEF SpaceInv, PromisePart, EnteredTo
  <2> QED
    BY <1>2, <2>1 DEF Entered, VirtToPhys
<1>11. PromisePart'
  BY <1>0, <1>1, <1>8, <1>9, <1>10 DEF SpaceInv, PromisePart
<1>12. Unmapped => Unmapped'
  BY <1>0, <1>1, <1>5, <1>8 DEF Unmapped, First, Pages
<1> QED
  BY <1>6, <1>11, <1>12 DEF SpaceInv, Kept

(* A pool that was broken stays so; until then every step keeps the invariant. *)
LEMMA SpaceStep ==
  ASSUME SpaceInv, CallsOwn, [Next]_vars, ~ misforced'
  PROVE  Kept
<1>0. MapInv'
  BY MapStep DEF SpaceInv, MapKept
<1>1. CASE MakeKernelMappings
  BY <1>0, <1>1, KernelCallInv
<1>2. CASE ClientCalls
  BY <1>0, <1>2, ClientCallInv
<1>3. CASE Mapping
  BY <1>0, <1>3, MappingInv DEF CallsOwn, AsksOwn
<1>4. CASE Finish
  <2>1. Succeed \/ Fail
    BY <1>4 DEF Finish
  <2> QED
    BY <1>0, <1>4, <2>1, SucceedInv, FailInv DEF CallsOwn
<1>5. CASE Hang
  BY <1>0, <1>5, HangInv DEF CallsOwn
<1>6. CASE UNCHANGED vars
  BY <1>0, <1>6, StutterInv
<1> QED
  BY <1>1, <1>2, <1>3, <1>4, <1>5, <1>6 DEF Next

LEMMA MisforcedStays ==
  ASSUME [Next]_vars, misforced PROVE misforced'
<1>1. CASE MakeKernelMappings
  BY <1>1 DEF MakeKernelMappings, MemMapVirtAddr, Return, GoOn, Reserve
<1>2. CASE ClientCalls
  BY <1>2 DEF ClientCalls, Request, MemMapVirtAddr, MemMap, Return, GoOn, Reserve
<1>3. CASE Mapping
  BY <1>3 DEF Mapping
<1>4. CASE Finish \/ Hang
  BY <1>4 DEF Finish, Succeed, Fail, Hang, TakeForced
<1> QED
  BY <1>1, <1>2, <1>3, <1>4 DEF Next, vars

LEMMA SpaceResults ==
  ASSUME SpaceInv, CallsOwn
  PROVE  /\ PromisesKept /\ RangesAccounted /\ RollbackSucceeds
         /\ Unmapped => FreeUnmapped
<1>1. PromisesKept /\ RangesAccounted /\ RollbackSucceeds
  BY DEF SpaceInv, PromisePart, PoolPart, PromisesKept
<1>2. ASSUME Unmapped, mapped = Len(KernelMappings), job = Idle,
             NEW p \in KernelPages, PageSize * p \in FreeUnits, p \notin spoiled
      PROVE  VirtToPhys(p) = Null
  <2>1. ~ Hung
    BY <1>2, IdleFacts
  <2>2. mapped # 0
    BY <1>2 DEF CallsOwn, SomeMappings
  <2> QED
    BY <1>2, <2>1, <2>2 DEF Unmapped
<1> QED
  BY <1>1, <1>2 DEF FreeUnmapped, KernelPages, FreeUnits

(* The invariant: that of the map, and that of the pool until it is broken. *)
WholeInv == misforced \/ SpaceInv
LEMMA WholeStep ==
  ASSUME CallsOwn, WholeInv, [Next]_vars PROVE WholeInv'
BY SpaceStep, MisforcedStays DEF WholeInv, Kept

-----------------------------------------------------------------------------
(* Kernels whose mappings lie within the first, made before any client calls. *)
(* BootPart: once the first is made, what it covers is taken; and no range    *)
(* that the pool does not support is about to be forced.                      *)
KernelTaken == RangeOf(First) \cap FreeUnits = {}
BootPart ==
  /\ mapped = 0 => job = Idle /\ FreeUnits = Whole
  /\ mapped \in 1 .. Len(KernelMappings) - 1 /\ ~ Hung =>
       /\ job # Idle => job = ForcedJob /\ (call = First \/ KernelTaken)
       /\ job = Idle /\ answer = "NO_ERROR" => KernelTaken
  /\ ~ Hung /\ job = ForcedJob => VP!Supported(Address(call), Size(call))

(* The kernel's mappings are such as firstfit_force_alloc supports: the first
   takes the front of the pool, and the others have nothing free in them and
   nothing free before. *)
LEMMA KernelSupported ==
  ASSUME PoolGood, StartsFirst, NEW c, Fits(c), Fits(First), Pages(c) \subseteq Pages(First),
         (c = First /\ FreeUnits = Whole) \/ KernelTaken
  PROVE  VP!Supported(Address(c), Size(c))
<1>1. /\ virt \in Seq(VP!Block) /\ VP!WellFormed(virt) /\ FreeUnits \subseteq Whole
      /\ FreeUnits = VP!FreeAddrs
  BY FirstBlock, SameFreeAddrs DEF PoolGood, VP!PoolInv, VP!Coalesced, FreeUnits
<1>2. /\ Address(c) \in Nat /\ RangeOf(c) = VP!Interval(Address(c), Size(c))
      /\ First.page = KernelStart
  BY RangeFacts, SameBasics DEF StartsFirst, RangeOf
<1>3. c.page \in Pages(First)
  <2>1. c.page + 0 \in Pages(c) /\ c.page + 0 = c.page
    BY PagesFacts DEF Fits
  <2> QED
    BY <2>1
(* A block has its end behind the start of the range. *)
<1>4. ASSUME NEW k \in DOMAIN virt
      PROVE  VP!End(virt[k]) > Address(c)
  <2> DEFINE s == virt[k].start
             m == virt[k].size
             start == Address(c)
  <2>1. s \in Nat /\ m \in Nat /\ m > 0 /\ VP!End(virt[k]) = s + m
    <3>1. k \in 1 .. Len(virt)
      BY <1>1, <1>4
    <3> QED
      BY <1>1, <3>1, VirtAssumption, VP!PoolFacts DEF VP!Coalesced
  <2>2. s \in FreeUnits
    <3>1. VP!Interval(s, m) \subseteq VP!FreeAddrs
      BY <1>1, <1>4, VirtAssumption, VP!BlockOf DEF VP!FreeAddrs
    <3> HIDE DEF s, m
    <3>2. s \in VP!Interval(s, m)
      BY <2>1 DEF VP!Interval
    <3> QED
      BY <1>1, <3>1, <3>2
  <2>3. start <= s
    <3>1. CASE c = First
      <4>1. PageSize * KernelStart <= s
        BY <1>1, <2>2, WholeFacts
      <4> QED
        BY <1>2, <3>1, <4>1 DEF Address
    <3>2. CASE KernelTaken
      <4> DEFINE q == s \div PageSize
      <4>1. q \notin Pages(First) /\ q >= KernelStart /\ q \in Nat /\ PageSize * q <= s
        <5>1. s \in Whole /\ s \in FreeUnits
          BY <1>1, <2>2
        <5>2. s \in Nat /\ q \in KernelStart .. PageCount - 1
          BY <5>1, WholeFacts
        <5>3. s \notin RangeOf(First)
          BY <3>2, <5>1 DEF KernelTaken
        <5>4. q \notin Pages(First)
          BY <5>2, <5>3, RangeFacts
        <5> QED
          BY <5>2, <5>4, PageOf, ConstantFacts
      <4> HIDE DEF q, s
      <4>2. c.page < q /\ c.page \in Nat
        BY <1>2, <1>3, <4>1, ConstantFacts DEF Pages, Fits
      <4>3. PageSize * c.page + PageSize <= PageSize * q
        BY <4>1, <4>2, PageOrder
      <4>4. PageSize * q \in Nat /\ PageSize \in Nat
        BY <4>1, PageSums, ConstantFacts
      <4> DEFINE sq == PageSize * q
      <4>5. start + PageSize <= sq /\ sq <= s /\ sq \in Nat
        BY <4>1, <4>3, <4>4 DEF Address
      <4> HIDE DEF sq, start
      <4> QED
        BY <1>2, <2>1, <4>4, <4>5 DEF start, s
    <3> QED
      BY <3>1, <3>2
  <2> HIDE DEF s, m, start
  <2>4. s + m > start
    BY <1>2, <2>1, <2>3 DEF start
  <2> QED
    BY <2>1, <2>4 DEF start
<1>5. Address(c) \in VP!FreeAddrs \/ RangeOf(c) \cap VP!FreeAddrs = {}
  <2>1. CASE c = First /\ FreeUnits = Whole
    <3>1. PageSize * KernelStart \in Whole
      <4>1. KernelStart \in KernelStart .. PageCount - 1
        BY ConstantFacts
      <4> QED
        BY <4>1, WholeFacts
    <3> QED
      BY <1>1, <1>2, <2>1, <3>1 DEF Address
  <2>2. CASE KernelTaken
    <3>1. \A a \in Nat : a \in RangeOf(c) => a \in RangeOf(First)
      BY RangeFacts
    <3>2. FreeUnits \subseteq Nat
      BY <1>1, WholeFacts
    <3> QED
      BY <1>1, <2>2, <3>1, <3>2 DEF KernelTaken
  <2> QED
    BY <2>1, <2>2
<1> QED
  BY <1>2, <1>4, <1>5 DEF VP!Supported

LEMMA NotMisforced ==
  ASSUME SpaceInv, BootPart, ~ misforced, [Next]_vars PROVE ~ misforced'
<1>1. CASE MakeKernelMappings
  BY <1>1 DEF MakeKernelMappings, MemMapVirtAddr, Return, GoOn, Reserve
<1>2. CASE ClientCalls
  BY <1>2 DEF ClientCalls, Request, MemMapVirtAddr, MemMap, Return, GoOn, Reserve
<1>3. CASE Mapping
  BY <1>3 DEF Mapping
<1>4. CASE (Finish \/ Hang) /\ TakeForced
  <2>1. ~ Hung /\ job \in {Idle, ReservedJob, ForcedJob, MemMapJob}
    BY <1>4 DEF Finish, Hang, Hung, SpaceInv, MapInv, JobInv
  <2>2. job = ForcedJob => Virt!Supported(Address(call), Size(call))
    BY <2>1, SameForced DEF BootPart
  <2> QED
    BY <1>4, <2>1, <2>2, JobFacts DEF TakeForced
<1>5. CASE Finish /\ Fail
  BY <1>5 DEF Fail
<1>6. Finish \/ Hang => (Finish /\ Fail) \/ TakeForced
  BY DEF Finish, Succeed, Hang
<1> QED
  BY <1>1, <1>2, <1>3, <1>4, <1>5, <1>6 DEF Next, vars

LEMMA InitBoot ==
  ASSUME Init PROVE BootPart
<1>1. job = Idle /\ mapped = 0 /\ job # ForcedJob
  BY JobFacts DEF Init
<1>2. FreeUnits = Whole
  BY InitPool
<1>3. mapped \notin 1 .. Len(KernelMappings) - 1
  BY <1>1
<1> QED
  BY <1>1, <1>2, <1>3 DEF BootPart

LEMMA BootStep ==
  ASSUME SpaceInv, BootPart, CallsOwn, StartsFirst, ~ Overhangs, ~ HooksBefore, ~ misforced,
         [Next]_vars
  PROVE  BootPart'
<1>0. /\ Len(KernelMappings) \in Nat \ {0} /\ DOMAIN KernelMappings = 1 .. Len(KernelMappings)
      /\ mapped \in 0 .. Len(KernelMappings)
  BY DEF CallsOwn, SomeMappings, SpaceInv, MapInv, JobInv
<1>1. CASE MakeKernelMappings
  <2> DEFINE c == KernelMappings[mapped + 1]
  <2>1. /\ mapped < Len(KernelMappings) /\ mapped' = mapped + 1 /\ answer = "NO_ERROR"
        /\ job = Idle /\ MemMapVirtAddr(c, TRUE)
    BY <1>1 DEF MakeKernelMappings, MemMapVirtAddr
  <2>2. /\ mapped + 1 \in DOMAIN KernelMappings /\ 1 \in DOMAIN KernelMappings
        /\ mapped' # 0 /\ (mapped = 0 => c = First)
    BY <1>0, <2>1 DEF First
  <2>3. IsCall(c) /\ IsCall(First) /\ Pages(c) \subseteq Pages(First)
    BY <2>2, AddrSpaceAssumption DEF First, Overhangs
  <2>4. /\ ~ Hung /\ PoolGood /\ (mapped = 0 => FreeUnits = Whole)
        /\ mapped # 0 => KernelTaken
    <3>1. mapped # 0 => mapped \in 1 .. Len(KernelMappings) - 1
      BY <1>0, <2>1
    <3> QED
      BY <2>1, <3>1, IdleFacts DEF BootPart
  <2> HIDE DEF c
  <2>5. CASE c.count = 0 /\ Return("BAD_PARAM") /\ UNCHANGED virtVars
    BY <2>2, <2>5, JobFacts DEF Return, BootPart
  <2>6. CASE c.count # 0 /\ GoOn(c, "mem_map_virt_addr", TRUE, FALSE) /\ UNCHANGED virtVars
    <3>1. Fits(c) /\ job' = ForcedJob /\ call' = c
      BY <2>3, <2>6, CallFacts DEF GoOn, MapMemory, ForcedJob
    <3>2. Fits(First)
      <4>1. c.page + 0 \in Pages(First)
        BY <2>3, <3>1, PagesFacts DEF Fits
      <4>2. First.count # 0
        BY <2>3, <4>1 DEF Pages, IsCall
      <4> QED
        BY <2>3, <4>2, CallFacts
    <3>3. VP!Supported(Address(c), Size(c))
      BY <2>2, <2>3, <2>4, <3>1, <3>2, KernelSupported
    <3>4. VP!Supported(Address(call), Size(call))'
      BY <2>6, <3>1, <3>3 DEF VP!Supported, VP!FreeAddrs, virtVars, Address, Size
    <3>5. call' = First \/ KernelTaken'
      BY <2>2, <2>4, <2>6, <3>1, PoolStutter DEF KernelTaken, First, RangeOf, Address, Size, Virt!Interval
    <3> QED
      BY <2>2, <3>1, <3>4, <3>5, JobFacts DEF BootPart, First
  <2> QED
    BY <2>1, <2>5, <2>6 DEF MemMapVirtAddr
<1>2. CASE ClientCalls
  <2>1. mapped' = Len(KernelMappings) /\ Request
    BY <1>2 DEF ClientCalls
  <2>2. job' = ForcedJob => VP!Supported(Address(call), Size(call))'
    <3>1. ASSUME NEW c \in Calls, Virt!Supported(Address(c), Size(c)), MemMapVirtAddr(c, TRUE),
                 job' = ForcedJob
          PROVE  VP!Supported(Address(call), Size(call))'
      <4>1. call' = c /\ UNCHANGED virtVars
        BY <3>1, JobFacts DEF MemMapVirtAddr, Return, GoOn, MapMemory
      <4>2. VP!Supported(Address(c), Size(c))
        BY <3>1, SameForced
      <4> QED
        BY <4>1, <4>2 DEF VP!Supported, VP!FreeAddrs, virtVars, Address, Size
    <3>2. ASSUME NEW c \in Calls, MemMapVirtAddr(c, FALSE) PROVE job' # ForcedJob
      BY <3>2, JobFacts DEF MemMapVirtAddr, Return, Reserve, GoOn, ForcedJob
    <3>3. ASSUME NEW m \in MemMapCalls, MemMap(m.frame, m.count) PROVE job' # ForcedJob
      BY <3>3, JobFacts DEF MemMap, Return, GoOn, ForcedJob
    <3> QED
      BY <2>1, <3>1, <3>2, <3>3 DEF Request
  <2>3. mapped' # 0 /\ ~ (mapped' \in 1 .. Len(KernelMappings) - 1)
    BY <1>0, <2>1
  <2> QED
    BY <2>2, <2>3 DEF BootPart
<1>3. CASE Mapping
  <2>1. Step /\ UNCHANGED virtVars /\ UNCHANGED <<mapped, job, answer>>
    BY <1>3 DEF Mapping
  <2>2. pc # "idle"
    BY <2>1 DEF Step, Descend, AllocTable, NoTable, EnterPage, ErrorPath
  <2>3. MmuInv /\ OwnInv
    BY <2>2, OwnAreOwn DEF SpaceInv, MapInv, JobInv, OwnInv
  <2>4. call' = call
    BY <2>1, <2>3, StepMaps
  <2>5. FreeUnits' = FreeUnits /\ (Hung' <=> Hung)
    BY <2>1, PoolStutter
  <2>6. VP!Supported(Address(call), Size(call)) => VP!Supported(Address(call), Size(call))'
    BY <2>1, <2>4 DEF VP!Supported, VP!FreeAddrs, virtVars, Address, Size
  <2> QED
    BY <2>1, <2>4, <2>5, <2>6
       DEF BootPart, First, KernelTaken, RangeOf, Address, Size, Virt!Interval, Whole
<1>4. CASE Finish
  <2>1. job # Idle /\ job' = Idle /\ mapped' = mapped /\ ~ Hung /\ answer' = ret /\ (Succeed \/ Fail)
    BY <1>4 DEF Finish, Hung
  <2>2. mapped # 0 /\ job' # ForcedJob
    BY <2>1, JobFacts DEF BootPart
  <2>3. ASSUME mapped \in 1 .. Len(KernelMappings) - 1, ret = "NO_ERROR" PROVE KernelTaken'
    <3>1. job = ForcedJob /\ (call = First \/ KernelTaken) /\ VP!Supported(Address(call), Size(call))
      BY <2>1, <2>3 DEF BootPart
    <3>2. Virt!ForceAlloc(Address(call), Size(call)) /\ ~ Hung'
      BY <2>1, <2>3, <3>1, JobFacts DEF Succeed, Fail, TakeForced, Hung
    <3>3. PoolGood /\ Fits(call) /\ KernelIsUpper
      BY <2>1 DEF SpaceInv, MapInv, JobInv, PoolPart, CallsOwn
    <3>4. FreeUnits' = FreeUnits \ RangeOf(call)
      BY <3>1, <3>2, <3>3, ForceFacts DEF Hung, Virt!Hung
    <3>5. KernelTaken' = (RangeOf(First) \cap FreeUnits' = {})
      BY DEF KernelTaken, First, RangeOf, Address, Size, Virt!Interval
    <3> QED
      BY <3>1, <3>4, <3>5 DEF KernelTaken
  <2> QED
    BY <2>1, <2>2, <2>3 DEF BootPart
<1>5. CASE Hang
  <2>1. job # Idle /\ mapped' = mapped /\ Hung'
    BY <1>5 DEF Hang, Hung
  <2> QED
    BY <2>1 DEF BootPart
<1>6. CASE UNCHANGED vars
  <2>1. UNCHANGED virtVars /\ call' = call /\ UNCHANGED <<mapped, job, answer>>
    BY <1>6 DEF vars, mmuVars
  <2>2. FreeUnits' = FreeUnits /\ (Hung' <=> Hung)
    BY <2>1, PoolStutter
  <2>3. VP!Supported(Address(call), Size(call)) => VP!Supported(Address(call), Size(call))'
    BY <2>1 DEF VP!Supported, VP!FreeAddrs, virtVars, Address, Size
  <2> QED
    BY <2>1, <2>2, <2>3
       DEF BootPart, First, KernelTaken, RangeOf, Address, Size, Virt!Interval, Whole
<1> QED
  BY <1>1, <1>2, <1>3, <1>4, <1>5, <1>6 DEF Next

-----------------------------------------------------------------------------
(* What follows holds for every size of memory and of page, every tree of    *)
(* page tables the boot sector may leave, every supply of block headers and  *)
(* every set of calls clients make, interleaved with the steps of mmu.c,     *)
(* whether the kernel's mappings come first or the hooks of drivers do, and  *)
(* wherever those mappings lie: for the kernel as linker.ld lays it out too. *)
(*                                                                           *)
(* Every call that addrSpace.c makes of mmu_map_memory is for pages that can *)
(* be mapped, also when it takes them from a pool that is broken; the pages  *)
(* asked for are entered one at a time and no other page moves.              *)
THEOREM MapRefines == ASSUME CallsOwn PROVE Spec => ImplementsAddressMap
<1>1. Init => MapInv /\ AddressSpace!Init
  BY InitMap, MapInit DEF Init
<1>2. MapInv /\ [Next]_vars => MapInv' /\ [AddressSpace!Next]_(AddressSpace!vars)
  BY MapStep DEF MapKept
<1> QED
  BY <1>1, <1>2, PTL DEF Spec, ImplementsAddressMap, AddressSpace!Spec

(* No range is forced that firstfit_force_alloc does not support, if the     *)
(* kernel's mappings lie within the first, which starts the pool, and are    *)
(* made before any other, as addrSpace.c:140 asks.                           *)
THEOREM ForcedWithin == ASSUME CallsOwn, StartsFirst PROVE Spec => []MisforcedByArea
<1> DEFINE Excused == Overhangs \/ HooksBefore
           BootInv == Excused \/ (~ misforced /\ SpaceInv /\ BootPart)
<1>1. Init => BootInv
  BY InitSpace, InitBoot DEF Init
<1>2. BootInv /\ [Next]_vars => BootInv'
  <2> SUFFICES ASSUME BootInv, [Next]_vars PROVE BootInv'
    OBVIOUS
  <2>1. CASE Excused
    BY <2>1 DEF Overhangs, First, Pages
  <2>2. CASE ~ Excused
    BY <2>2, NotMisforced, BootStep, SpaceStep DEF Kept
  <2> QED
    BY <2>1, <2>2
<1>3. BootInv => MisforcedByArea
  BY DEF MisforcedByArea
<1> QED
  BY <1>1, <1>2, <1>3, PTL DEF Spec

(* Until a range is forced that the pool does not support: a page mem_map or *)
(* mem_map_virt_addr has mapped for a client leads to the frame it was       *)
(* mapped to, until a forced call takes it.                                  *)
THEOREM Promises == ASSUME CallsOwn PROVE Spec => [](misforced \/ PromisesKept)
<1>1. Init => WholeInv
  BY InitSpace DEF WholeInv
<1>2. WholeInv /\ [Next]_vars => WholeInv'
  BY WholeStep
<1>3. WholeInv => misforced \/ PromisesKept
  BY SpaceResults DEF WholeInv
<1> QED
  BY <1>1, <1>2, <1>3, PTL DEF Spec

(* Until then, what virt_addr_space has handed out is what clients were      *)
(* promised, what is being mapped, and what failed calls lost.               *)
THEOREM Ranges == ASSUME CallsOwn PROVE Spec => [](misforced \/ RangesAccounted)
<1>1. Init => WholeInv
  BY InitSpace DEF WholeInv
<1>2. WholeInv /\ [Next]_vars => WholeInv'
  BY WholeStep
<1>3. WholeInv => misforced \/ RangesAccounted
  BY SpaceResults DEF WholeInv
<1> QED
  BY <1>1, <1>2, <1>3, PTL DEF Spec

(* Until then, the range map_inner gives back after a failure is always      *)
(* taken: its "Pool corrupted!" is not reached.                              *)
THEOREM Rollback == ASSUME CallsOwn PROVE Spec => [](misforced \/ RollbackSucceeds)
<1>1. Init => WholeInv
  BY InitSpace DEF WholeInv
<1>2. WholeInv /\ [Next]_vars => WholeInv'
  BY WholeStep
<1>3. WholeInv => misforced \/ RollbackSucceeds
  BY SpaceResults DEF WholeInv
<1> QED
  BY <1>1, <1>2, <1>3, PTL DEF Spec

(* Until then, a page that is free in virt_addr_space between two calls is   *)
(* not mapped, unless a call failed on it, if the boot sector maps no page   *)
(* of the kernel's area beyond the first of the kernel's mappings.           *)
THEOREM FreePages ==
  ASSUME CallsOwn, BootMapsFirst PROVE Spec => [](misforced \/ FreeUnmapped)
<1> DEFINE FreeInv == misforced \/ (SpaceInv /\ Unmapped)
<1>1. Init => FreeInv
  BY InitSpace, InitUnmapped
<1>2. FreeInv /\ [Next]_vars => FreeInv'
  BY SpaceStep, MisforcedStays DEF Kept
<1>3. FreeInv => misforced \/ FreeUnmapped
  BY SpaceResults
<1> QED
  BY <1>1, <1>2, <1>3, PTL DEF Spec
=============================================================================
