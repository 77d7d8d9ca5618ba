--------------------------- MODULE SpinLockProofs ---------------------------
(***************************************************************************)
(* Proofs about SpinLock, for any finite set of cores and any width of the *)
(* counters that exceeds their number.                                     *)
(***************************************************************************)
EXTENDS SpinLock, FiniteSetTheorems, SequenceTheorems, TLAPS

(* Mutual exclusion is not inductive: two cores must never hold the same    *)
(* ticket, which needs the tickets out to be consecutive from now_serving   *)
(* on, and the holder's to be the one being served.  Every distance below   *)
(* that of next_ticket is taken, so the queue has no holes.                 *)
HolderServed == \A c \in Cores : pc[c] = "holding" => ticket[c] = now_serving
NoHoles == \A k \in 0 .. Cardinality(Inside) - 1 :
             \E c \in Inside : Distance(ticket[c]) = k
IInv == TypeOK /\ TicketsInOrder /\ HolderServed /\ NoHoles

(* Cores inside are finitely many, and fewer than the tickets there are. *)
LEMMA InsideFinite ==
  /\ IsFiniteSet(Inside) /\ Cardinality(Inside) \in Nat
  /\ Cardinality(Inside) < Width
<1>1. Inside \subseteq Cores
  BY DEF Inside
<1>2. IsFiniteSet(Inside) /\ Cardinality(Inside) <= Cardinality(Cores)
  BY <1>1, SpinLockAssumption, FS_Subset
<1>3. Cardinality(Inside) \in Nat /\ Cardinality(Cores) \in Nat
  BY <1>2, SpinLockAssumption, FS_CardinalityType
<1> QED
  BY <1>2, <1>3, SpinLockAssumption

(* The distances of the values are their distances around a ring. *)
LEMMA DistanceFacts ==
  ASSUME now_serving \in Value
  PROVE  /\ \A v \in Value : Distance(v) \in 0 .. Width - 1
         /\ \A v \in Value : Distance(v) = 0 <=> v = now_serving
         /\ \A v, w \in Value : Distance(v) = Distance(w) <=> v = w
         /\ \A v \in Value : Distance(v) + 1 < Width =>
              Distance(Incremented(v)) = Distance(v) + 1
         /\ \A v \in Value : Incremented(v) \in Value
BY SpinLockAssumption DEF Value, Distance, Incremented

(* The empty lock satisfies the invariant. *)
LEMMA InitIInv == Init => IInv
<1> SUFFICES ASSUME Init PROVE IInv
  OBVIOUS
<1>1. Width \in Nat /\ Width > 0
  BY SpinLockAssumption, FS_CardinalityType
<1>2. 0 \in Value
  BY <1>1 DEF Value
<1>3. Inside = {}
  BY DEF Init, Inside
<1>4. Cardinality(Inside) = 0
  BY <1>3, FS_EmptySet
<1>5. TypeOK
  BY <1>2 DEF Init, TypeOK
<1>6. TicketsInOrder
  BY <1>3, <1>4 DEF Init, TicketsInOrder, Distance
<1>7. HolderServed /\ NoHoles
  BY <1>3, <1>4 DEF Init, HolderServed, NoHoles
<1> QED
  BY <1>5, <1>6, <1>7 DEF IInv

(* A core that takes a ticket joins those inside, at the end of the queue. *)
LEMMA TakeTicketStep ==
  ASSUME IInv, NEW c \in Cores, TakeTicket(c)
  PROVE  /\ IInv'
         /\ Inside' = Inside \cup {c} /\ c \notin Inside
         /\ Cardinality(Inside') = Cardinality(Inside) + 1
         /\ \A d \in Inside : ticket'[d] = ticket[d]
         /\ Distance(ticket[c])' = Cardinality(Inside)
         /\ \A v : Distance(v)' = Distance(v)
<1> DEFINE n == Cardinality(Inside)
<1>1. TypeOK /\ n \in Nat /\ n < Width /\ IsFiniteSet(Inside)
  BY InsideFinite DEF IInv
<1>2. Inside' = Inside \cup {c} /\ c \notin Inside
  BY <1>1 DEF TakeTicket, Inside, TypeOK
<1>3. Cardinality(Inside') = n + 1
  BY <1>1, <1>2, FS_AddElement
<1>4. n + 1 < Width
  <2>1. Inside' \subseteq Cores
    BY <1>2 DEF Inside
  <2>2. Cardinality(Inside') <= Cardinality(Cores)
    BY <2>1, SpinLockAssumption, FS_Subset
  <2> QED
    BY <1>1, <1>3, <2>2, SpinLockAssumption, FS_CardinalityType
<1>5. \A v : Distance(v)' = Distance(v)
  BY DEF TakeTicket, Distance
<1>6. Distance(next_ticket) = n /\ next_ticket \in Value /\ now_serving \in Value
  BY <1>1 DEF IInv, TicketsInOrder, TypeOK
<1>7. next_ticket' = Incremented(next_ticket) /\ next_ticket' \in Value
  BY <1>6, DistanceFacts DEF TakeTicket
<1>8. Distance(next_ticket)' = n + 1
  BY <1>4, <1>5, <1>6, <1>7, DistanceFacts DEF TakeTicket, Distance
<1>9. ticket'[c] = next_ticket /\ \A d \in Inside : ticket'[d] = ticket[d]
  BY <1>1, <1>2 DEF TakeTicket, TypeOK, Inside
<1>10. Distance(ticket[c])' = n
  BY <1>5, <1>6, <1>9 DEF TakeTicket, Distance
<1>11. \A d \in Inside : Distance(ticket[d])' = Distance(ticket[d]) /\ ticket[d] \in Value
  BY <1>1, <1>9 DEF TakeTicket, Distance, TypeOK, Inside
<1>12. TypeOK'
  BY <1>1, <1>6, <1>7 DEF TakeTicket, TypeOK
<1>13. TicketsInOrder'
  <2>1. ASSUME NEW d \in Inside' PROVE Distance(ticket[d])' < n + 1
    <3>1. CASE d = c
      BY <1>1, <1>10, <3>1
    <3>2. CASE d \in Inside
      <4>1. Distance(ticket[d]) \in 0 .. Width - 1
        BY <1>6, <1>11, <3>2, DistanceFacts
      <4>2. Distance(ticket[d]) < n
        BY <1>6, <3>2 DEF IInv, TicketsInOrder
      <4> QED
        BY <1>1, <1>11, <3>2, <4>1, <4>2
    <3> QED
      BY <1>2, <3>1, <3>2
  <2>2. ASSUME NEW d \in Inside', NEW e \in Inside', ticket'[d] = ticket'[e], d # e
        PROVE  FALSE
    <3>1. CASE d = c \/ e = c
      <4>1. PICK f \in Inside : ticket[f] = next_ticket
        BY <1>2, <1>9, <2>2, <3>1
      <4>2. Distance(ticket[f]) = n /\ Distance(ticket[f]) < n
        BY <1>6, <4>1 DEF IInv, TicketsInOrder
      <4> QED
        BY <1>1, <4>2
    <3>2. CASE d # c /\ e # c
      BY <1>2, <1>9, <2>2, <3>2 DEF IInv, TicketsInOrder
    <3> QED
      BY <3>1, <3>2
  <2>3. Distance(next_ticket)' = Cardinality(Inside')
    BY <1>3, <1>8
  <2> QED
    BY <1>8, <2>1, <2>2, <2>3 DEF TicketsInOrder
<1>14. HolderServed'
  BY <1>1 DEF IInv, HolderServed, TakeTicket, TypeOK
<1>15. NoHoles'
  <2>1. ASSUME NEW k \in 0 .. n PROVE \E d \in Inside' : Distance(ticket[d])' = k
    <3>1. CASE k = n
      BY <1>2, <1>10, <3>1
    <3>2. CASE k < n
      <4>1. PICK d \in Inside : Distance(ticket[d]) = k
        BY <1>1, <3>2 DEF IInv, NoHoles
      <4> QED
        BY <1>2, <1>11, <4>1
    <3> QED
      BY <1>1, <3>1, <3>2
  <2>2. 0 .. Cardinality(Inside') - 1 = 0 .. n
    BY <1>1, <1>3
  <2> QED
    BY <2>1, <2>2 DEF NoHoles
<1> QED
  BY <1>2, <1>3, <1>5, <1>9, <1>10, <1>12, <1>13, <1>14, <1>15 DEF IInv

(* A core that enters has the ticket being served; the queue stays. *)
LEMMA EnterStep ==
  ASSUME IInv, NEW c \in Cores, Enter(c)
  PROVE  /\ IInv'
         /\ Inside' = Inside /\ c \in Inside
         /\ UNCHANGED <<ticket, now_serving>>
         /\ Distance(ticket[c]) = 0
<1>1. TypeOK
  BY DEF IInv
<1>2. Inside' = Inside /\ c \in Inside
  BY <1>1 DEF Enter, Inside, TypeOK
<1>3. UNCHANGED <<ticket, now_serving, next_ticket>>
  BY DEF Enter
<1>4. Distance(ticket[c]) = 0
  BY <1>1, DistanceFacts DEF Enter, TypeOK
<1>5. TypeOK' /\ HolderServed'
  BY <1>1 DEF IInv, HolderServed, Enter, TypeOK
<1>6. TicketsInOrder' /\ NoHoles'
  BY <1>2, <1>3 DEF IInv, TicketsInOrder, NoHoles, Distance
<1> QED
  BY <1>2, <1>3, <1>4, <1>5, <1>6 DEF IInv

(* A core that unlocks had the first place; every other moves up by one. *)
LEMMA UnlockStep ==
  ASSUME IInv, NEW c \in Cores, Unlock(c)
  PROVE  /\ IInv'
         /\ c \in Inside /\ Inside' = Inside \ {c}
         /\ Cardinality(Inside') = Cardinality(Inside) - 1
         /\ Distance(ticket[c]) = 0
         /\ ticket' = ticket
         /\ \A d \in Inside' : /\ Distance(ticket[d]) \in Nat
                               /\ Distance(ticket[d])' = Distance(ticket[d]) - 1
<1> DEFINE n == Cardinality(Inside)
<1>1. TypeOK /\ n \in Nat /\ n < Width /\ IsFiniteSet(Inside)
  BY InsideFinite DEF IInv
<1>2. c \in Inside /\ Inside' = Inside \ {c}
  BY <1>1 DEF Unlock, Inside, TypeOK
<1>3. Cardinality(Inside') = n - 1
  BY <1>1, <1>2, FS_RemoveElement
<1>4. now_serving' = Incremented(now_serving) /\ UNCHANGED <<ticket, next_ticket>>
  BY DEF Unlock
<1>5. ticket[c] = now_serving /\ Distance(ticket[c]) = 0
  BY <1>1, DistanceFacts DEF IInv, HolderServed, Unlock, TypeOK
<1>6. \A v \in Value \ {now_serving} : /\ Distance(v) \in Nat /\ Distance(v) > 0
                                       /\ Distance(v)' = Distance(v) - 1
  BY <1>1, <1>4, SpinLockAssumption DEF Distance, Incremented, Value, TypeOK
<1>7. Distance(next_ticket) = n /\ n > 0 /\ next_ticket # now_serving
  BY <1>1, <1>2, <1>5, DistanceFacts DEF IInv, TicketsInOrder, TypeOK
<1>8. Distance(next_ticket)' = n - 1
  BY <1>1, <1>4, <1>6, <1>7 DEF TypeOK, Distance
<1>9. \A d \in Inside' : /\ ticket[d] \in Value /\ ticket[d] # now_serving
                         /\ ticket'[d] = ticket[d]
  BY <1>1, <1>2, <1>4, <1>5 DEF IInv, TicketsInOrder, TypeOK, Inside
<1>10. \A d \in Inside' : /\ Distance(ticket[d]) \in Nat /\ Distance(ticket[d]) > 0
                          /\ Distance(ticket[d])' = Distance(ticket[d]) - 1
  BY <1>4, <1>6, <1>9 DEF Distance
<1>11. TypeOK'
  BY <1>1, <1>4, DistanceFacts DEF Unlock, TypeOK
<1>12. TicketsInOrder'
  <2>1. \A d \in Inside' : Distance(ticket[d]) < n
    BY <1>2, <1>7 DEF IInv, TicketsInOrder
  <2>2. \A d \in Inside' : Distance(ticket[d])' < n - 1
    BY <1>1, <1>10, <2>1
  <2>3. \A d, e \in Inside' : ticket[d] = ticket[e] => d = e
    BY <1>2 DEF IInv, TicketsInOrder
  <2> QED
    BY <1>3, <1>4, <1>8, <2>2, <2>3 DEF TicketsInOrder
<1>13. HolderServed'
  <2>1. \A d \in Cores : d # c => pc[d] # "holding"
    BY <1>2, <1>5 DEF IInv, HolderServed, TicketsInOrder, Inside
  <2>2. \A d \in Cores : pc'[d] # "holding"
    BY <1>1, <2>1 DEF Unlock, TypeOK
  <2> QED
    BY <2>2 DEF HolderServed
<1>14. NoHoles'
  <2>1. ASSUME NEW k \in 0 .. n - 2 PROVE \E d \in Inside' : Distance(ticket[d])' = k
    <3>1. PICK d \in Inside : Distance(ticket[d]) = k + 1
      BY <1>1 DEF IInv, NoHoles
    <3>2. d \in Inside'
      BY <1>2, <1>5, <3>1
    <3> QED
      BY <1>10, <3>1, <3>2
  <2>2. 0 .. Cardinality(Inside') - 1 = 0 .. n - 2
    BY <1>1, <1>3
  <2> QED
    BY <1>4, <2>1, <2>2 DEF NoHoles
<1> QED
  BY <1>2, <1>3, <1>4, <1>5, <1>10, <1>11, <1>12, <1>13, <1>14 DEF IInv

(* Every step preserves the invariant. *)
LEMMA StepIInv == IInv /\ [Next]_vars => IInv'
<1> SUFFICES ASSUME IInv, [Next]_vars PROVE IInv'
  OBVIOUS
<1>1. CASE Next
  BY <1>1, TakeTicketStep, EnterStep, UnlockStep DEF Next
<1>2. CASE UNCHANGED vars
  BY <1>2 DEF vars, IInv, TypeOK, TicketsInOrder, HolderServed, NoHoles, Inside, Distance
<1> QED
  BY <1>1, <1>2

(* However many cores there are and however often the counters wrap, at     *)
(* most one core holds the lock, and the tickets out are consecutive.       *)
THEOREM Safety == Spec => [](TypeOK /\ MutualExclusion /\ TicketsInOrder)
<1>1. IInv => TypeOK /\ MutualExclusion /\ TicketsInOrder
  BY DEF IInv, HolderServed, TicketsInOrder, MutualExclusion, Inside
<1> QED
  BY InitIInv, StepIInv, <1>1, PTL DEF Spec

(* The tickets alone: see Safety. *)
THEOREM TicketOrder == Spec => []TicketsInOrder
BY Safety, PTL

-----------------------------------------------------------------------------
(* The queue: place k holds the core whose ticket is k - 1 from being served. *)
QueueOK ==
  /\ DOMAIN Queue = 1 .. Cardinality(Inside)
  /\ Queue \in Seq(Inside) /\ Len(Queue) = Cardinality(Inside)
  /\ \A k \in 1 .. Cardinality(Inside) :
       Queue[k] \in Inside /\ Distance(ticket[Queue[k]]) = k - 1
  /\ \A k \in 1 .. Cardinality(Inside), c \in Inside :
       Distance(ticket[c]) = k - 1 => Queue[k] = c
  /\ \A c \in Inside : \E k \in 1 .. Cardinality(Inside) : Queue[k] = c

(* Under the invariant the queue is well defined and has every core inside. *)
LEMMA QueueFacts == IInv => QueueOK
<1> SUFFICES ASSUME IInv PROVE QueueOK
  OBVIOUS
<1> DEFINE n == Cardinality(Inside)
<1>1. n \in Nat /\ TypeOK /\ TicketsInOrder /\ NoHoles
  BY InsideFinite DEF IInv
<1>2. \A c \in Inside : ticket[c] \in Value
  BY <1>1 DEF TypeOK, Inside
<1>3. \A c, d \in Inside : Distance(ticket[c]) = Distance(ticket[d]) => c = d
  BY <1>1, <1>2, DistanceFacts DEF TicketsInOrder, TypeOK
<1>4. DOMAIN Queue = 1 .. n /\ Len(Queue) = n
  BY <1>1 DEF Queue
<1>5. ASSUME NEW k \in 1 .. n
      PROVE  Queue[k] \in Inside /\ Distance(ticket[Queue[k]]) = k - 1
  <2>1. \E c \in Inside : Distance(ticket[c]) = k - 1
    BY <1>1 DEF NoHoles
  <2>2. Queue[k] = CHOOSE c \in Inside : Distance(ticket[c]) = k - 1
    BY DEF Queue
  <2> QED
    BY <2>1, <2>2
<1>6. ASSUME NEW k \in 1 .. n, NEW c \in Inside, Distance(ticket[c]) = k - 1
      PROVE  Queue[k] = c
  BY <1>3, <1>5, <1>6
<1>7. ASSUME NEW c \in Inside PROVE \E k \in 1 .. n : Queue[k] = c
  <2> DEFINE k == Distance(ticket[c]) + 1
  <2>1. Distance(ticket[c]) \in 0 .. Width - 1 /\ Distance(ticket[c]) < n
    BY <1>1, <1>2, DistanceFacts DEF TicketsInOrder, TypeOK
  <2>2. k \in 1 .. n /\ Distance(ticket[c]) = k - 1
    BY <1>1, <2>1, SpinLockAssumption
  <2> QED
    BY <1>6, <2>2
<1>8. Queue \in Seq(Inside)
  BY <1>1, <1>4, <1>5 DEF Queue
<1> QED
  BY <1>4, <1>5, <1>6, <1>7, <1>8 DEF QueueOK

(* Taking a ticket is joining the queue at its end. *)
LEMMA AskStep ==
  ASSUME IInv, QueueOK, QueueOK', NEW c \in Cores, TakeTicket(c)
  PROVE  Abstract!Ask(c)
<1> DEFINE n == Cardinality(Inside)
<1>1. n \in Nat
  BY InsideFinite
<1>2. /\ Inside' = Inside \cup {c} /\ c \notin Inside
      /\ Cardinality(Inside)' = n + 1
      /\ \A d \in Inside : ticket'[d] = ticket[d]
      /\ Distance(ticket[c])' = n
      /\ \A v : Distance(v)' = Distance(v)
  BY TakeTicketStep
<1>3. ASSUME NEW k \in 1 .. n PROVE Queue'[k] = Queue[k]
  <2>1. Queue[k] \in Inside /\ Distance(ticket[Queue[k]]) = k - 1
    BY DEF QueueOK
  <2>2. Distance(ticket[Queue[k]]) = Distance(ticket'[Queue[k]])
    BY <1>2, <2>1
  <2>3. PICK d \in Inside : d = Queue[k]
    BY <2>1
  <2>4. Distance(ticket[d])' = k - 1
    BY <1>2, <2>1, <2>3
  <2>5. k \in 1 .. Cardinality(Inside)'
    BY <1>1, <1>2
  <2> QED
    BY <1>2, <2>3, <2>4, <2>5 DEF QueueOK
<1>4. Queue'[n + 1] = c
  <2>1. n + 1 \in 1 .. Cardinality(Inside)' /\ c \in Inside' /\ (n + 1) - 1 = n
    BY <1>1, <1>2
  <2>2. Distance(ticket[c])' = (n + 1) - 1
    BY <1>2, <2>1
  <2> HIDE DEF n
  <2> QED
    BY <2>1, <2>2 DEF QueueOK
<1>5. Queue' = Append(Queue, c)
  <2>1. Queue \in Seq(Cores) /\ Queue' \in Seq(Cores) /\ Len(Queue) = n /\ Len(Queue') = n + 1
    BY <1>2 DEF QueueOK, Inside
  <2>2. /\ Append(Queue, c) \in Seq(Cores) /\ Len(Append(Queue, c)) = n + 1
        /\ \A k \in 1 .. n + 1 : Append(Queue, c)[k] = IF k = n + 1 THEN c ELSE Queue[k]
    BY <1>1, <2>1
  <2> HIDE DEF n
  <2> QED
    BY <1>1, <1>3, <1>4, <2>1, <2>2, SeqEqual
<1>6. \A i \in 1 .. Len(Queue) : Queue[i] # c
  BY <1>2 DEF QueueOK
<1>7. (\E d \in Cores : pc[d] = "holding")' = (\E d \in Cores : pc[d] = "holding")
  BY DEF TakeTicket, IInv, TypeOK
<1> QED
  BY <1>5, <1>6, <1>7 DEF Abstract!Ask

(* A core whose ticket is served has the first place. *)
LEMMA FirstPlace ==
  ASSUME IInv, QueueOK, NEW c \in Inside, Distance(ticket[c]) = 0
  PROVE  Queue # <<>> /\ Head(Queue) = c
<1>1. Cardinality(Inside) \in Nat /\ Cardinality(Inside) >= 1
  <2>1. PICK k \in 1 .. Cardinality(Inside) : Queue[k] = c
    BY DEF QueueOK
  <2> QED
    BY <2>1, InsideFinite
<1>2. 1 \in 1 .. Cardinality(Inside) /\ Distance(ticket[c]) = 1 - 1
  BY <1>1
<1>3. Queue[1] = c
  BY <1>2 DEF QueueOK
<1> QED
  BY <1>1, <1>3 DEF QueueOK

(* The load that ends the loop is taking the lock at the head of the queue. *)
LEMMA TakeStep ==
  ASSUME IInv, QueueOK, NEW c \in Cores, Enter(c)
  PROVE  Abstract!Take(c)
<1>1. /\ Inside' = Inside /\ c \in Inside
      /\ UNCHANGED <<ticket, now_serving>>
      /\ Distance(ticket[c]) = 0
  BY EnterStep
<1>2. Queue # <<>> /\ Head(Queue) = c
  BY <1>1, FirstPlace
<1>3. Queue' = Queue
  BY <1>1 DEF Queue, Distance
<1>4. ~ \E d \in Cores : pc[d] = "holding"
  <2>1. ASSUME NEW d \in Cores, pc[d] = "holding" PROVE FALSE
    <3>1. ticket[d] = ticket[c] /\ d \in Inside
      BY <2>1 DEF IInv, HolderServed, Enter, Inside
    <3>2. d = c
      BY <1>1, <3>1 DEF IInv, TicketsInOrder
    <3> QED
      BY <2>1, <3>2 DEF Enter
  <2> QED
    BY <2>1
<1>5. (\E d \in Cores : pc[d] = "holding")'
  BY DEF Enter, IInv, TypeOK
<1> QED
  BY <1>2, <1>3, <1>4, <1>5 DEF Abstract!Take

(* Unlocking is leaving the head of the queue. *)
LEMMA GiveStep ==
  ASSUME IInv, QueueOK, QueueOK', NEW c \in Cores, Unlock(c)
  PROVE  Abstract!Give(c)
<1> DEFINE n == Cardinality(Inside)
<1>1. /\ c \in Inside /\ Inside' = Inside \ {c}
      /\ Cardinality(Inside)' = n - 1
      /\ Distance(ticket[c]) = 0
      /\ ticket' = ticket
      /\ \A d \in Inside' : /\ Distance(ticket[d]) \in Nat
                            /\ Distance(ticket[d])' = Distance(ticket[d]) - 1
  BY UnlockStep
<1>2. Queue # <<>> /\ Head(Queue) = c
  BY <1>1, FirstPlace
<1>3. n \in Nat /\ n >= 1
  BY <1>2, InsideFinite DEF QueueOK
<1>4. ASSUME NEW k \in 1 .. n - 1 PROVE Queue'[k] = Queue[k + 1]
  <2>1. k + 1 \in 1 .. n /\ k \in 1 .. Cardinality(Inside)'
    BY <1>1, <1>3
  <2>2. PICK d \in Inside : d = Queue[k + 1] /\ Distance(ticket[d]) = k
    <3>1. Queue[k + 1] \in Inside /\ Distance(ticket[Queue[k + 1]]) = (k + 1) - 1
      BY <2>1 DEF QueueOK
    <3>2. (k + 1) - 1 = k
      OBVIOUS
    <3> QED
      BY <3>1, <3>2
  <2>3. d \in Inside'
    BY <1>1, <2>2
  <2>4. Distance(ticket[d])' = k - 1
    BY <1>1, <2>2, <2>3
  <2> QED
    BY <2>1, <2>2, <2>3, <2>4 DEF QueueOK
<1>5. Queue' = Tail(Queue)
  <2>1. Queue \in Seq(Cores) /\ Queue' \in Seq(Cores) /\ Len(Queue) = n /\ Len(Queue') = n - 1
    BY <1>1 DEF QueueOK, Inside
  <2>2. /\ Tail(Queue) \in Seq(Cores) /\ Len(Tail(Queue)) = n - 1
        /\ \A k \in 1 .. n - 1 : Tail(Queue)[k] = Queue[k + 1]
    BY <1>2, <1>3, <2>1
  <2> HIDE DEF n
  <2> QED
    BY <1>3, <1>4, <2>1, <2>2, SeqEqual
<1>6. \E d \in Cores : pc[d] = "holding"
  BY DEF Unlock
<1>7. ~ (\E d \in Cores : pc[d] = "holding")'
  BY DEF Unlock, IInv, TypeOK, HolderServed, TicketsInOrder, Inside
<1> QED
  BY <1>2, <1>5, <1>6, <1>7 DEF Abstract!Give

(* The ticket lock implements the queue lock: cores get it in the order of  *)
(* their fetch-and-adds.                                                    *)
THEOREM Refinement == Spec => ImplementsQueueLock
<1>1. IInv /\ Init => Abstract!Init
  <2> SUFFICES ASSUME IInv, Init PROVE Abstract!Init
    OBVIOUS
  <2>1. Inside = {} /\ Cardinality(Inside) = 0
    BY FS_EmptySet DEF Init, Inside
  <2>2. Queue = <<>>
    BY <2>1 DEF Queue
  <2> QED
    BY <2>2 DEF Init, Abstract!Init
<1>2. IInv /\ QueueOK /\ QueueOK' /\ [Next]_vars => [Abstract!Next]_(Abstract!vars)
  <2> SUFFICES ASSUME IInv, QueueOK, QueueOK', [Next]_vars
               PROVE  [Abstract!Next]_(Abstract!vars)
    OBVIOUS
  <2>1. CASE Next
    BY <2>1, AskStep, TakeStep, GiveStep DEF Next, Abstract!Next
  <2>2. CASE UNCHANGED vars
    <3>1. UNCHANGED <<Queue, \E c \in Cores : pc[c] = "holding">>
      BY <2>2 DEF vars, Queue, Inside, Distance
    <3> QED
      BY <3>1 DEF Abstract!vars
  <2> QED
    BY <2>1, <2>2
<1> QED
  BY InitIInv, StepIInv, QueueFacts, <1>1, <1>2, PTL
     DEF Spec, ImplementsQueueLock, Abstract!Spec
=============================================================================
