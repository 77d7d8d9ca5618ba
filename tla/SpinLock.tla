------------------------------ MODULE SpinLock ------------------------------
(***************************************************************************)
(* core/src/smp.c: the ticket lock (smp_init_lock, smp_lock, smp_unlock)   *)
(* over the atomic operations of arch/x86/src/atomics.c.                   *)
(*                                                                         *)
(* A core that wants the lock takes a ticket with one fetch-and-add, then  *)
(* loads now_serving until it equals the ticket; unlocking increments      *)
(* now_serving.  Each of these accesses is one step, and the cores' steps  *)
(* interleave; a load that finds another ticket served changes nothing.    *)
(* Both counters have a fixed width and wrap, which is part of the model:  *)
(* Width is 2^64 in the code.                                              *)
(***************************************************************************)
EXTENDS Integers, FiniteSets

CONSTANTS Cores,        \* the cores that share the lock
          Width         \* the number of values of an atomic_ct

ASSUME SpinLockAssumption ==
  /\ IsFiniteSet(Cores)
  /\ Width \in Nat /\ Cardinality(Cores) < Width

VARIABLES next_ticket, now_serving,     \* the fields of the spinlock_ct
          pc,                           \* where each core is
          ticket                        \* smp_lock's local variable

vars == <<next_ticket, now_serving, pc, ticket>>

Value == 0 .. Width - 1
Incremented(v) == IF v + 1 < Width THEN v + 1 ELSE 0

(* smp_init_lock, before the lock is shared. *)
Init ==
  /\ next_ticket = 0
  /\ now_serving = 0
  /\ pc = [c \in Cores |-> "away"]
  /\ ticket = [c \in Cores |-> 0]

(* Mutants of TakeTicket: next_ticket is overwritten with the other counter's
   successor; smp_lock returns without waiting for its turn. *)
TakeTicketUnwaiting(c) ==
  /\ pc[c] = "away"
  /\ ticket' = [ticket EXCEPT ![c] = next_ticket]
  /\ next_ticket' = Incremented(next_ticket)
  /\ pc' = [pc EXCEPT ![c] = "holding"]
  /\ now_serving' = now_serving
TakeTicketMixed(c) ==
  /\ pc[c] = "away"
  /\ ticket' = [ticket EXCEPT ![c] = next_ticket]
  /\ next_ticket' = Incremented(now_serving)
  /\ pc' = [pc EXCEPT ![c] = "spinning"]
  /\ now_serving' = now_serving

(* smp_lock: ticket = arch_atomic_add(&spinlock->next_ticket, 1) *)
TakeTicket(c) ==
  /\ pc[c] = "away"
  /\ ticket' = [ticket EXCEPT ![c] = next_ticket]
  /\ next_ticket' = Incremented(next_ticket)
  /\ pc' = [pc EXCEPT ![c] = "spinning"]
  /\ now_serving' = now_serving

(* Mutant of Enter: an ordering where the code asks for equality. *)
EnterOnceServed(c) ==
  /\ pc[c] = "spinning"
  /\ now_serving >= ticket[c]
  /\ pc' = [pc EXCEPT ![c] = "holding"]
  /\ UNCHANGED <<next_ticket, now_serving, ticket>>

(* The load that ends the loop. *)
Enter(c) ==
  /\ pc[c] = "spinning"
  /\ now_serving = ticket[c]
  /\ pc' = [pc EXCEPT ![c] = "holding"]
  /\ UNCHANGED <<next_ticket, now_serving, ticket>>

(* Mutant of Unlock: serves the ticket issued next. *)
UnlockForNext(c) ==
  /\ pc[c] = "holding"
  /\ now_serving' = next_ticket
  /\ pc' = [pc EXCEPT ![c] = "away"]
  /\ UNCHANGED <<next_ticket, ticket>>

(* smp_unlock *)
Unlock(c) ==
  /\ pc[c] = "holding"
  /\ now_serving' = Incremented(now_serving)
  /\ pc' = [pc EXCEPT ![c] = "away"]
  /\ UNCHANGED <<next_ticket, ticket>>

Next == \E c \in Cores : TakeTicket(c) \/ Enter(c) \/ Unlock(c)

(* A spinning core goes on loading, and what a core does with the lock held *)
(* ends: assumed, as the critical sections of init.c call start-up routines *)
(* and hooks, of which one that fails stops its core for good.              *)
Fairness == \A c \in Cores : WF_vars(Enter(c)) /\ WF_vars(Unlock(c))

Spec == Init /\ [][Next]_vars
FairSpec == Spec /\ Fairness

-----------------------------------------------------------------------------
TypeOK ==
  /\ next_ticket \in Value /\ now_serving \in Value
  /\ pc \in [Cores -> {"away", "spinning", "holding"}]
  /\ ticket \in [Cores -> Value]

(* No two cores are past smp_lock and before smp_unlock at the same time,   *)
(* however often the counters have wrapped.                                 *)
MutualExclusion ==
  \A c, d \in Cores : pc[c] = "holding" /\ pc[d] = "holding" => c = d

(* How far a ticket is from being served, and who has a ticket.             *)
Distance(t) == IF now_serving <= t THEN t - now_serving ELSE t - now_serving + Width
Inside == {c \in Cores : pc[c] # "away"}

(* Distinct cores hold distinct tickets, none beyond the last one issued:   *)
(* a ticket is never issued twice, though the counters wrap.                *)
TicketsInOrder ==
  /\ Distance(next_ticket) = Cardinality(Inside)
  /\ \A c \in Inside : Distance(ticket[c]) < Distance(next_ticket)
  /\ \A c, d \in Inside : ticket[c] = ticket[d] => c = d

(* A core that wants the lock gets it.                                      *)
Progress == \A c \in Cores : pc[c] = "spinning" ~> pc[c] = "holding"

(* The ticket lock is a fair queue lock: cores enter in the order in which  *)
(* their fetch-and-add took effect.                                         *)
Queue == [k \in 1 .. Cardinality(Inside) |->
            CHOOSE c \in Inside : Distance(ticket[c]) = k - 1]
Abstract == INSTANCE QueueLock
              WITH queue <- Queue, taken <- \E c \in Cores : pc[c] = "holding"
ImplementsQueueLock == Abstract!Spec
=============================================================================
