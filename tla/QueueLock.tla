----------------------------- MODULE QueueLock -----------------------------
(***************************************************************************)
(* What a fair lock promises the cores that share it: those that asked for *)
(* it stand in one queue, only the first of them may hold the lock, and it *)
(* leaves the queue by giving the lock back.                               *)
(***************************************************************************)
EXTENDS Integers, Sequences

CONSTANT Cores

VARIABLES queue,        \* the cores that wait for the lock or hold it
          taken         \* whether the first of them holds it

vars == <<queue, taken>>

Init == queue = <<>> /\ taken = FALSE

Ask(c) == /\ \A i \in 1 .. Len(queue) : queue[i] # c
          /\ queue' = Append(queue, c)
          /\ taken' = taken

Take(c) == /\ queue # <<>> /\ Head(queue) = c
           /\ ~ taken
           /\ taken' = TRUE
           /\ queue' = queue

Give(c) == /\ queue # <<>> /\ Head(queue) = c
           /\ taken
           /\ taken' = FALSE
           /\ queue' = Tail(queue)

Next == \E c \in Cores : Ask(c) \/ Take(c) \/ Give(c)

Spec == Init /\ [][Next]_vars
=============================================================================
