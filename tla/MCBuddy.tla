------------------------------ MODULE MCBuddy ------------------------------
(* A pool of 2^MaxOrder blocks of four bytes with a header of one byte; sizes
   wrap at 64. *)
EXTENDS Buddy

MCSize == [k \in 0 .. MaxOrder |-> 2 ^ k]

(* The sizes of blocks, with which AHCI asks for blocks without a header: as
   requests with one, 4 and 8 are the least of their orders and 16 is above the
   pool.  7 is the most that a block of eight has room for beside its header,
   and without a header the size of no block.  1 is a smallest block, or, for a
   caller without a header, a request for nothing. *)
MCRequests == {1, 4, 7, 8, 16}

(* The data that does most harm: it looks like a small free block.  Data that
   looks like a block in use is what the pool is filled with at first. *)
MCData == {[order |-> 0, used |-> FALSE]}
=============================================================================
