----------------------------- MODULE MCFirstFit -----------------------------
(* A pool of a few addresses with too few headers to fragment freely;
   the arguments wrap nowhere but reach every edge of every block. *)
EXTENDS FirstFit

MCStarts == 0 .. Top - 1
MCSizes == 0 .. 3
MCAlignments == {0, 2, 4}
=============================================================================
