--------------------------- MODULE MCFirstFitForce ---------------------------
(* Forced ranges among the other operations, on a pool of five addresses. *)
EXTENDS FirstFitForce

MCStarts == 0 .. Top - 1
MCSizes == 0 .. 3
MCAlignments == {2}
=============================================================================
