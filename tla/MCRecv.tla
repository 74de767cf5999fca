------------------------------- MODULE MCRecv -------------------------------
(* Recv for TLC. *)
EXTENDS Recv

\* Streams are interchangeable, and so are groups.
Symmetry == Permutations(Streams) \cup Permutations(Groups)
=============================================================================
