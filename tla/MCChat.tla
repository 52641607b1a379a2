------------------------------- MODULE MCChat -------------------------------
(* Finite instances of Chat for TLC. *)
EXTENDS Chat, TLC

Symmetry == Permutations(Turns) \cup Permutations(Chunks)
=============================================================================
