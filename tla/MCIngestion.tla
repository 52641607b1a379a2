---------------------------- MODULE MCIngestion ----------------------------
(* Finite instances of Ingestion for TLC. *)
EXTENDS Ingestion, TLC

Symmetry == Permutations(Docs) \cup Permutations(Workers)
=============================================================================
