---------------------------- MODULE MCBenchmark ----------------------------
(* Finite instances of Benchmark for TLC. *)
EXTENDS Benchmark, TLC

Symmetry == Permutations(Editors) \cup Permutations(CaseIds) \cup Permutations(Chunks)
=============================================================================
