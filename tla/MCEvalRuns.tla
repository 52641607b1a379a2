----------------------------- MODULE MCEvalRuns -----------------------------
(* Finite instances of EvalRuns for TLC. *)
EXTENDS EvalRuns, TLC

Symmetry == Permutations(Admins) \cup Permutations(Workers) \cup Permutations(Configs)
=============================================================================
