----------------------------- MODULE MCFeedback -----------------------------
(* Finite instances of Feedback for TLC. *)
EXTENDS Feedback, TLC

Symmetry == Permutations(Editors) \cup Permutations(CaseIds) \cup Permutations(Chunks)
            \cup Permutations(Submitters) \cup Permutations(Reviewers)
=============================================================================
