----------------------------- MODULE MCJobPipeline -----------------------------
(* Instances of JobPipeline for TLC. *)
EXTENDS JobPipeline

\* Identifiers, and processes that start in the same state, are interchangeable
\* (safety runs only).
Symmetry == Permutations(Jobs) \cup Permutations(Workers) \cup Permutations(Sweepers)
=============================================================================
