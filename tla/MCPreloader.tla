----------------------------- MODULE MCPreloader -----------------------------
(* Instances of ModelPreloader for TLC. *)
EXTENDS ModelPreloader, TLC

\* Nothing tells two pods or two weight files apart.
Symmetry == Permutations(Pods) \cup Permutations(Weights)

=============================================================================
