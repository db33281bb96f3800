------------------------------ MODULE MCServer ------------------------------
(* Instances of InferenceServer for TLC. *)
EXTENDS InferenceServer, TLC

\* Requests are told apart by nothing but what they ask.
Symmetry == Permutations(Requests)

=============================================================================
