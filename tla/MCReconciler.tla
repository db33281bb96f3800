---------------------------- MODULE MCReconciler ----------------------------
(* TLC instances of GPUWorkloadReconciler.                                  *)
EXTENDS GPUWorkloadReconciler, TLC

\* Specs are interchangeable: no definition tells two of them apart except by
\* equality.
Symmetry == Permutations(Specs)

=============================================================================
