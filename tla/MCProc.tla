------------------------------- MODULE MCProc -------------------------------
(* Instances of Proc for TLC. *)
EXTENDS ProcAdded, TLC

\* CPUs are interchangeable: none is distinguished by Init or Next.
Symmetry == Permutations(CPUs)
=============================================================================
