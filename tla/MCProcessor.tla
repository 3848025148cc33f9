---------------------------- MODULE MCProcessor -----------------------------
(* Instances of Processor for TLC. *)
EXTENDS Processor, TLC

Symmetry == Permutations(Snippets)

=============================================================================
