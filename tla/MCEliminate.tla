---------------------------- MODULE MCEliminate -----------------------------
(* Instances of Eliminate for TLC: every function of at most MaxLines lines. *)
EXTENDS Eliminate
=============================================================================
