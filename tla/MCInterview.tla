----------------------------- MODULE MCInterview -----------------------------
(* A small instance of Interview for TLC. *)
EXTENDS Interview, TLC

Symmetry == Permutations(Call)

=============================================================================
