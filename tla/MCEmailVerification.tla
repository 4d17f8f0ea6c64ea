------------------------ MODULE MCEmailVerification ------------------------
(* Small instances of EmailVerification for TLC. *)
EXTENDS EmailVerification, TLC

Symmetry == Permutations(Token) \cup Permutations(Request)

=============================================================================
