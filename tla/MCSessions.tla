----------------------------- MODULE MCSessions -----------------------------
(* Small instances of Sessions for TLC. *)
EXTENDS Sessions, TLC

CONSTANTS m1, m2, u1, u2

OneUser  == (m1 :> u1 @@ m2 :> u1)
TwoUsers == (m1 :> u1 @@ m2 :> u2)
OneMember == (m1 :> u1)

SafetySymmetry == Permutations(Token) \cup Permutations(Request)

=============================================================================
