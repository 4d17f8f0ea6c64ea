----------------------------- MODULE MCJobPage -----------------------------
(* A small instance of JobPage, with its DemoStore, for TLC. *)
EXTENDS JobPage

Symmetry == Permutations(Job) \cup Permutations(Cv) \cup Permutations(Request)

=============================================================================
