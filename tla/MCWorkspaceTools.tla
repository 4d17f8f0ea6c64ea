----------------------------- MODULE MCWorkspaceTools -----------------------------
(* A small instance of WorkspaceTools, with its DemoStore, for TLC. *)
EXTENDS WorkspaceTools

Symmetry == Permutations(Job) \cup Permutations(Cv) \cup Permutations(Request)

=============================================================================
