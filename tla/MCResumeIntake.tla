--------------------------- MODULE MCResumeIntake ---------------------------
(* Small instances of ResumeIntake for TLC. *)
EXTENDS ResumeIntake, TLC

Symmetry == Permutations(Content) \cup Permutations(Resume)
                \cup Permutations(Job) \cup Permutations(Request)

=============================================================================
