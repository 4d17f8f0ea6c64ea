---------------------------- MODULE MCJobRanking ----------------------------
(* Small instances of JobRanking for TLC. *)
EXTENDS JobRanking, TLC

CONSTANTS l1, l2

Lists == {Empty, l1, l2}

Symmetry == Permutations({l1, l2}) \cup Permutations(Candidate)
                \cup Permutations(Run) \cup Permutations(Request)

=============================================================================
