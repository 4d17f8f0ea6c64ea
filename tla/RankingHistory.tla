--------------------------- MODULE RankingHistory ---------------------------
(***************************************************************************)
(* What the ranking tables promise of one job: its requirement lists and   *)
(* its ranking runs are histories.  A list once published and a run once   *)
(* recorded never change, and a run carries the list of the version it     *)
(* names.                                                                  *)
(***************************************************************************)
EXTENDS Naturals, Sequences

CONSTANTS List, Run, Candidate

VARIABLES
    published,   \* the sequence of requirement lists, by version
    recorded     \* the ranking runs

vars == <<published, recorded>>

Init == published = << >> /\ recorded = [x \in {} |-> x]

Publish(l) == published' = Append(published, l) /\ UNCHANGED recorded

Record(n, v, C) ==
    /\ n \notin DOMAIN recorded
    /\ recorded' = [x \in DOMAIN recorded \cup {n} |->
                      IF x = n THEN [version |-> v, list |-> published[v], ranked |-> C]
                               ELSE recorded[x]]
    /\ UNCHANGED published

Next ==
    \/ \E l \in List : Publish(l)
    \/ \E n \in Run, v \in DOMAIN published, C \in (SUBSET Candidate) \ {{}} :
         Record(n, v, C)

Spec == Init /\ [][Next]_vars

=============================================================================
