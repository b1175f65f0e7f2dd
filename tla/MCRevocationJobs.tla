-------------------------- MODULE MCRevocationJobs --------------------------
(* Two people, two relay processes.                                        *)
EXTENDS RevocationJobs, TLC

CONSTANTS p1, p2, w1, w2

OnePerson == {p1}
TwoPeople == {p1, p2}
TwoWorkers == {w1, w2}
Symmetry == Permutations({p1, p2}) \cup Permutations({w1, w2})
=============================================================================
