---------------------------- MODULE MCEventQueue -----------------------------
(* Up to three events on one or two channels, one or two agents.            *)
EXTENDS EventQueue, TLC

CONSTANTS c1, c2, a1, a2

OneChannel == {c1}
TwoChannels == {c1, c2}
OneAgent == {a1}
TwoAgents == {a1, a2}
TwoEvents == {1, 2}
ThreeEvents == {1, 2, 3}
AllOnOne == [e \in Events |-> c1]
Split2 == [e \in Events |-> IF e = 2 THEN c2 ELSE c1]
Split == [e \in Events |-> IF e = 3 THEN c2 ELSE c1]
AgentSymmetry == Permutations(Agents)

(* A queue of one event holds nothing to sort, and the events are alike:    *)
(* the first to arrive may as well be 1.                                    *)
FirstIsOne == arrived = <<>> \/ arrived[1] = 1
==============================================================================
