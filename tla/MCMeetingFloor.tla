--------------------------- MODULE MCMeetingFloor ---------------------------
(* Rosters and symmetry for the runs of MeetingFloor.                      *)
EXTENDS MeetingFloor, TLC

CONSTANTS alice, bot1, bot2

HumanAndAgent == {alice, bot1}
OneAgent == {bot1}
TwoAgents == {bot1, bot2}
AgentSymmetry == Permutations({bot1, bot2})
=============================================================================
