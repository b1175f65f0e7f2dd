--------------------------- MODULE MCMeetingBaton ---------------------------
(* Instances of MeetingBaton for TLC: a moderator, Agents and Humans.      *)
EXTENDS MeetingBaton

CONSTANTS m, a1, a2, h1, h2
=============================================================================
