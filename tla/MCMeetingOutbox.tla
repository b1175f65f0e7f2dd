--------------------------- MODULE MCMeetingOutbox ---------------------------
(* Two relay processes, two Meetings.                                      *)
EXTENDS MeetingOutbox, TLC

CONSTANTS w1, w2, s1, s2

TwoWorkers == {w1, w2}
TwoSessions == {s1, s2}
OneSession == {s1}
(* The two Meetings are alike: the first event is one of s1.               *)
FirstIsOfS1 == rows = << >> \/ rows[1] = s1

Symmetry == Permutations(TwoWorkers) \cup Permutations(TwoSessions)
=============================================================================
