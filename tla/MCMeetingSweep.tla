--------------------------- MODULE MCMeetingSweep ---------------------------
(* Floors and batons for TLC; fx and bx are corrupt, b1 is of V2.          *)
EXTENDS MeetingSweep

CONSTANTS w1, f1, f2, fx, b1, bx
=============================================================================
