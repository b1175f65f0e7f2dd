----------------------------- MODULE SpeechFloor -----------------------------
(***************************************************************************)
(* What a uniform-v0 Meeting promises its participants, with none of the   *)
(* machinery (claims, cohorts, deadlines, leases, sweeper, outbox):        *)
(*                                                                         *)
(*   - turns are numbered and taken one after the other;                   *)
(*   - at most one participant holds the floor, for the current turn only; *)
(*   - a turn ends with one speech of its holder, or without a speech;     *)
(*   - what was said is never changed, and nothing is said after the end.  *)
(*                                                                         *)
(* MeetingFloor implements this specification.                             *)
(***************************************************************************)
EXTENDS Naturals

CONSTANTS Participants,   \* who may hold the floor
          Nobody          \* the value of holder between grants

VARIABLES status,         \* "active" or "ended"
          turn,           \* number of the current turn
          holder,         \* who may speak now
          transcript      \* the set of <<turn, speaker>> that were said

vars == <<status, turn, holder, transcript>>

Init == /\ status = "active"
        /\ turn = 1
        /\ holder = Nobody
        /\ transcript = {}

(* The floor of the current turn is given to one participant.              *)
Grant(p) == /\ status = "active"
            /\ holder = Nobody
            /\ holder' = p
            /\ UNCHANGED <<status, turn, transcript>>

(* The holder speaks: the only way the transcript grows.                   *)
Speak == /\ status = "active"
         /\ holder # Nobody
         /\ transcript' = transcript \cup {<<turn, holder>>}
         /\ turn' = turn + 1
         /\ holder' = Nobody
         /\ UNCHANGED status

(* The holder gives the turn up, or lets it run out.                       *)
Lapse == /\ status = "active"
         /\ holder # Nobody
         /\ turn' = turn + 1
         /\ holder' = Nobody
         /\ UNCHANGED <<status, transcript>>

(* The meeting ends, at any moment and for good.                           *)
End == /\ status = "active"
       /\ status' = "ended"
       /\ holder' = Nobody
       /\ UNCHANGED <<turn, transcript>>

Next == \/ \E p \in Participants : Grant(p)
        \/ Speak
        \/ Lapse
        \/ End

Spec == Init /\ [][Next]_vars
==============================================================================
