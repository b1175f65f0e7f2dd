------------------------- MODULE MCMeetingAdmission -------------------------
(* A host, an agent and a human who may own either of them.                *)
EXTENDS MeetingAdmission, TLC

CONSTANTS host, agent, human, m1, banHuman, banAgent, removeHost

Trio == {host, agent, human}
WithoutOwner == [m \in Meetings |-> <<host, agent>>]
OwnerLast == [m \in Meetings |-> <<host, agent, human>>]
Targets == [c \in Commands |-> CASE c = banHuman -> human
                                [] c = banAgent -> agent
                                [] c = removeHost -> host]
=============================================================================
