------------------------- MODULE MeetingFloorProof -------------------------
(***************************************************************************)
(* Proofs about MeetingFloor, for every roster, every timing configuration *)
(* and every bound.  A command is a composition of functions on database   *)
(* states, so the inductive step is proved function by function.           *)
(***************************************************************************)
EXTENDS MeetingFloor, TLAPS

(* What a transition of the current round does to each table.              *)
LEMMA SetRoundFields ==
    ASSUME NEW d \in DbType, NEW row \in Round
    PROVE  LET e == set_round(d, row)
               new == [row EXCEPT !.floor_revision = d.floor_revision + 1]
           IN  /\ e \in DbType
               /\ new \in Round
               /\ e.status = d.status
               /\ e.current_round = d.current_round
               /\ e.floor_revision = d.floor_revision + 1
               /\ e.claims = d.claims
               /\ e.signals = d.signals
               /\ e.cohort = d.cohort
               /\ d.current_round \in 1..Len(d.rounds) =>
                     e.rounds = [d.rounds EXCEPT ![d.current_round] = new]
               /\ d.current_round \notin 1..Len(d.rounds) =>
                     e.rounds = Append(d.rounds, new)
<1> DEFINE new == [row EXCEPT !.floor_revision = d.floor_revision + 1]
           ev == StateEvent(d.current_round, d.floor_revision + 1, row.phase,
                            IF row.phase = "granted" THEN row.holder ELSE Null)
           rs == IF HasCurrentRound(d) THEN [d.rounds EXCEPT ![d.current_round] = new]
                                       ELSE Append(d.rounds, new)
<1>0. d.floor_revision + 1 \in Nat /\ d.current_round \in Nat
  BY DEF DbType
<1>1. new \in Round
  BY <1>0 DEF Round
<1>2. ev \in OutboxEvent
  BY <1>0 DEF StateEvent, OutboxEvent, Round
<1>3. DOMAIN d.rounds = 1..Len(d.rounds) /\ d.rounds \in Seq(Round)
  BY DEF DbType
<1>4. rs \in Seq(Round)
  BY <1>1, <1>3 DEF HasCurrentRound
<1>5. Append(d.outbox, ev) \in Seq(OutboxEvent)
  BY <1>2 DEF DbType
<1>6. set_round(d, row) = [d EXCEPT !.outbox = Append(d.outbox, ev),
                                    !.floor_revision = d.floor_revision + 1,
                                    !.rounds = rs]
  BY DEF set_round, persist_meeting_event, HasCurrentRound, DbType
<1> DEFINE e == set_round(d, row)
<1>7. /\ e.status = d.status /\ e.current_round = d.current_round
      /\ e.floor_revision = d.floor_revision + 1
      /\ e.claims = d.claims /\ e.signals = d.signals /\ e.cohort = d.cohort
      /\ e.rounds = rs
  <2> HIDE DEF new, ev, rs
  <2> QED BY <1>6 DEF DbType
<1>8. e \in DbType
  <2> HIDE DEF new, ev, rs
  <2> QED BY <1>0, <1>4, <1>5, <1>6 DEF DbType
<1>9. /\ d.current_round \in 1..Len(d.rounds) =>
            e.rounds = [d.rounds EXCEPT ![d.current_round] = new]
      /\ d.current_round \notin 1..Len(d.rounds) =>
            e.rounds = Append(d.rounds, new)
  <2> HIDE DEF new, e
  <2> QED BY <1>3, <1>7 DEF HasCurrentRound
<1>10. QED
  BY <1>1, <1>7, <1>8, <1>9

(* A new row for the live round keeps the rounds well formed.              *)
LEMMA SetLiveRound ==
    ASSUME NEW d \in DbType, NEW row \in Round,
           RoundsWellFormed(d), d.status = "active",
           Len(d.rounds) = d.current_round,
           PhaseShape(row), row.outcome = Null
    PROVE  /\ RoundsWellFormed(set_round(d, row))
           /\ Len(set_round(d, row).rounds) = d.current_round
           /\ d.current_round \in 1..Len(d.rounds)
<1> DEFINE e == set_round(d, row)
           new == [row EXCEPT !.floor_revision = d.floor_revision + 1]
<1>1. d.current_round \in 1..Len(d.rounds) /\ d.rounds \in Seq(Round)
      /\ d.current_round \in Nat
  BY DEF RoundsWellFormed, DbType
<1>2. e.rounds = [d.rounds EXCEPT ![d.current_round] = new]
      /\ e.status = d.status /\ e.current_round = d.current_round
      /\ new \in Round
  BY <1>1, SetRoundFields
<1>3. Len(e.rounds) = Len(d.rounds)
      /\ \A r \in 1..Len(d.rounds) :
            e.rounds[r] = IF r = d.current_round THEN new ELSE d.rounds[r]
  <2> HIDE DEF e, new
  <2> QED BY <1>1, <1>2
<1>4. PhaseShape(new) /\ new.outcome = Null
  BY DEF PhaseShape, Round
<1> HIDE DEF e, new
<1>5. ASSUME NEW r \in 1..Len(e.rounds)
      PROVE  /\ PhaseShape(e.rounds[r])
             /\ r < e.current_round =>
                  e.rounds[r].outcome \in {"spoken", "yielded", "expired"}
             /\ r = e.current_round =>
                  e.rounds[r].outcome = (IF e.status = "ended" THEN "ended" ELSE Null)
  <2>1. CASE r = d.current_round
    BY <1>1, <1>2, <1>3, <1>4, <2>1
  <2>2. CASE r # d.current_round
    BY <1>1, <1>2, <1>3, <2>2 DEF RoundsWellFormed
  <2>3. QED BY <2>1, <2>2
<1>6. RoundsWellFormed(e)
  BY <1>1, <1>2, <1>3, <1>5 DEF RoundsWellFormed
<1>7. QED
  BY <1>1, <1>3, <1>6 DEF e

(* It leaves the transcript alone: the live round has no speech.           *)
LEMMA SetLiveRoundTranscript ==
    ASSUME NEW d \in DbType, NEW row \in Round,
           RoundsWellFormed(d), d.status = "active",
           Len(d.rounds) = d.current_round,
           PhaseShape(row), row.outcome = Null
    PROVE  /\ AbstractTranscript(set_round(d, row)) = AbstractTranscript(d)
           /\ AbstractHolder(set_round(d, row)) =
                 IF row.phase = "granted" THEN row.holder ELSE Null
<1> DEFINE e == set_round(d, row)
           new == [row EXCEPT !.floor_revision = d.floor_revision + 1]
<1>1. d.current_round \in 1..Len(d.rounds) /\ d.rounds \in Seq(Round)
  BY DEF RoundsWellFormed, DbType
<1>2. /\ e.rounds = [d.rounds EXCEPT ![d.current_round] = new]
      /\ e.current_round = d.current_round
      /\ new \in Round /\ e \in DbType
  BY <1>1, SetRoundFields
<1>3. /\ new.speech = Null /\ new.phase = row.phase /\ new.holder = row.holder
  BY RosterAssumption DEF PhaseShape, Round
<1>4. d.rounds[d.current_round].speech = Null
  BY <1>1, RosterAssumption DEF RoundsWellFormed, PhaseShape
<1> HIDE DEF e, new
<1>5. /\ DOMAIN e.rounds = DOMAIN d.rounds /\ DOMAIN d.rounds = 1..Len(d.rounds)
      /\ \A r \in DOMAIN d.rounds :
            e.rounds[r] = IF r = d.current_round THEN new ELSE d.rounds[r]
  BY <1>1, <1>2
<1>6. \A r \in DOMAIN d.rounds : e.rounds[r].speech = d.rounds[r].speech
  BY <1>3, <1>4, <1>5
<1>7. AbstractTranscript(e) = AbstractTranscript(d)
  BY <1>5, <1>6 DEF AbstractTranscript
<1>8. AbstractHolder(e) = IF row.phase = "granted" THEN row.holder ELSE Null
  BY <1>1, <1>2, <1>3, <1>5 DEF AbstractHolder, HasCurrentRound, CurrentRound
<1>9. QED BY <1>7, <1>8 DEF e

LEMMA OpenRowFacts ==
    OpenRow \in Round /\ PhaseShape(OpenRow)
    /\ OpenRow.outcome = Null /\ OpenRow.phase = "open" /\ OpenRow.speech = Null
    /\ OpenRow.holder = Null
BY RosterAssumption DEF OpenRow, Round, PhaseShape

(* Opening a round after closed ones, or the first one.                    *)
LEMMA OpenRound ==
    ASSUME NEW d \in DbType, d.status = "active",
           d.current_round = Len(d.rounds) + 1,
           \A r \in 1..Len(d.rounds) :
              /\ PhaseShape(d.rounds[r])
              /\ d.rounds[r].outcome \in {"spoken", "yielded", "expired"}
    PROVE  LET e == create_open_round_locked(d)
           IN  /\ e \in DbType
               /\ RoundsWellFormed(e)
               /\ Len(e.rounds) = e.current_round
               /\ e.current_round = d.current_round
               /\ e.status = "active"
               /\ e.claims = d.claims /\ e.signals = d.signals
               /\ e.cohort = d.cohort
               /\ \A r \in 1..Len(d.rounds) : e.rounds[r] = d.rounds[r]
               /\ CurrentRound(e).phase = "open" /\ CurrentRound(e).holder = Null
               /\ AbstractTranscript(e) = AbstractTranscript(d)
               /\ AbstractHolder(e) = Null
<1> DEFINE e == create_open_round_locked(d)
           new == [OpenRow EXCEPT !.floor_revision = d.floor_revision + 1]
<1>1. d.rounds \in Seq(Round) /\ Len(d.rounds) \in Nat
      /\ d.current_round \notin 1..Len(d.rounds)
  BY DEF DbType
<1>2. /\ e.rounds = Append(d.rounds, new) /\ new \in Round /\ e \in DbType
      /\ e.status = "active" /\ e.current_round = d.current_round
      /\ e.claims = d.claims /\ e.signals = d.signals /\ e.cohort = d.cohort
  BY <1>1, SetRoundFields, OpenRowFacts DEF create_open_round_locked
<1>3. /\ PhaseShape(new) /\ new.outcome = Null /\ new.phase = "open"
      /\ new.speech = Null /\ new.holder = Null
  BY OpenRowFacts DEF PhaseShape, Round
<1> HIDE DEF e, new
<1>4. /\ Len(e.rounds) = Len(d.rounds) + 1
      /\ DOMAIN e.rounds = DOMAIN d.rounds \cup {d.current_round}
      /\ DOMAIN d.rounds = 1..Len(d.rounds)
      /\ \A r \in 1..Len(d.rounds) : e.rounds[r] = d.rounds[r]
      /\ e.rounds[d.current_round] = new
  BY <1>1, <1>2
<1>5. RoundsWellFormed(e)
  <2>1. ASSUME NEW r \in 1..Len(e.rounds)
        PROVE  /\ PhaseShape(e.rounds[r])
               /\ r < e.current_round =>
                    e.rounds[r].outcome \in {"spoken", "yielded", "expired"}
               /\ r = e.current_round => e.rounds[r].outcome = Null
    <3>1. CASE r = d.current_round
      BY <1>1, <1>2, <1>3, <1>4, <3>1
    <3>2. CASE r # d.current_round
      BY <1>1, <1>2, <1>4, <3>2
    <3>3. QED BY <3>1, <3>2
  <2>2. QED BY <1>1, <1>2, <1>4, <2>1 DEF RoundsWellFormed
<1>6. AbstractTranscript(e) = AbstractTranscript(d)
  BY <1>1, <1>3, <1>4 DEF AbstractTranscript
<1>7. CurrentRound(e).phase = "open" /\ CurrentRound(e).holder = Null
      /\ AbstractHolder(e) = Null
  BY <1>2, <1>3, <1>4 DEF AbstractHolder, CurrentRound
<1>8. QED
  BY <1>2, <1>4, <1>5, <1>6, <1>7 DEF e

(* What closing the granted round and opening the next one does.           *)
ClosedInto(d, e, speaker) ==
    LET r == d.current_round IN
    /\ e \in DbType
    /\ RoundsWellFormed(e)
    /\ Len(e.rounds) = e.current_round
    /\ e.current_round = r + 1
    /\ e.status = "active"
    /\ e.claims = d.claims /\ e.signals = d.signals /\ e.cohort = d.cohort
    /\ \A n \in 1..Len(d.rounds) :
          /\ n # r => e.rounds[n] = d.rounds[n]
          /\ e.rounds[n].holder = d.rounds[n].holder
          /\ e.rounds[n].settle_not_before = d.rounds[n].settle_not_before
          /\ e.rounds[n].claim_deadline = d.rounds[n].claim_deadline
          /\ e.rounds[n].lease_expires_at = d.rounds[n].lease_expires_at
    /\ CurrentRound(e).phase = "open" /\ CurrentRound(e).holder = Null
    /\ AbstractHolder(e) = Null
    /\ AbstractTranscript(e) = AbstractTranscript(d) \cup
          (IF speaker = Null THEN {} ELSE {<<r, speaker>>})

LEMMA CloseAndOpen ==
    ASSUME NEW d \in DbType, RoundsWellFormed(d), d.status = "active",
           Len(d.rounds) = d.current_round, CurrentRound(d).phase = "granted",
           NEW outcome \in {"spoken", "yielded", "expired"},
           NEW speaker \in Participants \cup {Null},
           (outcome = "spoken") <=> (speaker # Null)
    PROVE  ClosedInto(d, close_and_open(d, outcome, speaker), speaker)
<1> DEFINE r == d.current_round
           row == [CurrentRound(d) EXCEPT !.phase = "closed", !.outcome = outcome,
                                          !.speech = speaker]
           new == [row EXCEPT !.floor_revision = d.floor_revision + 1]
           c == set_round(d, row)
           b == [c EXCEPT !.current_round = @ + 1]
           e == create_open_round_locked(b)
<1>1. r \in 1..Len(d.rounds) /\ d.rounds \in Seq(Round) /\ r \in Nat
  BY DEF RoundsWellFormed, DbType
<1>2. CurrentRound(d) \in Round /\ CurrentRound(d) = d.rounds[r]
      /\ PhaseShape(d.rounds[r]) /\ d.rounds[r].outcome = Null
  BY <1>1 DEF CurrentRound, RoundsWellFormed
<1>3. row \in Round
  <2>1. \A x \in Round, o \in {"spoken", "yielded", "expired", "ended", Null},
           p \in Participants \cup {Null} :
           [x EXCEPT !.phase = "closed", !.outcome = o, !.speech = p] \in Round
    BY DEF Round
  <2>2. QED BY <1>2, <2>1
<1>4. /\ c \in DbType /\ new \in Round /\ c.status = "active"
      /\ c.current_round = r /\ c.claims = d.claims /\ c.signals = d.signals
      /\ c.cohort = d.cohort /\ c.rounds = [d.rounds EXCEPT ![r] = new]
  BY <1>1, <1>3, SetRoundFields
<1>5. /\ new.phase = "closed" /\ new.outcome = outcome /\ new.speech = speaker
      /\ new.holder = d.rounds[r].holder
      /\ new.settle_not_before = d.rounds[r].settle_not_before
      /\ new.claim_deadline = d.rounds[r].claim_deadline
      /\ new.lease_expires_at = d.rounds[r].lease_expires_at
  BY <1>2 DEF Round
<1>6. PhaseShape(new)
  BY <1>5, RosterAssumption DEF PhaseShape
<1> HIDE DEF new, c
<1>7. /\ b \in DbType /\ b.status = "active" /\ b.current_round = r + 1
      /\ b.claims = d.claims /\ b.signals = d.signals /\ b.cohort = d.cohort
      /\ b.rounds = [d.rounds EXCEPT ![r] = new]
  <2>1. c.current_round + 1 \in Nat
    BY <1>1, <1>4
  <2>2. b \in DbType
    BY <1>4, <2>1 DEF DbType
  <2>3. /\ b.status = c.status /\ b.current_round = c.current_round + 1
        /\ b.claims = c.claims /\ b.signals = c.signals /\ b.cohort = c.cohort
        /\ b.rounds = c.rounds
    BY <1>4 DEF DbType
  <2>4. QED BY <1>4, <2>2, <2>3
<1> HIDE DEF b
<1>8. /\ Len(b.rounds) = r /\ DOMAIN b.rounds = 1..r /\ DOMAIN d.rounds = 1..r
      /\ \A n \in 1..r : b.rounds[n] = IF n = r THEN new ELSE d.rounds[n]
  BY <1>1, <1>7
<1>9. \A n \in 1..Len(b.rounds) :
         /\ PhaseShape(b.rounds[n])
         /\ b.rounds[n].outcome \in {"spoken", "yielded", "expired"}
  <2> SUFFICES ASSUME NEW n \in 1..Len(b.rounds)
               PROVE  /\ PhaseShape(b.rounds[n])
                      /\ b.rounds[n].outcome \in {"spoken", "yielded", "expired"}
    OBVIOUS
  <2>1. CASE n = r
    BY <1>1, <1>5, <1>6, <1>8, <2>1
  <2>2. CASE n # r
    BY <1>1, <1>8, <2>2 DEF RoundsWellFormed
  <2>3. QED BY <2>1, <2>2
<1>10. /\ e \in DbType /\ RoundsWellFormed(e) /\ Len(e.rounds) = e.current_round
       /\ e.current_round = r + 1 /\ e.status = "active"
       /\ e.claims = d.claims /\ e.signals = d.signals /\ e.cohort = d.cohort
       /\ \A n \in 1..Len(b.rounds) : e.rounds[n] = b.rounds[n]
       /\ CurrentRound(e).phase = "open" /\ CurrentRound(e).holder = Null
       /\ AbstractTranscript(e) = AbstractTranscript(b)
       /\ AbstractHolder(e) = Null
  BY <1>7, <1>8, <1>9, OpenRound
<1> HIDE DEF e
<1>11. AbstractTranscript(b) = AbstractTranscript(d) \cup
          (IF speaker = Null THEN {} ELSE {<<r, speaker>>})
  <2>1. d.rounds[r].speech = Null
    BY <1>2, RosterAssumption DEF PhaseShape
  <2>2. QED
    BY <1>1, <1>5, <1>8, <2>1 DEF AbstractTranscript
<1>12. e = close_and_open(d, outcome, speaker)
  BY DEF close_and_open, e, b, c
<1>13. \A n \in 1..Len(d.rounds) :
          /\ n # r => e.rounds[n] = d.rounds[n]
          /\ e.rounds[n].holder = d.rounds[n].holder
          /\ e.rounds[n].settle_not_before = d.rounds[n].settle_not_before
          /\ e.rounds[n].claim_deadline = d.rounds[n].claim_deadline
          /\ e.rounds[n].lease_expires_at = d.rounds[n].lease_expires_at
  BY <1>5, <1>8, <1>10
<1>14. QED
  BY <1>10, <1>11, <1>12, <1>13 DEF ClosedInto

-----------------------------------------------------------------------------
(* The database part of the inductive invariant.                           *)
Mandated(d) == \A r \in 1..Len(d.rounds) : HasMandate(d, r)

DbInv(d) == d \in DbType /\ RoundsWellFormed(d) /\ Mandated(d)

(* A Grant keeps its mandate while the tables it rests on only grow and    *)
(* the cohort of its round does not.                                       *)
LEMMA MandateKept ==
    ASSUME NEW d, NEW e, Mandated(d),
           d.claims \subseteq e.claims, d.signals \subseteq e.signals,
           \A r \in 1..Len(e.rounds) : e.rounds[r].holder # Null =>
              /\ r \in 1..Len(d.rounds)
              /\ e.rounds[r].holder = d.rounds[r].holder
              /\ e.rounds[r].settle_not_before = d.rounds[r].settle_not_before
              /\ e.rounds[r].claim_deadline = d.rounds[r].claim_deadline
              /\ e.rounds[r].lease_expires_at = d.rounds[r].lease_expires_at
              /\ Cohort(e, r) \subseteq Cohort(d, r)
    PROVE  Mandated(e)
<1> SUFFICES ASSUME NEW r \in 1..Len(e.rounds), e.rounds[r].holder # Null
             PROVE  HasMandate(e, r)
  BY DEF Mandated, HasMandate
<1>1. HasMandate(d, r)
  BY DEF Mandated
<1>2. Claimants(d, r) \subseteq Claimants(e, r)
  BY DEF Claimants
<1>3. Signallers(d, r, "pass") \subseteq Signallers(e, r, "pass")
  BY DEF Signallers
<1>4. decision_cohort_complete(d, r) => decision_cohort_complete(e, r)
  BY <1>2, <1>3 DEF decision_cohort_complete
<1>5. QED
  BY <1>1, <1>2, <1>4 DEF HasMandate

(* The floor after granting: the abstract Grant step.                      *)
LEMMA GrantRound ==
    ASSUME NEW d, DbInv(d), d.status = "active",
           Len(d.rounds) = d.current_round, NEW t \in Nat, claim_due(d, t),
           NEW w \in Claimants(d, d.current_round)
    PROVE  LET e == grant_round_locked(d, t, w)
           IN  /\ DbInv(e)
               /\ e.status = "active"
               /\ e.current_round = d.current_round
               /\ Len(e.rounds) = e.current_round
               /\ w \in Participants
               /\ AbstractHolder(e) = w
               /\ AbstractTranscript(e) = AbstractTranscript(d)
<1> DEFINE r == d.current_round
           row == [CurrentRound(d) EXCEPT !.phase = "granted", !.holder = w,
                        !.grant = d.floor_revision + 1,
                        !.lease_expires_at = t + GrantLease]
           new == [row EXCEPT !.floor_revision = d.floor_revision + 1]
           e == set_round(d, row)
<1>1. d \in DbType /\ RoundsWellFormed(d) /\ Mandated(d)
  BY DEF DbInv
<1>2. r \in 1..Len(d.rounds) /\ d.rounds \in Seq(Round) /\ r \in Nat
      /\ d.floor_revision + 1 \in Nat
  BY <1>1 DEF RoundsWellFormed, DbType
<1>3. /\ CurrentRound(d) \in Round /\ CurrentRound(d) = d.rounds[r]
      /\ PhaseShape(d.rounds[r]) /\ d.rounds[r].outcome = Null
      /\ d.rounds[r].phase = "claiming"
  BY <1>1, <1>2 DEF CurrentRound, RoundsWellFormed, claim_due
<1>4. w \in Participants
  BY <1>1 DEF Claimants, DbType, Claim
<1>5. GrantLease \in Nat /\ t + GrantLease \in Nat
  BY FloorConfigAssumption
<1>6. row \in Round
  <2>1. \A x \in Round, h \in Participants \cup {Null}, g \in Nat, l \in Nat :
           [x EXCEPT !.phase = "granted", !.holder = h, !.grant = g,
                     !.lease_expires_at = l] \in Round
    BY DEF Round
  <2>2. QED BY <1>2, <1>3, <1>4, <1>5, <2>1
<1>7. /\ row.phase = "granted" /\ row.holder = w /\ row.grant = d.floor_revision + 1
      /\ row.lease_expires_at = t + GrantLease
      /\ row.settle_not_before = d.rounds[r].settle_not_before
      /\ row.claim_deadline = d.rounds[r].claim_deadline
      /\ row.outcome = Null /\ row.speech = d.rounds[r].speech
  BY <1>3 DEF Round
<1>8. PhaseShape(row)
  BY <1>2, <1>3, <1>4, <1>5, <1>7, RosterAssumption DEF PhaseShape
<1>9. /\ e \in DbType /\ e.status = "active" /\ e.current_round = r
      /\ e.claims = d.claims /\ e.signals = d.signals /\ e.cohort = d.cohort
      /\ e.rounds = [d.rounds EXCEPT ![r] = new]
  BY <1>1, <1>2, <1>6, SetRoundFields
<1>10. RoundsWellFormed(e) /\ Len(e.rounds) = r
  BY <1>1, <1>6, <1>7, <1>8, SetLiveRound
<1>11. AbstractTranscript(e) = AbstractTranscript(d) /\ AbstractHolder(e) = w
  BY <1>1, <1>6, <1>7, <1>8, SetLiveRoundTranscript
<1>12. /\ new.holder = w /\ new.lease_expires_at = t + GrantLease
       /\ new.settle_not_before = d.rounds[r].settle_not_before
       /\ new.claim_deadline = d.rounds[r].claim_deadline
  BY <1>6, <1>7 DEF Round
<1>13. \A n \in 1..Len(d.rounds) :
          e.rounds[n] = IF n = r THEN new ELSE d.rounds[n]
  <2> HIDE DEF new, e
  <2> QED BY <1>2, <1>9
<1> HIDE DEF new, e, row
<1>14. \A n \in 1..Len(e.rounds) : /\ Claimants(e, n) = Claimants(d, n)
                                   /\ decision_cohort_complete(e, n) <=>
                                         decision_cohort_complete(d, n)
  BY <1>9 DEF Claimants, Signallers, Cohort, decision_cohort_complete
<1>15. HasMandate(e, r)
  <2>1. /\ d.rounds[r].settle_not_before \in Nat
        /\ d.rounds[r].claim_deadline \in Nat
        /\ d.rounds[r].settle_not_before <= d.rounds[r].claim_deadline
    BY <1>2, <1>3 DEF PhaseShape, Round
  <2>2. d.rounds[r].settle_not_before <= t
    BY <1>3, <2>1 DEF claim_due
  <2> QED
    BY <1>2, <1>3, <1>5, <1>9, <1>10, <1>12, <1>13, <1>14, <2>1, <2>2 DEF HasMandate, claim_due
<1>16. ASSUME NEW n \in 1..Len(e.rounds), n # r PROVE HasMandate(e, n)
  BY <1>1, <1>10, <1>13, <1>14, <1>16 DEF HasMandate, Mandated
<1>17. QED
  BY <1>4, <1>9, <1>10, <1>11, <1>15, <1>16 DEF DbInv, Mandated, grant_round_locked, e, row

-----------------------------------------------------------------------------
(* How one function of a command relates the states it is given and makes. *)
Live(d) == DbInv(d) /\ d.status = "active" /\ Len(d.rounds) = d.current_round

(* No row before the current round changes.                                *)
Frozen(d, e) ==
    /\ d.current_round <= e.current_round
    /\ Len(d.rounds) <= Len(e.rounds)
    /\ \A r \in 1..Len(d.rounds) : r < d.current_round => e.rounds[r] = d.rounds[r]

Unmoved(d, e) == /\ e.current_round = d.current_round
                 /\ AbstractHolder(e) = AbstractHolder(d)
                 /\ AbstractTranscript(e) = AbstractTranscript(d)

Granted(d, e) == /\ e.current_round = d.current_round
                 /\ AbstractHolder(d) = Null
                 /\ AbstractHolder(e) \in Participants
                 /\ AbstractTranscript(e) = AbstractTranscript(d)

Lapsed(d, e) == /\ e.current_round = d.current_round + 1
                /\ AbstractHolder(d) # Null
                /\ AbstractHolder(e) = Null
                /\ AbstractTranscript(e) = AbstractTranscript(d)

LEMMA LiveRound ==
    ASSUME NEW d, Live(d)
    PROVE  /\ d \in DbType /\ RoundsWellFormed(d) /\ Mandated(d)
           /\ d.current_round \in Nat /\ d.floor_revision \in Nat
           /\ d.current_round \in 1..Len(d.rounds) /\ d.rounds \in Seq(Round)
           /\ HasCurrentRound(d)
           /\ CurrentRound(d) \in Round /\ CurrentRound(d) = d.rounds[d.current_round]
           /\ PhaseShape(CurrentRound(d))
           /\ CurrentRound(d).outcome = Null
           /\ AbstractHolder(d) = IF CurrentRound(d).phase = "granted"
                                  THEN CurrentRound(d).holder ELSE Null
<1>1. d \in DbType /\ RoundsWellFormed(d) /\ Mandated(d)
  BY DEF Live, DbInv
<1>2. /\ d.current_round \in Nat /\ d.floor_revision \in Nat
      /\ d.current_round \in 1..Len(d.rounds) /\ d.rounds \in Seq(Round)
  BY <1>1 DEF RoundsWellFormed, DbType, Live
<1>3. HasCurrentRound(d)
  BY <1>2 DEF HasCurrentRound
<1>4. /\ CurrentRound(d) \in Round /\ CurrentRound(d) = d.rounds[d.current_round]
      /\ PhaseShape(CurrentRound(d)) /\ CurrentRound(d).outcome = Null
  BY <1>1, <1>2 DEF CurrentRound, RoundsWellFormed, Live
<1>5. QED
  BY <1>1, <1>2, <1>3, <1>4 DEF AbstractHolder

LEMMA FrozenSetRound ==
    ASSUME NEW d, Live(d), NEW row \in Round
    PROVE  Frozen(d, set_round(d, row))
<1> DEFINE new == [row EXCEPT !.floor_revision = d.floor_revision + 1]
           e == set_round(d, row)
<1>1. /\ e.current_round = d.current_round /\ new \in Round
      /\ e.rounds = [d.rounds EXCEPT ![d.current_round] = new]
  BY LiveRound, SetRoundFields
<1> HIDE DEF new, e
<1>2. Frozen(d, e)
  BY <1>1, LiveRound DEF Frozen
<1>3. QED BY <1>2 DEF e

LEMMA FrozenTransitive ==
    ASSUME NEW d, NEW e, NEW f, Frozen(d, e), Frozen(e, f),
           d \in DbType, e \in DbType, f \in DbType
    PROVE  Frozen(d, f)
<1>1. /\ d.current_round \in Nat /\ e.current_round \in Nat /\ f.current_round \in Nat
      /\ Len(d.rounds) \in Nat /\ Len(e.rounds) \in Nat /\ Len(f.rounds) \in Nat
  BY DEF DbType
<1>2. QED BY <1>1 DEF Frozen

LEMMA EnsureRound ==
    ASSUME NEW d, DbInv(d), d.status = "active"
    PROVE  LET e == ensure_current_round_locked(d)
           IN  Live(e) /\ Frozen(d, e) /\ Unmoved(d, e)
<1> DEFINE e == ensure_current_round_locked(d)
<1>1. d \in DbType /\ RoundsWellFormed(d) /\ Mandated(d)
      /\ d.current_round \in Nat /\ d.rounds \in Seq(Round) /\ Len(d.rounds) \in Nat
      /\ DOMAIN d.rounds = 1..Len(d.rounds)
  BY DEF DbInv, DbType
<1>2. CASE HasCurrentRound(d)
  <2>1. e = d
    BY <1>2 DEF ensure_current_round_locked
  <2>2. Len(d.rounds) = d.current_round
    BY <1>1, <1>2 DEF RoundsWellFormed, HasCurrentRound
  <2>3. QED
    BY <1>1, <2>1, <2>2 DEF Live, Frozen, Unmoved
<1>3. CASE ~HasCurrentRound(d)
  <2>1. e = create_open_round_locked(d)
    BY <1>3 DEF ensure_current_round_locked
  <2>2. Len(d.rounds) = 0 /\ d.current_round = 1
    BY <1>1, <1>3 DEF RoundsWellFormed, HasCurrentRound
  <2>3. /\ e \in DbType /\ RoundsWellFormed(e) /\ Len(e.rounds) = e.current_round
        /\ e.current_round = 1 /\ e.status = "active"
        /\ e.claims = d.claims /\ e.signals = d.signals
        /\ CurrentRound(e).holder = Null
        /\ AbstractTranscript(e) = AbstractTranscript(d)
        /\ AbstractHolder(e) = Null
    BY <1>1, <2>1, <2>2, OpenRound
  <2> HIDE DEF e
  <2>4. Mandated(e)
    BY <2>3 DEF Mandated, HasMandate, CurrentRound
  <2>5. AbstractHolder(d) = Null
    BY <1>3 DEF AbstractHolder
  <2>6. Frozen(d, e)
    BY <2>2, <2>3 DEF Frozen
  <2>7. QED
    BY <2>2, <2>3, <2>4, <2>5, <2>6 DEF Live, DbInv, Unmoved, e
<1>4. QED BY <1>2, <1>3

(* Closing the live Grant of d, whatever its outcome.                      *)
LEMMA CloseGrant ==
    ASSUME NEW d, Live(d), CurrentRound(d).phase = "granted",
           NEW outcome \in {"spoken", "yielded", "expired"},
           NEW speaker \in Participants \cup {Null},
           (outcome = "spoken") <=> (speaker # Null)
    PROVE  LET e == close_and_open(d, outcome, speaker)
           IN  /\ Live(e) /\ Frozen(d, e)
               /\ CurrentRound(e).phase = "open"
               /\ e.current_round = d.current_round + 1
               /\ AbstractHolder(e) = Null
               /\ AbstractTranscript(e) = AbstractTranscript(d) \cup
                     (IF speaker = Null THEN {} ELSE {<<d.current_round, speaker>>})
<1> DEFINE e == close_and_open(d, outcome, speaker)
           r == d.current_round
<1>1. /\ d \in DbType /\ RoundsWellFormed(d) /\ Mandated(d) /\ d.status = "active"
      /\ Len(d.rounds) = r /\ r \in Nat
  BY LiveRound DEF Live
<1>2. ClosedInto(d, e, speaker)
  BY <1>1, CloseAndOpen
<1> HIDE DEF e
<1>4. \A n : Cohort(e, n) = Cohort(d, n)
  BY <1>2 DEF Cohort, ClosedInto
<1>5. \A n \in 1..Len(e.rounds) : e.rounds[n].holder # Null => n \in 1..Len(d.rounds)
  BY <1>1, <1>2 DEF CurrentRound, ClosedInto
<1>6. Mandated(e)
  BY <1>1, <1>2, <1>4, <1>5, MandateKept DEF ClosedInto
<1>7. Frozen(d, e)
  BY <1>1, <1>2 DEF Frozen, ClosedInto
<1>8. QED
  BY <1>1, <1>2, <1>6, <1>7 DEF Live, DbInv, ClosedInto, e

(* advance_due_locked does nothing, grants, or expires.                    *)
LEMMA AdvanceDue ==
    ASSUME NEW d, Live(d), NEW t \in Nat, NEW e \in advance_due_locked(d, t)
    PROVE  /\ Live(e) /\ Frozen(d, e)
           /\ \/ e = d /\ ~claim_due(d, t) /\ ~lease_due(d, t)
              \/ Granted(d, e) /\ CurrentRound(e).phase = "granted"
              \/ Lapsed(d, e) /\ CurrentRound(e).phase = "open"
<1>1. CASE claim_due(d, t)
  <2>1. PICK w \in Claimants(d, d.current_round) : e = grant_round_locked(d, t, w)
    BY <1>1 DEF advance_due_locked
  <2>2. /\ DbInv(e) /\ e.status = "active" /\ e.current_round = d.current_round
        /\ Len(e.rounds) = e.current_round /\ w \in Participants
        /\ AbstractHolder(e) = w /\ AbstractTranscript(e) = AbstractTranscript(d)
    BY <1>1, <2>1, GrantRound DEF Live
  <2>3. Live(e)
    BY <2>2 DEF Live
  <2>4. AbstractHolder(d) = Null
    BY <1>1, LiveRound DEF claim_due
  <2>5. CurrentRound(e).phase = "granted"
    BY <2>2, <2>3, LiveRound, RosterAssumption
  <2>6. Frozen(d, e)
    <3>1. \E row \in Round : e = set_round(d, row)
      <4>1. [CurrentRound(d) EXCEPT !.phase = "granted", !.holder = w,
                 !.grant = d.floor_revision + 1,
                 !.lease_expires_at = t + GrantLease] \in Round
        <5>1. \A x \in Round, h \in Participants \cup {Null}, g \in Nat, l \in Nat :
                 [x EXCEPT !.phase = "granted", !.holder = h, !.grant = g,
                           !.lease_expires_at = l] \in Round
          BY DEF Round
        <5>2. d.floor_revision + 1 \in Nat /\ t + GrantLease \in Nat
          BY LiveRound, FloorConfigAssumption
        <5>3. QED BY <2>2, <5>1, <5>2, LiveRound
      <4>2. QED BY <2>1, <4>1 DEF grant_round_locked
    <3>2. QED BY <3>1, FrozenSetRound
  <2>7. QED BY <2>2, <2>3, <2>4, <2>5, <2>6 DEF Granted
<1>2. CASE ~claim_due(d, t) /\ lease_due(d, t)
  <2>1. e = close_and_open(d, "expired", Null)
    BY <1>2 DEF advance_due_locked, expire_round_locked
  <2>2. CurrentRound(d).phase = "granted" /\ AbstractHolder(d) # Null
    BY <1>2, LiveRound DEF lease_due, PhaseShape
  <2>3. /\ Live(e) /\ Frozen(d, e) /\ e.current_round = d.current_round + 1
        /\ CurrentRound(e).phase = "open" /\ AbstractHolder(e) = Null
        /\ AbstractTranscript(e) = AbstractTranscript(d) \cup {}
    BY <2>1, <2>2, CloseGrant
  <2>4. QED BY <2>2, <2>3 DEF Lapsed
<1>3. CASE ~claim_due(d, t) /\ ~lease_due(d, t)
  <2>1. e = d
    BY <1>3 DEF advance_due_locked
  <2>2. QED BY <1>3, <2>1, LiveRound DEF Frozen
<1>4. QED BY <1>1, <1>2, <1>3

(* Rewriting the live round before it is granted.                          *)
LEMMA SetCompetingRound ==
    ASSUME NEW d, Live(d), CurrentRound(d).phase \in {"open", "claiming"},
           NEW row \in Round, PhaseShape(row),
           row.phase \in {"open", "claiming"}
    PROVE  LET e == set_round(d, row)
           IN  /\ Live(e) /\ Frozen(d, e) /\ Unmoved(d, e)
               /\ CurrentRound(e).phase = row.phase
               /\ CurrentRound(e).settle_not_before = row.settle_not_before
               /\ CurrentRound(e).claim_deadline = row.claim_deadline
<1> DEFINE e == set_round(d, row)
           r == d.current_round
           new == [row EXCEPT !.floor_revision = d.floor_revision + 1]
<1>1. /\ d \in DbType /\ RoundsWellFormed(d) /\ Mandated(d) /\ d.status = "active"
      /\ Len(d.rounds) = r /\ r \in Nat /\ r \in 1..Len(d.rounds)
      /\ d.rounds \in Seq(Round) /\ AbstractHolder(d) = Null
  BY LiveRound DEF Live
<1>2. row.outcome = Null /\ row.holder = Null
  BY DEF PhaseShape
<1>3. /\ e \in DbType /\ e.status = "active" /\ e.current_round = r
      /\ e.claims = d.claims /\ e.signals = d.signals /\ e.cohort = d.cohort
      /\ e.rounds = [d.rounds EXCEPT ![r] = new]
  BY <1>1, SetRoundFields
<1>4. RoundsWellFormed(e) /\ Len(e.rounds) = r
  BY <1>1, <1>2, SetLiveRound
<1>5. AbstractTranscript(e) = AbstractTranscript(d) /\ AbstractHolder(e) = Null
  BY <1>1, <1>2, SetLiveRoundTranscript
<1>6. /\ new.holder = Null /\ new.phase = row.phase
      /\ new.settle_not_before = row.settle_not_before
      /\ new.claim_deadline = row.claim_deadline
  BY <1>2 DEF Round
<1>7. Frozen(d, e)
  BY FrozenSetRound
<1> HIDE DEF e, new
<1>8. \A n \in 1..Len(d.rounds) : e.rounds[n] = IF n = r THEN new ELSE d.rounds[n]
  BY <1>1, <1>3
<1>9. \A n : Cohort(e, n) = Cohort(d, n)
  BY <1>3 DEF Cohort
<1>10. Mandated(e)
  <2>1. \A n \in 1..Len(e.rounds) : e.rounds[n].holder # Null =>
           n \in 1..Len(d.rounds) /\ e.rounds[n] = d.rounds[n]
    BY <1>1, <1>4, <1>6, <1>8
  <2>2. QED BY <1>1, <1>3, <1>9, <2>1, MandateKept
<1>11. QED
  BY <1>1, <1>3, <1>4, <1>5, <1>6, <1>7, <1>8, <1>10
     DEF Live, DbInv, Unmoved, CurrentRound, e

(* A canonical claim moves nothing but the competition; the first one      *)
(* leaves a competition that cannot be settled in the same transaction.    *)
LEMMA AddClaim ==
    ASSUME NEW d, Live(d), CurrentRound(d).phase \in {"open", "claiming"},
           NEW p \in Participants, NEW t \in Nat
    PROVE  LET e == add_claim(d, p, t)
           IN  /\ Live(e) /\ Frozen(d, e) /\ Unmoved(d, e)
               /\ CurrentRound(d).phase = "open" =>
                     ~claim_due(e, t) /\ ~lease_due(e, t)
<1> DEFINE r == d.current_round
           first == CurrentRound(d).phase = "open"
           ready == {<<r, a>> : a \in Signallers(d, r, "ready")}
           row == IF first THEN OpenCompetition(d, t) ELSE CurrentRound(d)
           b == [d EXCEPT !.claims = @ \cup {[round |-> r, claimant |-> p]},
                          !.cohort = IF first THEN @ \cup ready ELSE @]
<1>1. /\ d \in DbType /\ RoundsWellFormed(d) /\ Mandated(d) /\ d.status = "active"
      /\ Len(d.rounds) = r /\ r \in Nat /\ r \in 1..Len(d.rounds)
      /\ CurrentRound(d) \in Round /\ CurrentRound(d) = d.rounds[r]
      /\ PhaseShape(CurrentRound(d)) /\ AbstractHolder(d) = Null
      /\ HasCurrentRound(d)
  BY LiveRound DEF Live
<1>2. ready \subseteq Nat \X Participants
  BY <1>1 DEF Signallers, DbType, Signal
<1>3. [round |-> r, claimant |-> p] \in Claim
  BY <1>1 DEF Claim
<1>4. b \in DbType
  <2> HIDE DEF ready
  <2>1. d.claims \cup {[round |-> r, claimant |-> p]} \in SUBSET Claim
    BY <1>1, <1>3 DEF DbType
  <2>2. (IF first THEN d.cohort \cup ready ELSE d.cohort) \in SUBSET (Nat \X Participants)
    BY <1>1, <1>2 DEF DbType
  <2>3. QED BY <1>1, <2>1, <2>2 DEF DbType
<1>5. /\ b.status = d.status /\ b.current_round = r /\ b.rounds = d.rounds
      /\ b.floor_revision = d.floor_revision
      /\ b.signals = d.signals /\ d.claims \subseteq b.claims
      /\ b.cohort = IF first THEN d.cohort \cup ready ELSE d.cohort
  BY <1>1 DEF DbType
<1> HIDE DEF b
<1>6. RoundsWellFormed(b)
  BY <1>1, <1>5 DEF RoundsWellFormed
<1>7. Mandated(b)
  <2>1. \A n \in 1..Len(b.rounds) :
           b.rounds[n].holder # Null => Cohort(b, n) \subseteq Cohort(d, n)
    <3> SUFFICES ASSUME NEW n \in 1..Len(b.rounds), b.rounds[n].holder # Null
                 PROVE  Cohort(b, n) \subseteq Cohort(d, n)
      OBVIOUS
    <3>1. n # r
      BY <1>1, <1>5 DEF PhaseShape
    <3>2. QED BY <1>5, <3>1 DEF Cohort
  <2>2. QED BY <1>1, <1>5, <2>1, MandateKept
<1>8. Live(b)
  BY <1>1, <1>4, <1>5, <1>6, <1>7 DEF Live, DbInv
<1>9. CurrentRound(b) = CurrentRound(d)
  BY <1>5 DEF CurrentRound
<1>10. /\ t + SettleDelay \in Nat /\ t + ClaimWindow \in Nat
       /\ t < t + SettleDelay /\ t < t + ClaimWindow
       /\ t + SettleDelay <= t + ClaimWindow
  BY FloorConfigAssumption
<1>11. OpenCompetition(d, t) \in Round
  <2>1. \A x \in Round, m \in Nat, k \in Nat :
           [x EXCEPT !.phase = "claiming", !.settle_not_before = m,
                     !.claim_deadline = k] \in Round
    BY DEF Round
  <2>2. QED BY <1>1, <1>10, <2>1 DEF OpenCompetition
<1>12. LET o == OpenCompetition(d, t)
       IN  /\ o.phase = "claiming"
           /\ o.settle_not_before = t + SettleDelay
           /\ o.claim_deadline = t + ClaimWindow
           /\ o.holder = CurrentRound(d).holder /\ o.grant = CurrentRound(d).grant
           /\ o.lease_expires_at = CurrentRound(d).lease_expires_at
           /\ o.outcome = CurrentRound(d).outcome
           /\ o.speech = CurrentRound(d).speech
  BY <1>1 DEF OpenCompetition, Round
<1>13. first => PhaseShape(OpenCompetition(d, t))
  BY <1>1, <1>10, <1>12, RosterAssumption DEF PhaseShape
<1>14. row \in Round /\ PhaseShape(row) /\ row.phase \in {"open", "claiming"}
  BY <1>1, <1>11, <1>12, <1>13
<1> DEFINE e == set_round(b, row)
<1>15. /\ Live(e) /\ Frozen(b, e) /\ Unmoved(b, e)
       /\ CurrentRound(e).phase = row.phase
       /\ CurrentRound(e).settle_not_before = row.settle_not_before
       /\ CurrentRound(e).claim_deadline = row.claim_deadline
  BY <1>8, <1>9, <1>14, SetCompetingRound
<1>16. e = add_claim(d, p, t)
  BY DEF add_claim, b
<1> HIDE DEF e
<1>17. Frozen(d, e)
  BY <1>5, <1>15 DEF Frozen
<1>18. Unmoved(d, e)
  <2>1. AbstractHolder(b) = AbstractHolder(d)
    BY <1>5, <1>9 DEF AbstractHolder, HasCurrentRound
  <2>2. AbstractTranscript(b) = AbstractTranscript(d)
    BY <1>5 DEF AbstractTranscript
  <2>3. QED BY <1>5, <1>15, <2>1, <2>2 DEF Unmoved
<1>19. first => ~claim_due(e, t) /\ ~lease_due(e, t)
  BY <1>10, <1>12, <1>15 DEF claim_due, lease_due
<1>20. QED
  BY <1>15, <1>16, <1>17, <1>18, <1>19

(* A signal row, and the outbox row of a speech, move nothing.             *)
LEMMA AddSignal ==
    ASSUME NEW d, Live(d), NEW p \in Participants,
           NEW action \in {"ready", "pass", "yield"}, NEW ref \in Bases \cup Nat
    PROVE  LET b == add_signal(d, p, action, ref)
           IN  /\ Live(b) /\ Frozen(d, b) /\ Unmoved(d, b)
               /\ CurrentRound(b) = CurrentRound(d)
<1> DEFINE sig == [round |-> d.current_round, participant |-> p,
                   action |-> action, ref |-> ref]
           b == add_signal(d, p, action, ref)
<1>1. d \in DbType /\ RoundsWellFormed(d) /\ Mandated(d) /\ d.status = "active"
      /\ d.current_round \in Nat /\ Len(d.rounds) = d.current_round
  BY LiveRound DEF Live
<1>2. sig \in Signal
  BY <1>1 DEF Signal
<1> HIDE DEF sig
<1>3. b = [d EXCEPT !.signals = @ \cup {sig}]
  BY DEF add_signal, sig
<1>4. b \in DbType
  BY <1>1, <1>2, <1>3 DEF DbType
<1>5. /\ b.status = d.status /\ b.current_round = d.current_round
      /\ b.rounds = d.rounds /\ b.cohort = d.cohort /\ b.claims = d.claims
      /\ d.signals \subseteq b.signals
  BY <1>1, <1>3 DEF DbType
<1> HIDE DEF b
<1>6. RoundsWellFormed(b)
  BY <1>1, <1>5 DEF RoundsWellFormed
<1>7. Mandated(b)
  <2>1. \A n : Cohort(b, n) = Cohort(d, n)
    BY <1>5 DEF Cohort
  <2>2. QED BY <1>1, <1>5, <2>1, MandateKept
<1>8. Unmoved(d, b) /\ CurrentRound(b) = CurrentRound(d)
  BY <1>5 DEF Unmoved, AbstractHolder, AbstractTranscript, CurrentRound, HasCurrentRound
<1>9. Frozen(d, b)
  BY <1>1, <1>5 DEF Frozen
<1>10. QED
  BY <1>1, <1>4, <1>5, <1>6, <1>7, <1>8, <1>9 DEF Live, DbInv, b

LEMMA PersistSpeech ==
    ASSUME NEW d, DbInv(d), NEW ev \in OutboxEvent
    PROVE  LET b == persist_meeting_event(d, ev)
           IN  /\ DbInv(b) /\ Unmoved(d, b)
               /\ b.status = d.status /\ b.rounds = d.rounds
               /\ b.current_round = d.current_round
               /\ CurrentRound(b) = CurrentRound(d)
<1> DEFINE b == persist_meeting_event(d, ev)
<1>1. d \in DbType /\ RoundsWellFormed(d) /\ Mandated(d)
  BY DEF DbInv
<1>2. Append(d.outbox, ev) \in Seq(OutboxEvent)
  BY <1>1 DEF DbType
<1>3. b \in DbType
  BY <1>1, <1>2 DEF DbType, persist_meeting_event
<1>4. /\ b.status = d.status /\ b.current_round = d.current_round
      /\ b.rounds = d.rounds /\ b.cohort = d.cohort /\ b.claims = d.claims
      /\ b.signals = d.signals
  BY <1>1 DEF DbType, persist_meeting_event
<1> HIDE DEF b
<1>5. RoundsWellFormed(b)
  BY <1>1, <1>4 DEF RoundsWellFormed
<1>6. Mandated(b)
  <2>1. \A n : Cohort(b, n) = Cohort(d, n)
    BY <1>4 DEF Cohort
  <2>2. QED BY <1>1, <1>4, <2>1, MandateKept
<1>7. Unmoved(d, b) /\ CurrentRound(b) = CurrentRound(d)
  BY <1>4 DEF Unmoved, AbstractHolder, AbstractTranscript, CurrentRound, HasCurrentRound
<1>8. QED
  BY <1>3, <1>4, <1>5, <1>6, <1>7 DEF DbInv, b

(* Ending the Meeting closes the round it is in, with no speech.           *)
LEMMA EndMeeting ==
    ASSUME NEW d, DbInv(d), d.status = "active"
    PROVE  LET e == EndedMeeting(d)
           IN  /\ DbInv(e) /\ e.status = "ended" /\ Frozen(d, e)
               /\ e.current_round = d.current_round
               /\ AbstractHolder(e) = Null
               /\ AbstractTranscript(e) = AbstractTranscript(d)
<1> DEFINE ev == ActorEvent("end", Null, d.current_round)
           b == persist_meeting_event(d, ev)
           c == [b EXCEPT !.status = "ended"]
           row == TerminalRow(c)
           new == [row EXCEPT !.floor_revision = c.floor_revision + 1]
           e == set_round(c, row)
           r == d.current_round
<1>1. d \in DbType /\ RoundsWellFormed(d) /\ Mandated(d) /\ r \in Nat
      /\ d.rounds \in Seq(Round) /\ Len(d.rounds) \in Nat
  BY DEF DbInv, DbType
<1>2. ev \in OutboxEvent
  BY <1>1 DEF OutboxEvent, ActorEvent
<1> HIDE DEF ev
<1>3. DbInv(b) /\ b \in DbType /\ b.rounds = d.rounds /\ b.current_round = r
  BY <1>2, PersistSpeech DEF DbInv
<1>4. b.claims = d.claims /\ b.signals = d.signals /\ b.cohort = d.cohort
  BY <1>1 DEF DbType, persist_meeting_event
<1> HIDE DEF b
<1>5. /\ c \in DbType /\ c.status = "ended" /\ c.current_round = r
      /\ c.rounds = d.rounds /\ c.claims = d.claims /\ c.signals = d.signals
      /\ c.cohort = d.cohort
  BY <1>3, <1>4 DEF DbType
<1> HIDE DEF c
<1>6. /\ HasCurrentRound(c) <=> r \in 1..Len(d.rounds)
      /\ CurrentRound(c) = d.rounds[r]
  BY <1>1, <1>5 DEF HasCurrentRound, CurrentRound
<1>7. \A x \in Round : [x EXCEPT !.phase = "closed", !.outcome = "ended",
                                 !.speech = Null] \in Round
  BY DEF Round
<1>8. row \in Round
  <2>1. CASE r \in 1..Len(d.rounds)
    <3>1. d.rounds[r] \in Round
      BY <1>1, <2>1
    <3>2. QED BY <1>6, <1>7, <2>1, <3>1 DEF TerminalRow
  <2>2. CASE r \notin 1..Len(d.rounds)
    BY <1>6, <1>7, <2>2, OpenRowFacts DEF TerminalRow
  <2>3. QED BY <2>1, <2>2
<1>9. /\ row.phase = "closed" /\ row.outcome = "ended" /\ row.speech = Null
  BY <1>1, <1>6, OpenRowFacts DEF TerminalRow, Round
<1>10. /\ r \in 1..Len(d.rounds) =>
             /\ row.holder = d.rounds[r].holder
             /\ row.settle_not_before = d.rounds[r].settle_not_before
             /\ row.claim_deadline = d.rounds[r].claim_deadline
             /\ row.lease_expires_at = d.rounds[r].lease_expires_at
       /\ r \notin 1..Len(d.rounds) => row.holder = Null
  <2>1. \A x \in Round :
           LET y == [x EXCEPT !.phase = "closed", !.outcome = "ended",
                              !.speech = Null]
           IN  /\ y.holder = x.holder
               /\ y.settle_not_before = x.settle_not_before
               /\ y.claim_deadline = x.claim_deadline
               /\ y.lease_expires_at = x.lease_expires_at
    BY DEF Round
  <2>2. CASE r \in 1..Len(d.rounds)
    <3>1. d.rounds[r] \in Round
      BY <1>1, <2>2
    <3>2. QED BY <1>6, <2>1, <2>2, <3>1 DEF TerminalRow
  <2>3. CASE r \notin 1..Len(d.rounds)
    BY <1>6, <2>1, <2>3, OpenRowFacts DEF TerminalRow
  <2>4. QED BY <2>2, <2>3
<1> HIDE DEF row
<1>11. /\ e \in DbType /\ e.status = "ended" /\ e.current_round = r
       /\ e.claims = d.claims /\ e.signals = d.signals /\ e.cohort = d.cohort
       /\ new \in Round
       /\ r \in 1..Len(d.rounds) => e.rounds = [d.rounds EXCEPT ![r] = new]
       /\ r \notin 1..Len(d.rounds) => e.rounds = Append(d.rounds, new)
  BY <1>5, <1>8, SetRoundFields
<1>12. /\ new.phase = "closed" /\ new.outcome = "ended" /\ new.speech = Null
       /\ new.holder = row.holder /\ new.settle_not_before = row.settle_not_before
       /\ new.claim_deadline = row.claim_deadline
       /\ new.lease_expires_at = row.lease_expires_at
  BY <1>8, <1>9 DEF Round
<1>13. PhaseShape(new)
  BY <1>12, RosterAssumption DEF PhaseShape
<1> HIDE DEF new, e
<1>14. /\ Len(d.rounds) = r \/ (r = 1 /\ Len(d.rounds) = 0)
       /\ r # 0
  BY <1>1 DEF RoundsWellFormed
<1>15. /\ Len(e.rounds) = r /\ DOMAIN e.rounds = 1..r
       /\ \A n \in 1..r : e.rounds[n] = IF n = r THEN new ELSE d.rounds[n]
  BY <1>1, <1>11, <1>14
<1>16. RoundsWellFormed(e)
  <2>1. ASSUME NEW n \in 1..Len(e.rounds)
        PROVE  /\ PhaseShape(e.rounds[n])
               /\ n < e.current_round =>
                    e.rounds[n].outcome \in {"spoken", "yielded", "expired"}
               /\ n = e.current_round => e.rounds[n].outcome = "ended"
    <3>1. CASE n = r
      BY <1>1, <1>11, <1>12, <1>13, <1>15, <3>1
    <3>2. CASE n # r
      BY <1>1, <1>11, <1>14, <1>15, <3>2 DEF RoundsWellFormed
    <3>3. QED BY <3>1, <3>2
  <2>2. QED BY <1>11, <1>14, <1>15, <2>1 DEF RoundsWellFormed
<1>17. Mandated(e)
  <2>1. \A n : Cohort(e, n) = Cohort(d, n)
    BY <1>11 DEF Cohort
  <2>2. \A n \in 1..Len(e.rounds) : e.rounds[n].holder # Null =>
           /\ n \in 1..Len(d.rounds)
           /\ e.rounds[n].holder = d.rounds[n].holder
           /\ e.rounds[n].settle_not_before = d.rounds[n].settle_not_before
           /\ e.rounds[n].claim_deadline = d.rounds[n].claim_deadline
           /\ e.rounds[n].lease_expires_at = d.rounds[n].lease_expires_at
    BY <1>1, <1>10, <1>12, <1>14, <1>15
  <2>3. QED BY <1>1, <1>11, <2>1, <2>2, MandateKept
<1>18. Frozen(d, e)
  BY <1>1, <1>11, <1>14, <1>15 DEF Frozen
<1>19. AbstractHolder(e) = Null
  BY <1>1, <1>11, <1>12, <1>14, <1>15 DEF AbstractHolder, CurrentRound
<1>20. AbstractTranscript(e) = AbstractTranscript(d)
  <2>1. DOMAIN d.rounds = 1..Len(d.rounds)
    BY <1>1
  <2>2. r \in 1..Len(d.rounds) => d.rounds[r].speech = Null
    BY <1>1, RosterAssumption DEF RoundsWellFormed, PhaseShape
  <2>3. QED BY <1>1, <1>12, <1>14, <1>15, <2>1, <2>2 DEF AbstractTranscript
<1>21. e = EndedMeeting(d)
  BY DEF EndedMeeting, close_floor_for_end, e, row, c, b, ev
<1>22. QED
  BY <1>11, <1>16, <1>17, <1>18, <1>19, <1>20, <1>21 DEF DbInv

-----------------------------------------------------------------------------
(* A claim or a signal: what is due at entry is done, the command changes  *)
(* the competition, and what has become due is done.  At most one of the   *)
(* three hands the floor over or takes it back.                            *)
LEMMA CompetitionCommand ==
    ASSUME NEW d, NEW t \in Nat, DbInv(d), d.status = "active",
           NEW a \in advance_due_locked(ensure_current_round_locked(d), t),
           CurrentRound(a).phase \in {"open", "claiming"},
           NEW c, Live(c), Frozen(a, c), Unmoved(a, c),
           CurrentRound(a).phase = "open" => ~claim_due(c, t) /\ ~lease_due(c, t),
           NEW e \in advance_due_locked(c, t)
    PROVE  /\ Live(e) /\ Frozen(d, e)
           /\ Unmoved(d, e) \/ Granted(d, e) \/ Lapsed(d, e)
<1> DEFINE b == ensure_current_round_locked(d)
<1>1. Live(b) /\ Frozen(d, b) /\ Unmoved(d, b)
  BY EnsureRound
<1> HIDE DEF b
<1>2. /\ Live(a) /\ Frozen(b, a)
      /\ a = b \/ (Lapsed(b, a) /\ CurrentRound(a).phase = "open")
  BY <1>1, AdvanceDue DEF b
<1>3. AbstractHolder(a) = Null /\ AbstractHolder(c) = Null
  BY <1>2, LiveRound DEF Unmoved
<1>4. /\ Live(e) /\ Frozen(c, e)
      /\ e = c \/ Granted(c, e)
  BY <1>3, AdvanceDue DEF Lapsed
<1>5. Frozen(d, e)
  <2>1. /\ d \in DbType /\ b \in DbType /\ a \in DbType /\ c \in DbType /\ e \in DbType
    BY <1>1, <1>2, <1>4 DEF Live, DbInv
  <2>2. Frozen(d, a)
    BY <1>1, <1>2, <2>1, FrozenTransitive
  <2>3. Frozen(a, e)
    BY <1>4, <2>1, FrozenTransitive
  <2>4. QED BY <2>1, <2>2, <2>3, FrozenTransitive
<1>6. CASE a = b
  BY <1>1, <1>4, <1>5, <1>6 DEF Unmoved, Granted
<1>7. CASE Lapsed(b, a) /\ CurrentRound(a).phase = "open"
  <2>1. e = c
    BY <1>7 DEF advance_due_locked
  <2>2. QED BY <1>1, <1>4, <1>5, <1>7, <2>1 DEF Unmoved, Lapsed
<1>8. QED BY <1>2, <1>6, <1>7

(* A step of a transaction leaves the speeches of the stream alone.        *)
Silent(d, e) ==
    /\ SpeechIndexes(e) = SpeechIndexes(d)
    /\ \A i \in SpeechIndexes(d) : e.outbox[i] = d.outbox[i]

(* What persist_meeting_event adds to the stream.                          *)
LEMMA AppendEvent ==
    ASSUME NEW d \in DbType, NEW e \in DbType, NEW ev \in OutboxEvent,
           e.outbox = Append(d.outbox, ev)
    PROVE  /\ Len(d.outbox) \in Nat /\ DOMAIN d.outbox = 1..Len(d.outbox)
           /\ \A i \in DOMAIN d.outbox : e.outbox[i] = d.outbox[i]
           /\ e.outbox[Len(d.outbox) + 1] = ev
           /\ ev.kind = "state" => StateIndexes(e) = StateIndexes(d) \cup {Len(d.outbox) + 1}
           /\ ev.kind # "state" => StateIndexes(e) = StateIndexes(d)
           /\ ev.kind = "speech" => SpeechIndexes(e) = SpeechIndexes(d) \cup {Len(d.outbox) + 1}
           /\ ev.kind # "speech" => SpeechIndexes(e) = SpeechIndexes(d)
<1>1. /\ d.outbox \in Seq(OutboxEvent) /\ Len(d.outbox) \in Nat
      /\ DOMAIN d.outbox = 1..Len(d.outbox)
  BY DEF DbType
<1>2. /\ DOMAIN e.outbox = 1..(Len(d.outbox) + 1)
      /\ \A i \in 1..Len(d.outbox) : e.outbox[i] = d.outbox[i]
      /\ e.outbox[Len(d.outbox) + 1] = ev
  BY <1>1
<1>3. 1..(Len(d.outbox) + 1) = 1..Len(d.outbox) \cup {Len(d.outbox) + 1}
      /\ Len(d.outbox) + 1 \notin 1..Len(d.outbox)
  BY <1>1
<1>4. /\ ev.kind = "state" => StateIndexes(e) = StateIndexes(d) \cup {Len(d.outbox) + 1}
      /\ ev.kind # "state" => StateIndexes(e) = StateIndexes(d)
  BY <1>1, <1>2, <1>3 DEF StateIndexes
<1>5. /\ ev.kind = "speech" => SpeechIndexes(e) = SpeechIndexes(d) \cup {Len(d.outbox) + 1}
      /\ ev.kind # "speech" => SpeechIndexes(e) = SpeechIndexes(d)
  BY <1>1, <1>2, <1>3 DEF SpeechIndexes
<1>6. QED
  BY <1>1, <1>2, <1>4, <1>5

(* A participant's event, or the End, carries no revision.                 *)
LEMMA PublishedAppend ==
    ASSUME NEW d \in DbType, NEW e \in DbType, Published(d),
           NEW ev \in OutboxEvent, e.outbox = Append(d.outbox, ev),
           e.floor_revision = d.floor_revision, ev.kind # "state"
    PROVE  Published(e) /\ (ev.kind # "speech" => Silent(d, e))
<1>1. /\ StateIndexes(e) = StateIndexes(d)
      /\ \A i \in DOMAIN d.outbox : e.outbox[i] = d.outbox[i]
      /\ ev.kind # "speech" => SpeechIndexes(e) = SpeechIndexes(d)
  BY AppendEvent
<1>2. \A i \in StateIndexes(d) : e.outbox[i] = d.outbox[i]
  BY <1>1 DEF StateIndexes
<1>3. \A i \in SpeechIndexes(d) : e.outbox[i] = d.outbox[i]
  BY <1>1 DEF SpeechIndexes
<1>4. QED
  BY <1>1, <1>2, <1>3 DEF Published, Silent

(* A transition of a round publishes the next revision, and nothing after  *)
(* it: the event shows the row it stored.                                  *)
LEMMA PublishedSetRound ==
    ASSUME NEW d \in DbType, NEW row \in Round, Published(d)
    PROVE  LET e == set_round(d, row)
           IN  /\ Published(e) /\ Silent(d, e)
               /\ d.current_round \in 1..(Len(d.rounds) + 1) => LatestIsCurrent(e)
<1> DEFINE ev == StateEvent(d.current_round, d.floor_revision + 1, row.phase,
                            IF row.phase = "granted" THEN row.holder ELSE Null)
           e == set_round(d, row)
           new == [row EXCEPT !.floor_revision = d.floor_revision + 1]
           last == Len(d.outbox) + 1
<1>1. d.floor_revision \in Nat /\ d.current_round \in Nat
  BY DEF DbType
<1>2. /\ ev \in OutboxEvent /\ ev.floor_revision = d.floor_revision + 1
      /\ ev.kind = "state" /\ ev.round = d.current_round /\ ev.phase = row.phase
      /\ ev.holder = IF row.phase = "granted" THEN row.holder ELSE Null
  BY <1>1 DEF StateEvent, OutboxEvent, Round
<1>3. e.outbox = Append(d.outbox, ev)
  <2> HIDE DEF ev
  <2>1. \E rs : e = [[d EXCEPT !.outbox = Append(@, ev)] EXCEPT
                        !.floor_revision = d.floor_revision + 1, !.rounds = rs]
    BY DEF set_round, persist_meeting_event, ev
  <2> HIDE DEF e
  <2>2. QED BY <2>1 DEF DbType
<1>4. /\ e \in DbType /\ e.floor_revision = d.floor_revision + 1
      /\ e.current_round = d.current_round /\ new \in Round
      /\ d.current_round \in 1..Len(d.rounds) =>
            e.rounds = [d.rounds EXCEPT ![d.current_round] = new]
      /\ d.current_round \notin 1..Len(d.rounds) => e.rounds = Append(d.rounds, new)
  BY SetRoundFields
<1>5. new.phase = row.phase /\ new.holder = row.holder
  BY DEF Round
<1> HIDE DEF ev, e, new
<1>6. /\ Len(d.outbox) \in Nat
      /\ \A i \in StateIndexes(d) : i \in 1..Len(d.outbox) /\ e.outbox[i] = d.outbox[i]
      /\ \A i \in SpeechIndexes(d) : e.outbox[i] = d.outbox[i]
      /\ e.outbox[last] = ev
      /\ StateIndexes(e) = StateIndexes(d) \cup {last}
      /\ SpeechIndexes(e) = SpeechIndexes(d)
  BY <1>2, <1>3, <1>4, AppendEvent DEF StateIndexes, SpeechIndexes
<1>7. \A i \in StateIndexes(d) : /\ e.outbox[i].floor_revision \in 1..d.floor_revision
                                 /\ i < last
  BY <1>6 DEF Published
<1>8. Published(e)
  <2>1. ASSUME NEW n \in 1..e.floor_revision
        PROVE  \E i \in StateIndexes(e) : e.outbox[i].floor_revision = n
    <3>1. CASE n = d.floor_revision + 1
      BY <1>2, <1>6, <3>1
    <3>2. CASE n \in 1..d.floor_revision
      BY <1>6, <3>2 DEF Published
    <3>3. QED
      BY <1>1, <1>4, <3>1, <3>2
  <2>2. \A i \in StateIndexes(e) : e.outbox[i].floor_revision \in 1..e.floor_revision
    BY <1>1, <1>2, <1>4, <1>6, <1>7
  <2>3. ASSUME NEW i \in StateIndexes(e), NEW j \in StateIndexes(e), i < j
        PROVE  e.outbox[i].floor_revision < e.outbox[j].floor_revision
    <3>1. i \in StateIndexes(d)
      <4>1. last \in Nat /\ j \in Nat /\ j <= last
        BY <1>6
      <4>2. i # last
        BY <2>3, <4>1
      <4>3. QED
        BY <1>6, <4>2
    <3>2. CASE j \in StateIndexes(d)
      BY <1>6, <2>3, <3>1, <3>2 DEF Published
    <3>3. CASE j = last
      <4>1. e.outbox[i].floor_revision \in 1..d.floor_revision
        BY <1>7, <3>1
      <4>2. e.outbox[j].floor_revision = d.floor_revision + 1
        BY <1>2, <1>6, <3>3
      <4>3. QED
        BY <1>1, <4>1, <4>2
    <3>4. QED
      BY <1>6, <3>2, <3>3
  <2>4. QED
    BY <2>1, <2>2, <2>3 DEF Published
<1>9. Silent(d, e)
  BY <1>6 DEF Silent
<1>10. d.current_round \in 1..(Len(d.rounds) + 1) => LatestIsCurrent(e)
  <2> SUFFICES ASSUME d.current_round \in 1..(Len(d.rounds) + 1)
               PROVE  LatestIsCurrent(e)
    OBVIOUS
  <2>1. CurrentRound(e) = new
    <3>1. d.rounds \in Seq(Round) /\ Len(d.rounds) \in Nat
      BY DEF DbType
    <3>2. CASE d.current_round \in 1..Len(d.rounds)
      BY <1>4, <3>1, <3>2 DEF CurrentRound
    <3>3. CASE d.current_round = Len(d.rounds) + 1
      BY <1>4, <3>1, <3>3 DEF CurrentRound
    <3>4. QED
      BY <3>1, <3>2, <3>3
  <2>2. ASSUME NEW i \in StateIndexes(e), e.outbox[i].floor_revision = e.floor_revision
        PROVE  e.outbox[i] = ev
    <3>1. CASE i \in StateIndexes(d)
      BY <1>1, <1>4, <1>7, <2>2, <3>1
    <3>2. QED
      BY <1>6, <3>1
  <2>3. QED
    BY <1>2, <1>4, <1>5, <2>1, <2>2 DEF LatestIsCurrent
<1>11. QED BY <1>8, <1>9, <1>10 DEF e

LEMMA SilentTransitive ==
    ASSUME NEW d, NEW e, NEW f, Silent(d, e), Silent(e, f)
    PROVE  Silent(d, f)
BY DEF Silent

LEMMA PublishedEnsure ==
    ASSUME NEW d, DbInv(d), Published(d)
    PROVE  LET e == ensure_current_round_locked(d)
           IN  /\ Published(e) /\ Silent(d, e)
               /\ LatestIsCurrent(d) => LatestIsCurrent(e)
               /\ d.floor_revision <= e.floor_revision
<1>1. /\ d \in DbType /\ d.floor_revision \in Nat
      /\ d.current_round \in 1..(Len(d.rounds) + 1)
  BY DEF DbInv, DbType, RoundsWellFormed
<1> DEFINE o == set_round(d, OpenRow)
<1>2. /\ Published(o) /\ Silent(d, o) /\ LatestIsCurrent(o)
      /\ o.floor_revision = d.floor_revision + 1
  BY <1>1, OpenRowFacts, SetRoundFields, PublishedSetRound
<1>3. ensure_current_round_locked(d) \in {d, o}
  BY DEF ensure_current_round_locked, create_open_round_locked
<1> HIDE DEF o
<1>4. QED
  BY <1>1, <1>2, <1>3 DEF Silent

(* Changing a table other than the outbox publishes nothing.               *)
LEMMA PublishedSame ==
    ASSUME NEW d, NEW e, Published(d), e.outbox = d.outbox,
           e.floor_revision = d.floor_revision
    PROVE  Published(e) /\ Silent(d, e)
BY DEF Published, Silent, StateIndexes, SpeechIndexes

LEMMA PublishedClose ==
    ASSUME NEW d, Live(d), Published(d),
           NEW outcome \in {"spoken", "yielded", "expired"},
           NEW speaker \in Participants \cup {Null}
    PROVE  LET e == close_and_open(d, outcome, speaker)
           IN  Published(e) /\ Silent(d, e) /\ LatestIsCurrent(e)
<1> DEFINE row == [CurrentRound(d) EXCEPT !.phase = "closed", !.outcome = outcome,
                                          !.speech = speaker]
           c == set_round(d, row)
           b == [c EXCEPT !.current_round = @ + 1]
<1>1. row \in Round
  <2>1. \A x \in Round, o \in {"spoken", "yielded", "expired", "ended", Null},
           p \in Participants \cup {Null} :
           [x EXCEPT !.phase = "closed", !.outcome = o, !.speech = p] \in Round
    BY DEF Round
  <2>2. QED BY <2>1, LiveRound
<1> HIDE DEF row
<1>2. /\ c \in DbType /\ Published(c) /\ Silent(d, c)
      /\ c.current_round = d.current_round /\ Len(c.rounds) = d.current_round
      /\ d.current_round \in Nat
  <2>1. /\ c \in DbType /\ Published(c) /\ Silent(d, c)
        /\ c.current_round = d.current_round
        /\ c.rounds = [d.rounds EXCEPT ![d.current_round] =
                          [row EXCEPT !.floor_revision = d.floor_revision + 1]]
    BY <1>1, LiveRound, SetRoundFields, PublishedSetRound
  <2>2. Len(c.rounds) = d.current_round
    <3>1. /\ d.rounds \in Seq(Round) /\ Len(d.rounds) = d.current_round
          /\ c.rounds \in Seq(Round) /\ Len(d.rounds) \in Nat /\ Len(c.rounds) \in Nat
      BY <2>1, LiveRound DEF Live, DbType
    <3>2. DOMAIN c.rounds = DOMAIN d.rounds
      BY <2>1
    <3>3. QED
      BY <3>1, <3>2
  <2>3. QED
    BY <2>1, <2>2, LiveRound
<1> HIDE DEF c
<1>3. /\ b \in DbType /\ b.outbox = c.outbox /\ b.floor_revision = c.floor_revision
      /\ b.rounds = c.rounds /\ b.current_round = c.current_round + 1
  <2>1. c.current_round + 1 \in Nat
    BY <1>2 DEF DbType
  <2>2. QED BY <1>2, <2>1 DEF DbType
<1> HIDE DEF b
<1>4. /\ Published(b) /\ Silent(d, b)
      /\ b.current_round \in 1..(Len(b.rounds) + 1)
  BY <1>2, <1>3, PublishedSame DEF Silent, SpeechIndexes
<1> DEFINE e == create_open_round_locked(b)
<1>5. Published(e) /\ Silent(b, e) /\ LatestIsCurrent(e)
  BY <1>3, <1>4, OpenRowFacts, PublishedSetRound DEF create_open_round_locked
<1>6. e = close_and_open(d, outcome, speaker)
  BY DEF close_and_open, b, c, row
<1> HIDE DEF e
<1>7. QED BY <1>4, <1>5, <1>6, SilentTransitive

LEMMA PublishedAdvance ==
    ASSUME NEW d, Live(d), Published(d), NEW t \in Nat,
           NEW e \in advance_due_locked(d, t)
    PROVE  /\ Published(e) /\ Silent(d, e)
           /\ LatestIsCurrent(d) => LatestIsCurrent(e)
           /\ Granted(d, e) => CurrentRound(e).grant = d.floor_revision + 1
<1>1. CASE claim_due(d, t)
  <2>1. PICK w \in Claimants(d, d.current_round) : e = grant_round_locked(d, t, w)
    BY <1>1 DEF advance_due_locked
  <2> DEFINE row == [CurrentRound(d) EXCEPT !.phase = "granted", !.holder = w,
                         !.grant = d.floor_revision + 1,
                         !.lease_expires_at = t + GrantLease]
             new == [row EXCEPT !.floor_revision = d.floor_revision + 1]
  <2>2. w \in Participants
    BY LiveRound DEF Claimants, DbType, Claim
  <2>3. row \in Round
    <3>1. \A x \in Round, h \in Participants \cup {Null}, g \in Nat, l \in Nat :
             [x EXCEPT !.phase = "granted", !.holder = h, !.grant = g,
                       !.lease_expires_at = l] \in Round
      BY DEF Round
    <3>2. d.floor_revision + 1 \in Nat /\ t + GrantLease \in Nat
      BY LiveRound, FloorConfigAssumption
    <3>3. QED BY <2>2, <3>1, <3>2, LiveRound
  <2>4. e = set_round(d, row)
    BY <2>1 DEF grant_round_locked
  <2>5. row.grant = d.floor_revision + 1
    BY LiveRound DEF Round
  <2> HIDE DEF row
  <2>6. /\ e.current_round = d.current_round /\ new \in Round
        /\ e.rounds = [d.rounds EXCEPT ![d.current_round] = new]
    BY <2>3, <2>4, LiveRound, SetRoundFields
  <2>7. new.grant = d.floor_revision + 1
    BY <2>3, <2>5 DEF Round
  <2> HIDE DEF new
  <2>8. CurrentRound(e) = new
    BY <2>6, LiveRound DEF CurrentRound
  <2>9. Published(e) /\ Silent(d, e) /\ LatestIsCurrent(e)
    BY <2>3, <2>4, LiveRound, PublishedSetRound
  <2>10. QED BY <2>7, <2>8, <2>9
<1>2. CASE ~claim_due(d, t) /\ lease_due(d, t)
  <2>1. e = close_and_open(d, "expired", Null)
    BY <1>2 DEF advance_due_locked, expire_round_locked
  <2>2. AbstractHolder(d) # Null
    BY <1>2, LiveRound DEF lease_due, PhaseShape
  <2>3. QED BY <2>1, <2>2, PublishedClose DEF Granted
<1>3. CASE ~claim_due(d, t) /\ ~lease_due(d, t)
  <2>1. e = d
    BY <1>3 DEF advance_due_locked
  <2>2. QED BY <2>1, RosterAssumption DEF Granted, Silent
<1>4. QED BY <1>1, <1>2, <1>3

LEMMA PublishedClaim ==
    ASSUME NEW d, Live(d), CurrentRound(d).phase \in {"open", "claiming"},
           Published(d), NEW p \in Participants, NEW t \in Nat
    PROVE  LET e == add_claim(d, p, t)
           IN  Published(e) /\ Silent(d, e) /\ LatestIsCurrent(e)
<1> DEFINE r == d.current_round
           first == CurrentRound(d).phase = "open"
           ready == {<<r, a>> : a \in Signallers(d, r, "ready")}
           row == IF first THEN OpenCompetition(d, t) ELSE CurrentRound(d)
           b == [d EXCEPT !.claims = @ \cup {[round |-> r, claimant |-> p]},
                          !.cohort = IF first THEN @ \cup ready ELSE @]
<1>1. /\ d \in DbType /\ r \in Nat /\ CurrentRound(d) \in Round
  BY LiveRound
<1>2. ready \subseteq Nat \X Participants
  BY <1>1 DEF Signallers, DbType, Signal
<1>3. /\ b \in DbType /\ b.outbox = d.outbox /\ b.floor_revision = d.floor_revision
      /\ b.rounds = d.rounds /\ b.current_round = d.current_round
  <2> HIDE DEF ready
  <2>1. d.claims \cup {[round |-> r, claimant |-> p]} \in SUBSET Claim
    BY <1>1 DEF DbType, Claim
  <2>2. (IF first THEN d.cohort \cup ready ELSE d.cohort) \in SUBSET (Nat \X Participants)
    BY <1>1, <1>2 DEF DbType
  <2>3. QED BY <1>1, <2>1, <2>2 DEF DbType
<1> HIDE DEF b
<1>4. /\ Published(b) /\ Silent(d, b)
      /\ b.current_round \in 1..(Len(b.rounds) + 1)
  BY <1>3, PublishedSame, LiveRound
<1>5. row \in Round
  <2>1. \A x \in Round, m \in Nat, k \in Nat :
           [x EXCEPT !.phase = "claiming", !.settle_not_before = m,
                     !.claim_deadline = k] \in Round
    BY DEF Round
  <2>2. t + SettleDelay \in Nat /\ t + ClaimWindow \in Nat
    BY FloorConfigAssumption
  <2>3. QED BY <1>1, <2>1, <2>2 DEF OpenCompetition
<1> HIDE DEF row
<1> DEFINE e == set_round(b, row)
<1>6. Published(e) /\ Silent(b, e) /\ LatestIsCurrent(e)
  BY <1>3, <1>4, <1>5, PublishedSetRound
<1>7. e = add_claim(d, p, t)
  BY DEF add_claim, b, row
<1> HIDE DEF e
<1>8. QED
  BY <1>4, <1>6, <1>7, SilentTransitive

(* A speech or a Yield cites a committed Grant, so the Grant it finds is   *)
(* the one that was live before it, and nothing was due at its entry.      *)
LEMMA GrantCommand ==
    ASSUME NEW d, NEW t \in Nat, DbInv(d), Published(d), d.status = "active",
           NEW a \in advance_due_locked(ensure_current_round_locked(d), t),
           CurrentRound(a).phase = "granted",
           CurrentRound(a).grant \in PublishedGrants(d)
    PROVE  Live(a) /\ Frozen(d, a) /\ Unmoved(d, a) /\ Published(a) /\ Silent(d, a)
<1> DEFINE b == ensure_current_round_locked(d)
<1>1. /\ Live(b) /\ Frozen(d, b) /\ Unmoved(d, b)
      /\ Published(b) /\ Silent(d, b) /\ d.floor_revision <= b.floor_revision
  BY EnsureRound, PublishedEnsure
<1> HIDE DEF b
<1>2. /\ Live(a) /\ Frozen(b, a)
      /\ a = b \/ Granted(b, a)
  BY <1>1, AdvanceDue DEF b
<1>3. /\ Published(a)
      /\ Granted(b, a) => CurrentRound(a).grant = b.floor_revision + 1
  BY <1>1, PublishedAdvance DEF b
<1>4. d.floor_revision \in Nat /\ b.floor_revision \in Nat
      /\ DOMAIN d.outbox = 1..Len(d.outbox)
  BY <1>1, LiveRound DEF DbInv, DbType
<1>5. CurrentRound(a).grant \in 1..d.floor_revision
  BY <1>4 DEF PublishedGrants, Published, StateIndexes
<1>6. a = b
  BY <1>1, <1>2, <1>3, <1>4, <1>5
<1>7. QED
  BY <1>1, <1>3, <1>6

-----------------------------------------------------------------------------
(* A speech that is stored lies in a closed round, and closed rounds do    *)
(* not change: what adds no speech keeps the speeches it finds.            *)
LEMMA SpeechesKept ==
    ASSUME NEW d, NEW e, DbInv(d), e \in DbType, Frozen(d, e), Silent(d, e),
           d.status = "active", SpeechesStored(d)
    PROVE  SpeechesStored(e)
<1>1. /\ d \in DbType /\ RoundsWellFormed(d) /\ d.current_round \in Nat
      /\ DOMAIN d.rounds = 1..Len(d.rounds) /\ Len(d.rounds) \in Nat
      /\ DOMAIN e.rounds = 1..Len(e.rounds) /\ Len(e.rounds) \in Nat
  BY DEF DbInv, DbType
<1>2. ASSUME NEW i \in SpeechIndexes(d)
      PROVE  /\ d.outbox[i].round \in DOMAIN e.rounds
             /\ e.rounds[d.outbox[i].round] = d.rounds[d.outbox[i].round]
  <2>1. /\ d.outbox[i].round \in 1..Len(d.rounds)
        /\ d.rounds[d.outbox[i].round].outcome = "spoken"
    BY <1>1 DEF SpeechesStored
  <2>2. d.outbox[i].round < d.current_round
    BY <1>1, <2>1, RosterAssumption DEF RoundsWellFormed
  <2>3. QED
    BY <1>1, <2>1, <2>2 DEF Frozen
<1>3. QED
  BY <1>2 DEF Silent, SpeechesStored

(* The inductive invariant, and what one step does to the database.        *)
Stream(d) == Published(d) /\ LatestIsCurrent(d) /\ SpeechesStored(d)

IInv == TypeOK /\ DbInv(db) /\ Stream(db)

Spoken(d, e) == /\ e.current_round = d.current_round + 1
                /\ AbstractHolder(d) # Null
                /\ AbstractHolder(e) = Null
                /\ AbstractTranscript(e) = AbstractTranscript(d) \cup
                      {<<d.current_round, AbstractHolder(d)>>}

Ended(d, e) == /\ e.status = "ended"
               /\ e.current_round = d.current_round
               /\ AbstractHolder(e) = Null
               /\ AbstractTranscript(e) = AbstractTranscript(d)

Moves(d, e) == \/ e = d
               \/ /\ d.status = "active" /\ Frozen(d, e)
                  /\ \/ /\ e.status = "active"
                        /\ \/ Unmoved(d, e) \/ Granted(d, e)
                           \/ Lapsed(d, e) \/ Spoken(d, e)
                     \/ Ended(d, e)

(* Ending a Meeting changes its status and its last round only.            *)
EndsOnly(d, e) ==
    /\ e.status = "ended" /\ e.current_round = d.current_round
    /\ e.claims = d.claims /\ e.signals = d.signals
    /\ SpeechIndexes(e) = SpeechIndexes(d)

LEMMA EndStep ==
    ASSUME DbInv(db), Stream(db), db.status = "active", db' = EndedMeeting(db)
    PROVE  DbInv(db') /\ Stream(db') /\ Moves(db, db') /\ EndsOnly(db, db')
<1> DEFINE ev == ActorEvent("end", Null, db.current_round)
           b == persist_meeting_event(db, ev)
           c == [b EXCEPT !.status = "ended"]
<1>1. ev \in OutboxEvent /\ ev.kind = "end"
  BY DEF OutboxEvent, ActorEvent, DbInv, DbType
<1> HIDE DEF ev
<1>2. b \in DbType /\ RoundsWellFormed(b) /\ b.rounds = db.rounds
      /\ b.current_round = db.current_round
  BY <1>1, PersistSpeech DEF DbInv
<1>3. /\ b.outbox = Append(db.outbox, ev) /\ b.floor_revision = db.floor_revision
      /\ b.claims = db.claims /\ b.signals = db.signals
      /\ db \in DbType /\ db.floor_revision \in Nat
  BY DEF persist_meeting_event, DbInv, DbType
<1> HIDE DEF b
<1>4. Published(b) /\ Silent(db, b)
  BY <1>1, <1>2, <1>3, PublishedAppend DEF Stream
<1>5. /\ c \in DbType /\ c.outbox = b.outbox /\ c.floor_revision = b.floor_revision
      /\ c.rounds = db.rounds /\ c.current_round = db.current_round
      /\ c.claims = db.claims /\ c.signals = db.signals
  BY <1>2, <1>3 DEF DbType
<1> HIDE DEF c
<1>6. TerminalRow(c) \in Round
  <2>1. \A x \in Round : [x EXCEPT !.phase = "closed", !.outcome = "ended",
                                   !.speech = Null] \in Round
    BY DEF Round
  <2>2. CASE HasCurrentRound(c)
    <3>1. CurrentRound(c) \in Round
      BY <1>5, <2>2 DEF CurrentRound, HasCurrentRound, DbType
    <3>2. QED BY <2>1, <2>2, <3>1 DEF TerminalRow
  <2>3. CASE ~HasCurrentRound(c)
    BY <2>1, <2>3, OpenRowFacts DEF TerminalRow
  <2>4. QED BY <2>2, <2>3
<1>7. /\ Published(c) /\ Silent(db, c)
      /\ c.current_round \in 1..(Len(c.rounds) + 1)
  <2>1. Published(c) /\ Silent(b, c)
    BY <1>4, <1>5, PublishedSame
  <2>2. c.current_round \in 1..(Len(c.rounds) + 1)
    BY <1>3, <1>5 DEF DbInv, RoundsWellFormed, DbType
  <2>3. QED
    BY <1>4, <2>1, <2>2, SilentTransitive
<1> DEFINE e == set_round(c, TerminalRow(c))
<1>8. /\ Published(e) /\ LatestIsCurrent(e) /\ Silent(c, e)
      /\ e.claims = db.claims /\ e.signals = db.signals
  BY <1>5, <1>6, <1>7, PublishedSetRound, SetRoundFields
<1>9. e = db'
  BY DEF EndedMeeting, close_floor_for_end, ev, b, c
<1> HIDE DEF e
<1>10. Silent(db, db')
  BY <1>7, <1>8, <1>9, SilentTransitive
<1>11. /\ DbInv(db') /\ db'.status = "ended" /\ Frozen(db, db') /\ Moves(db, db')
       /\ db'.current_round = db.current_round
  BY EndMeeting DEF Moves, Ended
<1>12. SpeechesStored(db')
  BY <1>10, <1>11, SpeechesKept DEF DbInv, Stream
<1>13. QED
  BY <1>8, <1>9, <1>10, <1>11, <1>12 DEF Stream, EndsOnly, Silent

LEMMA ClaimStep ==
    ASSUME IInv, NEW p \in Participants, NEW r \in 1..MaxRound, claim_floor(p, r)
    PROVE  DbInv(db') /\ Stream(db') /\ Moves(db, db')
<1>1. /\ db.status = "active" /\ DbInv(db) /\ Stream(db) /\ Published(db) /\ now \in Nat
  BY DEF claim_floor, IInv, TypeOK, Stream
<1>2. PICK a \in advance_due_locked(ensure_current_round_locked(db), now) :
         /\ CurrentRound(a).phase \in {"open", "claiming"}
         /\ \E e \in advance_due_locked(add_claim(a, p, now), now) : db' = e
  BY DEF claim_floor, AdvancedAtEntry, Competing, Commit
<1>3. Live(a) /\ Published(a) /\ Silent(db, a)
  BY <1>1, EnsureRound, PublishedEnsure, AdvanceDue, PublishedAdvance, SilentTransitive
<1> DEFINE c == add_claim(a, p, now)
<1>4. /\ Live(c) /\ Frozen(a, c) /\ Unmoved(a, c)
      /\ CurrentRound(a).phase = "open" => ~claim_due(c, now) /\ ~lease_due(c, now)
  BY <1>1, <1>2, <1>3, AddClaim
<1>5. Published(c) /\ Silent(a, c) /\ LatestIsCurrent(c)
  BY <1>1, <1>2, <1>3, PublishedClaim
<1> HIDE DEF c
<1>6. db' \in advance_due_locked(c, now)
  BY <1>2 DEF c
<1>7. /\ Live(db') /\ Frozen(db, db')
      /\ Unmoved(db, db') \/ Granted(db, db') \/ Lapsed(db, db')
  BY <1>1, <1>2, <1>4, <1>6, CompetitionCommand
<1>8. Published(db') /\ Silent(c, db') /\ LatestIsCurrent(db')
  BY <1>1, <1>4, <1>5, <1>6, PublishedAdvance
<1>9. Silent(db, db')
  BY <1>3, <1>5, <1>8, SilentTransitive
<1>10. SpeechesStored(db')
  BY <1>1, <1>7, <1>9, SpeechesKept DEF Live, DbInv, Stream
<1>11. QED
  BY <1>1, <1>7, <1>8, <1>10 DEF Live, Moves, Stream

LEMMA SignalStep ==
    ASSUME IInv, NEW p \in Participants, NEW r \in 1..MaxRound,
           NEW action \in {"ready", "pass"}, NEW basis \in Bases,
           signal_intent(p, r, action, basis)
    PROVE  DbInv(db') /\ Stream(db') /\ Moves(db, db')
<1>1. /\ db.status = "active" /\ DbInv(db) /\ Stream(db) /\ Published(db) /\ now \in Nat
  BY DEF signal_intent, IInv, TypeOK, Stream
<1>2. PICK a \in advance_due_locked(ensure_current_round_locked(db), now) :
         /\ CurrentRound(a).phase \in {"open", "claiming"}
         /\ LET s == add_signal(a, p, action, basis)
            IN  \E e \in advance_due_locked(set_round(s, CurrentRound(s)), now) : db' = e
  BY DEF signal_intent, AdvancedAtEntry, Competing, Commit
<1>3. Live(a) /\ Published(a) /\ Silent(db, a)
  BY <1>1, EnsureRound, PublishedEnsure, AdvanceDue, PublishedAdvance, SilentTransitive
<1> DEFINE s == add_signal(a, p, action, basis)
           c == set_round(s, CurrentRound(s))
<1>4. /\ Live(s) /\ Frozen(a, s) /\ Unmoved(a, s)
      /\ CurrentRound(s) = CurrentRound(a)
  BY <1>3, AddSignal
<1>5. Published(s) /\ Silent(a, s)
  <2>1. s.outbox = a.outbox /\ s.floor_revision = a.floor_revision
    BY <1>3, LiveRound DEF add_signal, DbType
  <2>2. QED BY <1>3, <2>1, PublishedSame
<1> HIDE DEF s
<1>6. /\ s \in DbType /\ CurrentRound(s) \in Round /\ PhaseShape(CurrentRound(s))
  BY <1>4, LiveRound
<1>7. /\ Live(c) /\ Frozen(s, c) /\ Unmoved(s, c)
      /\ CurrentRound(c).phase = CurrentRound(s).phase
  BY <1>2, <1>4, <1>6, SetCompetingRound
<1>8. Published(c) /\ Silent(s, c) /\ LatestIsCurrent(c)
  BY <1>4, <1>5, <1>6, PublishedSetRound, LiveRound
<1> HIDE DEF c
<1>9. Frozen(a, c) /\ Unmoved(a, c)
  BY <1>3, <1>4, <1>7, FrozenTransitive DEF Unmoved, Live, DbInv
<1>10. CurrentRound(a).phase = "open" => ~claim_due(c, now) /\ ~lease_due(c, now)
  BY <1>4, <1>7 DEF claim_due, lease_due
<1>11. db' \in advance_due_locked(c, now)
  BY <1>2 DEF c, s
<1>12. /\ Live(db') /\ Frozen(db, db')
       /\ Unmoved(db, db') \/ Granted(db, db') \/ Lapsed(db, db')
  BY <1>1, <1>2, <1>7, <1>9, <1>10, <1>11, CompetitionCommand
<1>13. Published(db') /\ Silent(c, db') /\ LatestIsCurrent(db')
  BY <1>1, <1>7, <1>8, <1>11, PublishedAdvance
<1>14. Silent(db, db')
  BY <1>3, <1>5, <1>8, <1>13, SilentTransitive
<1>15. SpeechesStored(db')
  BY <1>1, <1>12, <1>14, SpeechesKept DEF Live, DbInv, Stream
<1>16. QED
  BY <1>1, <1>12, <1>13, <1>15 DEF Live, Moves, Stream

LEMMA YieldStep ==
    ASSUME IInv, NEW p \in Participants, NEW r \in 1..MaxRound,
           NEW g \in PublishedGrants(db), yield_floor(p, r, g)
    PROVE  DbInv(db') /\ Stream(db') /\ Moves(db, db')
<1>1. /\ db.status = "active" /\ DbInv(db) /\ Stream(db) /\ Published(db) /\ now \in Nat
      /\ db \in DbType
  BY DEF yield_floor, IInv, TypeOK, DbInv, Stream
<1>2. PICK a \in advance_due_locked(ensure_current_round_locked(db), now) :
         /\ CurrentRound(a).phase = "granted" /\ CurrentRound(a).grant = g
         /\ db' = close_and_open(add_signal(a, p, "yield", g), "yielded", Null)
  BY DEF yield_floor, AdvancedAtEntry, HoldsGrant, Commit
<1>3. Live(a) /\ Frozen(db, a) /\ Unmoved(db, a) /\ Published(a) /\ Silent(db, a)
  BY <1>1, <1>2, GrantCommand
<1> DEFINE s == add_signal(a, p, "yield", g)
<1>4. g \in Nat
  BY <1>1 DEF PublishedGrants, Published, StateIndexes, DbType
<1>5. /\ Live(s) /\ Frozen(a, s) /\ Unmoved(a, s)
      /\ CurrentRound(s) = CurrentRound(a)
  BY <1>3, <1>4, AddSignal
<1>6. Published(s) /\ Silent(a, s)
  <2>1. s.outbox = a.outbox /\ s.floor_revision = a.floor_revision
    BY <1>3, LiveRound DEF add_signal, DbType
  <2>2. QED BY <1>3, <2>1, PublishedSame
<1> HIDE DEF s
<1>7. /\ Live(db') /\ Frozen(s, db')
      /\ db'.current_round = s.current_round + 1
      /\ AbstractHolder(db') = Null
      /\ AbstractTranscript(db') = AbstractTranscript(s) \cup {}
  BY <1>2, <1>5, CloseGrant, RosterAssumption DEF s
<1>8. Published(db') /\ Silent(s, db') /\ LatestIsCurrent(db')
  BY <1>2, <1>5, <1>6, PublishedClose DEF s
<1>9. AbstractHolder(s) # Null
  BY <1>2, <1>5, LiveRound DEF PhaseShape
<1>10. Lapsed(db, db')
  BY <1>3, <1>5, <1>7, <1>9 DEF Lapsed, Unmoved
<1>11. Frozen(db, db')
  BY <1>1, <1>3, <1>5, <1>7, FrozenTransitive DEF Live, DbInv
<1>12. SpeechesStored(db')
  <2>1. Silent(db, db')
    BY <1>3, <1>6, <1>8, SilentTransitive
  <2>2. QED
    BY <1>1, <1>7, <1>11, <2>1, SpeechesKept DEF Live, DbInv, Stream
<1>13. QED
  BY <1>1, <1>7, <1>8, <1>10, <1>11, <1>12 DEF Live, Moves, Stream

(* A speech is stored with the round it closes, by the holder.             *)
LEMMA SpeechAdded ==
    ASSUME NEW d, Live(d), Published(d), SpeechesStored(d), NEW p \in Participants,
           CurrentRound(d).phase = "granted", CurrentRound(d).holder = p,
           NEW ev \in OutboxEvent, ev = ActorEvent("speech", p, d.current_round),
           NEW s, s = persist_meeting_event(d, ev), Live(s),
           NEW e, e = close_and_open(s, "spoken", p)
    PROVE  SpeechesStored(e)
<1> DEFINE r == d.current_round
           last == Len(d.outbox) + 1
<1>1. /\ d \in DbType /\ RoundsWellFormed(d) /\ r \in Nat /\ r \in 1..Len(d.rounds)
      /\ Len(d.rounds) = r /\ DOMAIN d.rounds = 1..Len(d.rounds)
      /\ d.rounds[r].holder = p /\ d.rounds[r].outcome = Null /\ p # Null
  BY LiveRound, RosterAssumption DEF Live
<1>2. /\ s \in DbType /\ RoundsWellFormed(s) /\ s.rounds = d.rounds /\ s.current_round = r
      /\ s.outbox = Append(d.outbox, ev) /\ s.status = "active"
      /\ s.floor_revision = d.floor_revision
      /\ CurrentRound(s).phase = "granted"
  BY <1>1, LiveRound DEF Live, persist_meeting_event, DbType, CurrentRound
<1>3. ev.kind = "speech" /\ ev.author = p /\ ev.round = r
  BY DEF ActorEvent
<1>4. /\ Len(d.outbox) \in Nat
      /\ SpeechIndexes(s) = SpeechIndexes(d) \cup {last}
      /\ \A i \in SpeechIndexes(d) : s.outbox[i] = d.outbox[i]
      /\ s.outbox[last] = ev
  BY <1>1, <1>2, <1>3, AppendEvent DEF SpeechIndexes
<1>5. Published(s)
  BY <1>1, <1>2, <1>3, PublishedAppend
<1>6. Silent(s, e)
  BY <1>5, PublishedClose
<1>7. ClosedInto(s, e, p)
  BY <1>1, <1>2, CloseAndOpen
<1>8. /\ e \in DbType /\ RoundsWellFormed(e) /\ DOMAIN e.rounds = 1..Len(e.rounds)
      /\ 1..Len(d.rounds) \subseteq 1..Len(e.rounds)
      /\ \A n \in 1..Len(d.rounds) : n # r => e.rounds[n] = d.rounds[n]
      /\ e.rounds[r].holder = p
      /\ AbstractTranscript(e) = AbstractTranscript(s) \cup {<<r, p>>}
  BY <1>1, <1>2, <1>7 DEF ClosedInto, DbType
<1>9. e.rounds[r].speech = p /\ e.rounds[r].outcome = "spoken"
  <2>1. <<r, p>> \in AbstractTranscript(e)
    BY <1>8
  <2>2. PICK n \in DOMAIN e.rounds : <<r, p>> = <<n, e.rounds[n].speech>>
    BY <2>1 DEF AbstractTranscript
  <2>3. n = r /\ e.rounds[r].speech = p
    BY <2>2
  <2>4. PhaseShape(e.rounds[r])
    BY <1>1, <1>8 DEF RoundsWellFormed
  <2>5. QED
    BY <1>1, <2>3, <2>4 DEF PhaseShape
<1>10. ASSUME NEW i \in SpeechIndexes(d)
       PROVE  /\ e.outbox[i] = d.outbox[i]
              /\ d.outbox[i].round \in 1..Len(d.rounds) /\ d.outbox[i].round # r
              /\ e.rounds[d.outbox[i].round] = d.rounds[d.outbox[i].round]
  <2>1. e.outbox[i] = d.outbox[i]
    BY <1>4, <1>6 DEF Silent
  <2>2. /\ d.outbox[i].round \in 1..Len(d.rounds)
        /\ d.rounds[d.outbox[i].round].outcome = "spoken"
    BY <1>1 DEF SpeechesStored
  <2>3. d.outbox[i].round # r
    BY <1>1, <2>2, RosterAssumption
  <2>4. QED
    BY <1>8, <2>1, <2>2, <2>3
<1>11. e.outbox[last] = ev /\ SpeechIndexes(e) = SpeechIndexes(d) \cup {last}
  BY <1>4, <1>6 DEF Silent
<1>12. \A i, j \in SpeechIndexes(e) : e.outbox[i].round = e.outbox[j].round => i = j
  BY <1>3, <1>10, <1>11 DEF SpeechesStored
<1>13. ASSUME NEW i \in SpeechIndexes(e)
       PROVE  /\ e.outbox[i].round \in DOMAIN e.rounds
              /\ e.rounds[e.outbox[i].round].outcome = "spoken"
              /\ e.rounds[e.outbox[i].round].speech = e.outbox[i].author
              /\ e.rounds[e.outbox[i].round].holder = e.outbox[i].author
  <2>1. CASE i = last
    BY <1>1, <1>3, <1>8, <1>9, <1>11, <2>1
  <2>2. CASE i \in SpeechIndexes(d)
    BY <1>8, <1>10, <2>2 DEF SpeechesStored
  <2>3. QED
    BY <1>11, <2>1, <2>2
<1>14. QED
  BY <1>12, <1>13 DEF SpeechesStored

LEMMA SayStep ==
    ASSUME IInv, NEW p \in Participants, NEW r \in 1..MaxRound,
           NEW g \in PublishedGrants(db), say(p, r, g)
    PROVE  DbInv(db') /\ Stream(db') /\ Moves(db, db')
<1>1. /\ db.status = "active" /\ DbInv(db) /\ Stream(db) /\ Published(db) /\ now \in Nat
      /\ db \in DbType /\ r \in Nat
  BY BoundsAssumption DEF say, IInv, TypeOK, DbInv, Stream
<1> DEFINE ev == ActorEvent("speech", p, r)
<1>2. PICK a \in advance_due_locked(ensure_current_round_locked(db), now) :
         /\ CurrentRound(a).phase = "granted" /\ CurrentRound(a).grant = g
         /\ CurrentRound(a).holder = p /\ r = a.current_round
         /\ db' = close_and_open(persist_meeting_event(a, ev), "spoken", p)
  BY DEF say, AdvancedAtEntry, HoldsGrant, Commit
<1>3. /\ Live(a) /\ Frozen(db, a) /\ Unmoved(db, a) /\ Published(a) /\ a \in DbType
      /\ Silent(db, a)
  BY <1>1, <1>2, GrantCommand, LiveRound
<1> DEFINE s == persist_meeting_event(a, ev)
<1>4. ev \in OutboxEvent /\ ev.kind = "speech"
  BY <1>1 DEF OutboxEvent, ActorEvent
<1> HIDE DEF ev
<1>5. /\ DbInv(s) /\ Unmoved(a, s) /\ s.status = a.status /\ s.rounds = a.rounds
      /\ s.current_round = a.current_round /\ CurrentRound(s) = CurrentRound(a)
  BY <1>3, <1>4, PersistSpeech DEF Live
<1>6. Published(s)
  <2>1. s.outbox = Append(a.outbox, ev) /\ s.floor_revision = a.floor_revision
        /\ a.floor_revision \in Nat
    BY <1>3 DEF persist_meeting_event, DbType
  <2>2. QED BY <1>3, <1>4, <1>5, <2>1, PublishedAppend DEF DbInv
<1>a. s = persist_meeting_event(a, ev) /\ ev = ActorEvent("speech", p, a.current_round)
  BY <1>2 DEF ev
<1> HIDE DEF s
<1>7. Live(s) /\ Frozen(a, s)
  BY <1>3, <1>5, LiveRound DEF Live, Frozen
<1>8. /\ Live(db') /\ Frozen(s, db')
      /\ db'.current_round = s.current_round + 1
      /\ AbstractHolder(db') = Null
      /\ AbstractTranscript(db') = AbstractTranscript(s) \cup
            {<<s.current_round, p>>}
  BY <1>2, <1>5, <1>7, CloseGrant, RosterAssumption DEF s
<1>9. Published(db') /\ LatestIsCurrent(db')
  BY <1>2, <1>6, <1>7, PublishedClose DEF s
<1>10. AbstractHolder(s) = p /\ p # Null
  BY <1>2, <1>5, <1>7, LiveRound, RosterAssumption
<1>11. Spoken(db, db')
  BY <1>3, <1>5, <1>8, <1>10 DEF Spoken, Unmoved
<1>12. Frozen(db, db')
  BY <1>1, <1>3, <1>7, <1>8, FrozenTransitive DEF Live, DbInv
<1>13. SpeechesStored(db')
  <2>1. SpeechesStored(a)
    BY <1>1, <1>3, SpeechesKept DEF Stream
  <2>2. db' = close_and_open(s, "spoken", p)
    BY <1>2 DEF s
  <2>3. QED
    BY <1>2, <1>3, <1>4, <1>7, <1>a, <2>1, <2>2, SpeechAdded
<1>14. QED
  BY <1>1, <1>8, <1>9, <1>11, <1>12, <1>13 DEF Live, Moves, Stream

LEMMA SweepStep ==
    ASSUME IInv, sweep_candidate
    PROVE  DbInv(db') /\ Stream(db') /\ Moves(db, db')
<1>1. DbInv(db) /\ Stream(db) /\ Published(db) /\ now \in Nat /\ db' \in SweptDb
  BY DEF IInv, TypeOK, sweep_candidate, Stream
<1>2. CASE db.status # "active"
  BY <1>1, <1>2 DEF SweptDb, Moves
<1>3. CASE db.status = "active" /\ revoked
  BY <1>1, <1>3, EndStep DEF SweptDb
<1>4. CASE db.status = "active" /\ ~revoked
  <2>1. db' \in advance_due_locked(ensure_current_round_locked(db), now)
    BY <1>1, <1>4 DEF SweptDb, AdvancedAtEntry
  <2> DEFINE b == ensure_current_round_locked(db)
  <2>2. /\ Live(b) /\ Frozen(db, b) /\ Unmoved(db, b)
        /\ Published(b) /\ Silent(db, b) /\ LatestIsCurrent(b)
    BY <1>1, <1>4, EnsureRound, PublishedEnsure DEF Stream
  <2> HIDE DEF b
  <2>3. /\ Live(db') /\ Frozen(b, db')
        /\ Published(db') /\ Silent(b, db') /\ LatestIsCurrent(db')
        /\ db' = b \/ Granted(b, db') \/ Lapsed(b, db')
    BY <1>1, <2>1, <2>2, AdvanceDue, PublishedAdvance DEF b
  <2>4. Frozen(db, db')
    BY <1>1, <2>2, <2>3, FrozenTransitive DEF Live, DbInv
  <2>5. Unmoved(db, db') \/ Granted(db, db') \/ Lapsed(db, db')
    BY <2>2, <2>3 DEF Unmoved, Granted, Lapsed
  <2>6. SpeechesStored(db')
    <3>1. Silent(db, db')
      BY <2>2, <2>3, SilentTransitive
    <3>2. QED
      BY <1>1, <1>4, <2>3, <2>4, <3>1, SpeechesKept DEF Live, DbInv, Stream
  <2>7. QED
    BY <1>4, <2>3, <2>4, <2>5, <2>6 DEF Live, Moves, Stream
<1>5. QED BY <1>2, <1>3, <1>4

LEMMA NextStep ==
    ASSUME IInv, [Next]_vars
    PROVE  IInv' /\ Moves(db, db')
<1>1. DbInv(db) /\ Stream(db) /\ now \in Nat
  BY DEF IInv, TypeOK
<1>2. /\ DbInv(db') /\ Stream(db') /\ Moves(db, db')
  <2>1. CASE ParticipantCommand
    BY <2>1, ClaimStep, SignalStep, YieldStep, SayStep DEF ParticipantCommand
  <2>2. CASE end_meeting
    BY <1>1, <2>2, EndStep DEF end_meeting, Commit
  <2>3. CASE recover_revoked_roster
    BY <1>1, <2>3, EndStep DEF recover_revoked_roster, Commit
  <2>4. CASE Revoke
    BY <1>1, <2>4 DEF Revoke, Moves
  <2>5. CASE sweep_scan
    BY <1>1, <2>5 DEF sweep_scan, Moves
  <2>6. CASE sweep_candidate
    BY <2>6, SweepStep
  <2>7. CASE Tick
    BY <1>1, <2>7 DEF Tick, Moves
  <2>8. CASE UNCHANGED vars
    BY <1>1, <2>8 DEF vars, Moves
  <2>9. QED
    BY <2>1, <2>2, <2>3, <2>4, <2>5, <2>6, <2>7, <2>8 DEF Next
<1>3. \/ UNCHANGED <<now, revoked, sweep>>
      \/ UNCHANGED <<now, revoked>> /\ (sweep' = TRUE \/ sweep' = FALSE)
      \/ UNCHANGED <<now, sweep>> /\ revoked' = TRUE
      \/ UNCHANGED <<revoked, sweep>> /\ now' = now + 1
  <2>1. CASE ParticipantCommand
    <3>1. ASSUME NEW p, NEW r PROVE claim_floor(p, r) => \E d : Commit(d)
      BY Zenon DEF claim_floor
    <3>2. ASSUME NEW p, NEW r, NEW action, NEW basis
          PROVE  signal_intent(p, r, action, basis) => \E d : Commit(d)
      BY Zenon DEF signal_intent
    <3>3. ASSUME NEW p, NEW r, NEW g PROVE yield_floor(p, r, g) => \E d : Commit(d)
      BY Zenon DEF yield_floor
    <3>4. ASSUME NEW p, NEW r, NEW g PROVE say(p, r, g) => \E d : Commit(d)
      BY Zenon DEF say
    <3>5. PICK d : Commit(d)
      BY Zenon, <2>1, <3>1, <3>2, <3>3, <3>4 DEF ParticipantCommand
    <3>6. QED BY <3>5 DEF Commit
  <2>2. CASE end_meeting \/ recover_revoked_roster
    BY <2>2 DEF end_meeting, recover_revoked_roster, Commit
  <2>3. CASE Revoke
    BY <2>3 DEF Revoke
  <2>4. CASE sweep_scan
    BY <2>4 DEF sweep_scan
  <2>5. CASE sweep_candidate
    BY <2>5 DEF sweep_candidate
  <2>6. CASE Tick
    BY <2>6 DEF Tick
  <2>7. CASE UNCHANGED vars
    BY <2>7 DEF vars
  <2>8. QED
    BY <2>1, <2>2, <2>3, <2>4, <2>5, <2>6, <2>7 DEF Next
<1>4. revoked' \in BOOLEAN /\ sweep' \in BOOLEAN /\ now' \in Nat
  <2>1. revoked \in BOOLEAN /\ sweep \in BOOLEAN
    BY DEF IInv, TypeOK
  <2>2. now' \in Nat
    BY <1>1, <1>3
  <2>3. revoked' \in BOOLEAN /\ sweep' \in BOOLEAN
    BY Zenon, <1>3, <2>1
  <2>4. QED BY <2>2, <2>3
<1>5. db' \in DbType
  BY <1>2 DEF DbInv
<1>6. TypeOK'
  BY Zenon, <1>4, <1>5 DEF TypeOK
<1>7. IInv'
  BY Zenon, <1>2, <1>6 DEF IInv
<1>8. QED
  BY <1>2, <1>7
-----------------------------------------------------------------------------
(* Both forms a new Meeting may have satisfy the invariant, and look like  *)
(* the initial abstract floor.                                             *)
LEMMA EmptyDbFacts ==
    /\ DbInv(EmptyDb) /\ Stream(EmptyDb) /\ EmptyDb.status = "active"
    /\ EmptyDb.current_round = 1 /\ ~HasCurrentRound(EmptyDb)
    /\ AbstractHolder(EmptyDb) = Null /\ AbstractTranscript(EmptyDb) = {}
<1>1. /\ EmptyDb.status = "active" /\ EmptyDb.current_round = 1
      /\ EmptyDb.floor_revision = 0 /\ EmptyDb.rounds = << >>
      /\ EmptyDb.outbox = << >>
      /\ EmptyDb.claims = {} /\ EmptyDb.signals = {} /\ EmptyDb.cohort = {}
  BY DEF EmptyDb
<1>2. << >> \in Seq(Round) /\ << >> \in Seq(OutboxEvent)
  OBVIOUS
<1>3. EmptyDb \in DbType
  BY <1>2 DEF EmptyDb, DbType
<1>4. DOMAIN EmptyDb.rounds = {} /\ 1..Len(EmptyDb.rounds) = {}
  BY <1>1
<1>5. Stream(EmptyDb) /\ Mandated(EmptyDb)
  <2>1. DOMAIN EmptyDb.outbox = {} /\ 1..EmptyDb.floor_revision = {}
    BY <1>1
  <2>2. QED
    BY <1>4, <2>1 DEF Stream, Published, LatestIsCurrent, SpeechesStored, StateIndexes,
                      SpeechIndexes, Mandated
<1>6. RoundsWellFormed(EmptyDb)
  BY <1>1, <1>4 DEF RoundsWellFormed
<1>7. ~HasCurrentRound(EmptyDb)
  BY <1>4 DEF HasCurrentRound
<1>8. AbstractHolder(EmptyDb) = Null
  BY <1>7 DEF AbstractHolder
<1>9. AbstractTranscript(EmptyDb) = {}
  BY <1>4 DEF AbstractTranscript
<1>10. QED
  BY <1>1, <1>3, <1>5, <1>6, <1>7, <1>8, <1>9 DEF DbInv

LEMMA InitFacts ==
    ASSUME Init
    PROVE  /\ IInv
           /\ db.status = "active" /\ db.current_round = 1
           /\ AbstractHolder(db) = Null /\ AbstractTranscript(db) = {}
<1>1. InitializedDb = ensure_current_round_locked(EmptyDb)
  BY EmptyDbFacts DEF InitializedDb, ensure_current_round_locked
<1>2. /\ Live(InitializedDb) /\ Unmoved(EmptyDb, InitializedDb)
      /\ Stream(InitializedDb)
  <2>1. /\ Live(InitializedDb) /\ Frozen(EmptyDb, InitializedDb)
        /\ Unmoved(EmptyDb, InitializedDb)
    BY <1>1, EmptyDbFacts, EnsureRound
  <2>2. /\ Published(InitializedDb) /\ LatestIsCurrent(InitializedDb)
        /\ Silent(EmptyDb, InitializedDb)
    BY <1>1, EmptyDbFacts, PublishedEnsure DEF Stream
  <2>3. SpeechesStored(InitializedDb)
    BY <2>1, <2>2, EmptyDbFacts, SpeechesKept DEF Live, DbInv, Stream
  <2>4. QED
    BY <2>1, <2>2, <2>3 DEF Stream
<1>3. /\ DbInv(db) /\ Stream(db)
      /\ db.status = "active" /\ db.current_round = 1
      /\ AbstractHolder(db) = Null /\ AbstractTranscript(db) = {}
  BY <1>2, EmptyDbFacts DEF Init, Live, Unmoved
<1>4. now \in Nat /\ db \in DbType
  BY <1>3 DEF Init, DbInv
<1>5. revoked \in BOOLEAN /\ sweep \in BOOLEAN
  BY Zenon DEF Init
<1>6. IInv
  BY Zenon, <1>3, <1>4, <1>5 DEF IInv, TypeOK
<1>7. QED
  BY <1>3, <1>6

(* The inductive invariant.  Published is in it because a Yield stores the *)
(* Grant it cites: the published Grants must be numbers.  The mandate of a *)
(* Grant needs the shape of the rows, and the shape needs that the live    *)
(* round is the last one.                                                  *)
LEMMA Inductive == Spec => []IInv
<1>1. Init => IInv
  BY InitFacts
<1>2. IInv /\ [Next]_vars => IInv'
  BY NextStep
<1>3. QED
  BY <1>1, <1>2, PTL DEF Spec

(* Type correctness of every committed row, for every roster, timing and   *)
(* bound.                                                                  *)
THEOREM TypeCorrect == Spec => []TypeOK
<1>1. IInv => TypeOK
  BY DEF IInv
<1>2. QED
  BY <1>1, Inductive, PTL

(* No interleaving of commands, sweeps and ends leaves two live rounds, a  *)
(* live round in an ended Meeting, or a row the schema constraint refuses. *)
THEOREM OneLiveRoundHolds == Spec => []OneLiveRound
<1>1. IInv => OneLiveRound
  BY DEF IInv, DbInv, OneLiveRound
<1>2. QED
  BY <1>1, Inductive, PTL

(* Every Grant, past or live, was given to a claimant of its round, after  *)
(* the settle delay, and early only with a complete cohort.                *)
THEOREM MandateHolds == Spec => []GrantHasMandate
<1>1. IInv => GrantHasMandate
  BY DEF IInv, DbInv, Mandated, GrantHasMandate
<1>2. QED
  BY <1>1, Inductive, PTL

(* say, against every other command and the sweep: a speech event that     *)
(* fans out is the one speech of its round, by the holder of its Grant.    *)
THEOREM OneSpeechHolds == Spec => []OneSpeechPerGrant
<1>1. IInv => OneSpeechPerGrant
  BY DEF IInv, Stream, OneSpeechPerGrant
<1>2. QED
  BY <1>1, Inductive, PTL

(* persist_meeting_event in every transition: whoever replays the stream   *)
(* sees each revision once, in order, and ends with the committed rows.    *)
THEOREM ReplayHolds == Spec => []StreamReplaysState
<1>1. IInv => StreamReplaysState
  BY DEF IInv, Stream, StreamReplaysState
<1>2. QED
  BY <1>1, Inductive, PTL

(* recover_revoked_roster comes before everything else a command or a      *)
(* sweep does: after a revocation a Meeting can only end.                  *)
THEOREM RevocationOnlyEnds == Spec => OnlyEndAfterRevocation
<1> DEFINE Only == revoked /\ db' # db =>
                      /\ db.status = "active" /\ db'.status = "ended"
                      /\ db'.claims = db.claims /\ db'.signals = db.signals
                      /\ SpeechIndexes(db') = SpeechIndexes(db)
                      /\ db'.current_round = db.current_round
<1>1. IInv /\ [Next]_vars => [Only]_vars
  <2> SUFFICES ASSUME IInv, [Next]_vars, revoked, db' # db
               PROVE  db.status = "active" /\ EndsOnly(db, db')
    BY DEF EndsOnly
  <2>1. DbInv(db) /\ Stream(db)
    BY DEF IInv
  <2>2. CASE ParticipantCommand
    BY <2>2 DEF ParticipantCommand, claim_floor, signal_intent, yield_floor, say
  <2>3. CASE end_meeting
    BY <2>3 DEF end_meeting
  <2>4. CASE recover_revoked_roster
    BY <2>1, <2>4, EndStep DEF recover_revoked_roster, Commit
  <2>5. CASE sweep_candidate
    <3>1. db.status = "active" /\ db' = EndedMeeting(db)
      BY <2>5 DEF sweep_candidate, SweptDb
    <3>2. QED
      BY <2>1, <3>1, EndStep
  <2>6. CASE Revoke \/ sweep_scan \/ Tick \/ UNCHANGED vars
    BY <2>6 DEF Revoke, sweep_scan, Tick, vars
  <2>7. QED
    BY <2>2, <2>3, <2>4, <2>5, <2>6 DEF Next
<1>2. QED
  BY <1>1, Inductive, PTL DEF Spec, OnlyEndAfterRevocation

(* What a step may never do: change a closed round, or an ended Meeting.   *)
THEOREM HistoryFinal == Spec => HistoryIsFinal
<1> DEFINE Final == /\ \A r \in DOMAIN db.rounds :
                          db.rounds[r].phase = "closed" =>
                              db'.rounds[r] = db.rounds[r]
                    /\ db.status = "ended" => db' = db
<1>1. IInv /\ [Next]_vars => [Final]_vars
  <2> SUFFICES ASSUME IInv, [Next]_vars PROVE Final
    OBVIOUS
  <2>1. Moves(db, db')
    BY NextStep
  <2>2. CASE db' = db
    BY <2>2
  <2>3. CASE db.status = "active" /\ Frozen(db, db')
    <3>1. /\ db.rounds \in Seq(Round) /\ db.current_round \in Nat
          /\ RoundsWellFormed(db) /\ DOMAIN db.rounds = 1..Len(db.rounds)
      BY DEF IInv, DbInv, DbType
    <3>2. ASSUME NEW r \in DOMAIN db.rounds, db.rounds[r].phase = "closed"
          PROVE  r < db.current_round
      BY <2>3, <3>1, <3>2 DEF RoundsWellFormed, PhaseShape
    <3>3. QED
      BY <2>3, <3>1, <3>2 DEF Frozen
  <2>4. QED
    BY <2>1, <2>2, <2>3 DEF Moves
<1>2. QED
  BY <1>1, Inductive, PTL DEF Spec, HistoryIsFinal

(* Whatever the interleaving, participants see turns taken one after the   *)
(* other, each with at most one speech, by its holder.                     *)
THEOREM FloorRefinement == Spec => ImplementsSpeechFloor
<1>1. Init => Floor!Init
  BY InitFacts DEF Floor!Init
<1>2. IInv /\ [Next]_vars => [Floor!Next]_Floor!vars
  <2> SUFFICES ASSUME IInv, [Next]_vars PROVE [Floor!Next]_Floor!vars
    OBVIOUS
  <2>1. Moves(db, db') /\ DbInv(db)
    BY NextStep DEF IInv
  <2>2. CASE db' = db
    BY <2>2 DEF Floor!vars
  <2>3. CASE /\ db.status = "active" /\ db'.status = "active"
             /\ Unmoved(db, db')
    BY <2>3 DEF Unmoved, Floor!vars
  <2>4. CASE /\ db.status = "active" /\ db'.status = "active"
             /\ Granted(db, db')
    BY <2>4 DEF Granted, Floor!Next, Floor!Grant
  <2>5. CASE /\ db.status = "active" /\ db'.status = "active"
             /\ Lapsed(db, db')
    BY <2>5 DEF Lapsed, Floor!Next, Floor!Lapse
  <2>6. CASE /\ db.status = "active" /\ db'.status = "active"
             /\ Spoken(db, db')
    BY <2>6 DEF Spoken, Floor!Next, Floor!Speak
  <2>7. CASE db.status = "active" /\ Ended(db, db')
    BY <2>7 DEF Ended, Floor!Next, Floor!End
  <2>8. QED
    BY <2>1, <2>2, <2>3, <2>4, <2>5, <2>6, <2>7 DEF Moves
<1>3. QED
  BY <1>1, <1>2, Inductive, PTL DEF Spec, ImplementsSpeechFloor, Floor!Spec
=============================================================================
