---------------------------- MODULE MeetingFloor ----------------------------
(***************************************************************************)
(* The uniform-v0 speech floor of one Meeting:                             *)
(* crates/buzz-db/src/meeting_floor.rs, with the two ways a Meeting ends   *)
(* (crates/buzz-db/src/meeting.rs, meeting_revocation.rs).                 *)
(*                                                                         *)
(* Every command opens one transaction and begins by locking the           *)
(* meeting_sessions row, so a command is one atomic step.  A command that  *)
(* returns an error, or finds itself a duplicate, drops its transaction:   *)
(* what it advanced on the way is rolled back and the step is a stutter,   *)
(* so only accepted commands appear below, their early returns as guards.  *)
(* The database state of the Meeting is the record db; the *_locked        *)
(* helpers of the code are functions from one database state to the next,  *)
(* and a command composes them.                                            *)
(*                                                                         *)
(* Abstractions.  A participant's command is identified by its author, the *)
(* round and the grant it cites.  A relay-signed state event is identified *)
(* by its floor revision, so a Grant's id is the revision that granted it. *)
(* Times are natural numbers read from the database clock.                 *)
(***************************************************************************)
EXTENDS Integers, Sequences

CONSTANTS
    Participants,   \* the frozen roster
    Agents,         \* participants with role 'bot': only they signal intent
    Bases,          \* intent bases of Ready and Pass
    SettleDelay,    \* FloorConfig.claim_settle_delay
    ClaimWindow,    \* FloorConfig.claim_window
    GrantLease,     \* FloorConfig.grant_lease
    Null,           \* SQL NULL
    MaxRound,       \* bound on the rounds of a behaviour
    MaxTime         \* bound on the clock

(* validate_floor_config refuses any other configuration.                  *)
ASSUME FloorConfigAssumption ==
    /\ SettleDelay \in Nat \ {0}
    /\ ClaimWindow \in Nat \ {0}
    /\ GrantLease \in Nat \ {0}
    /\ SettleDelay <= ClaimWindow

ASSUME RosterAssumption ==
    /\ Agents \subseteq Participants
    /\ Null \notin Participants
    /\ Null \notin Nat
    /\ Null \notin Bases
    /\ Null \notin {"spoken", "yielded", "expired", "ended"}

ASSUME BoundsAssumption == MaxRound \in Nat \ {0} /\ MaxTime \in Nat

VARIABLES
    db,        \* the Meeting's committed rows
    now,       \* the database clock
    revoked,   \* some member of the frozen roster lost its authorization
    sweep      \* the sweeper holds this session as a candidate

vars == <<db, now, revoked, sweep>>
-----------------------------------------------------------------------------
(* One row of meeting_rounds.                                              *)
Round == [phase : {"open", "claiming", "granted", "closed"},
          floor_revision : Nat,
          settle_not_before : Nat \cup {Null},
          claim_deadline : Nat \cup {Null},
          holder : Participants \cup {Null},
          grant : Nat \cup {Null},
          lease_expires_at : Nat \cup {Null},
          outcome : {"spoken", "yielded", "expired", "ended", Null},
          speech : Participants \cup {Null}]     \* author of the speech event

Claim == [round : Nat, claimant : Participants]

(* ref is the intent basis of a Ready or Pass, the Grant of a Yield.       *)
Signal == [round : Nat, participant : Participants,
           action : {"ready", "pass", "yield"}, ref : Bases \cup Nat]

(* One row of meeting_event_outbox with the event it points to.  Claim and *)
(* signal events travel in it too; their rows are in claims and signals,   *)
(* and the outbox below leaves them out.                                   *)
OutboxEvent == [kind : {"state", "speech", "end"},
                author : Participants \cup {Null},
                round : Nat,
                floor_revision : Nat \cup {Null},
                phase : {"open", "claiming", "granted", "closed", Null},
                holder : Participants \cup {Null}]

StateEvent(r, rev, phase, holder) ==
    [kind |-> "state", author |-> Null, round |-> r, floor_revision |-> rev,
     phase |-> phase, holder |-> holder]

ActorEvent(kind, p, r) ==
    [kind |-> kind, author |-> p, round |-> r, floor_revision |-> Null,
     phase |-> Null, holder |-> Null]

(* persist_meeting_event_tx: the event row and its outbox row, in the      *)
(* transaction of the command; the identity column orders them.            *)
persist_meeting_event(d, e) == [d EXCEPT !.outbox = Append(@, e)]

CurrentRound(d) == d.rounds[d.current_round]
HasCurrentRound(d) == d.current_round \in DOMAIN d.rounds

Claimants(d, r) == {c.claimant : c \in {c \in d.claims : c.round = r}}
Signallers(d, r, action) ==
    {s.participant : s \in {s \in d.signals : s.round = r /\ s.action = action}}
Cohort(d, r) == {p \in Participants : <<r, p>> \in d.cohort}
-----------------------------------------------------------------------------
(* The new row of the current round, and the session row and the state     *)
(* event that go with it: every transition of a round bumps the revision   *)
(* once and publishes one event.                                           *)
set_round(d, row) ==
    LET rev == d.floor_revision + 1
        r   == d.current_round
        new == [row EXCEPT !.floor_revision = rev]
        e   == StateEvent(r, rev, row.phase,
                          IF row.phase = "granted" THEN row.holder ELSE Null)
    IN  [persist_meeting_event(d, e) EXCEPT
           !.floor_revision = rev,
           !.rounds = IF HasCurrentRound(d) THEN [@ EXCEPT ![r] = new]
                                            ELSE Append(@, new)]

OpenRow == [phase |-> "open", floor_revision |-> 0, settle_not_before |-> Null,
            claim_deadline |-> Null, holder |-> Null, grant |-> Null,
            lease_expires_at |-> Null, outcome |-> Null, speech |-> Null]

(* Mutant: the opened round is not published.                              *)
OpenUnpublished(d) == [set_round(d, OpenRow) EXCEPT !.outbox = d.outbox]

create_open_round_locked(d) == set_round(d, OpenRow)

(* Close the current round and open the next one in the same transaction.  *)
close_and_open(d, outcome, speaker) ==
    create_open_round_locked(
        [set_round(d, [CurrentRound(d) EXCEPT !.phase = "closed",
                                              !.outcome = outcome,
                                              !.speech = speaker])
         EXCEPT !.current_round = @ + 1])

ensure_current_round_locked(d) ==
    IF HasCurrentRound(d) THEN d ELSE create_open_round_locked(d)

decision_cohort_complete(d, r) ==
    Cohort(d, r) \subseteq Claimants(d, r) \cup Signallers(d, r, "pass")

(* The winner is drawn from the canonical claims of the round.             *)
grant_round_locked(d, t, winner) ==
    set_round(d, [CurrentRound(d) EXCEPT !.phase = "granted",
                                         !.holder = winner,
                                         !.grant = d.floor_revision + 1,
                                         !.lease_expires_at = t + GrantLease])

(* Mutant: an expired Grant opens no next round.                           *)
ExpireOnly(d) == set_round(d, [CurrentRound(d) EXCEPT !.phase = "closed",
                                                      !.outcome = "expired"])

expire_round_locked(d) == close_and_open(d, "expired", Null)

(* Mutant: settlement does not wait for the frozen cohort.                 *)
SettleIgnoresCohort(d, t) ==
    /\ CurrentRound(d).phase = "claiming"
    /\ t >= CurrentRound(d).settle_not_before

claim_due(d, t) ==
    /\ CurrentRound(d).phase = "claiming"
    /\ \/ t >= CurrentRound(d).claim_deadline
       \/ /\ t >= CurrentRound(d).settle_not_before
          /\ decision_cohort_complete(d, d.current_round)

lease_due(d, t) ==
    /\ CurrentRound(d).phase = "granted"
    /\ t >= CurrentRound(d).lease_expires_at

(* Mutant: a floor whose lease ran out goes to a claimant of the same      *)
(* round.                                                                  *)
RegrantAtExpiry(d, t) ==
    IF claim_due(d, t) \/ lease_due(d, t)
    THEN {grant_round_locked(d, t, w) : w \in Claimants(d, d.current_round)}
    ELSE {d}

(* The states advance_due_locked may leave: the random winner is the only  *)
(* choice.  With no canonical claim it fails, and leaves none.             *)
advance_due_locked(d, t) ==
    IF claim_due(d, t)
    THEN {grant_round_locked(d, t, w) : w \in Claimants(d, d.current_round)}
    ELSE IF lease_due(d, t) THEN {expire_round_locked(d)} ELSE {d}

(* What a command sees once it holds the session lock.                     *)
AdvancedAtEntry == advance_due_locked(ensure_current_round_locked(db), now)

(* Bound: no command may open a round past MaxRound.                       *)
Commit(d) == /\ d.current_round <= MaxRound
             /\ db' = d
             /\ UNCHANGED <<now, revoked, sweep>>

-----------------------------------------------------------------------------
(* Mutant: the settle boundary is laid before the claim.                   *)
SettleBackwards(d, t) ==
    [CurrentRound(d) EXCEPT !.phase = "claiming",
                            !.settle_not_before = t - SettleDelay,
                            !.claim_deadline = t + ClaimWindow]

(* A claim opens the competition of an open round, and freezes the agents  *)
(* that were Ready as the cohort the settlement waits for.                 *)
OpenCompetition(d, t) ==
    [CurrentRound(d) EXCEPT !.phase = "claiming",
                            !.settle_not_before = t + SettleDelay,
                            !.claim_deadline = t + ClaimWindow]

add_claim(d, p, t) ==
    LET r     == d.current_round
        first == CurrentRound(d).phase = "open"
        ready == {<<r, a>> : a \in Signallers(d, r, "ready")}
        row   == [round |-> r, claimant |-> p]
    IN  set_round([d EXCEPT
                     !.claims = @ \cup {row},
                     !.cohort = IF first THEN @ \cup ready ELSE @],
                  IF first THEN OpenCompetition(d, t) ELSE CurrentRound(d))

(* The round a claim or a signal may still enter.                          *)
Competing(d, r, t) ==
    /\ r = d.current_round
    /\ CurrentRound(d).phase \in {"open", "claiming"}
    /\ CurrentRound(d).claim_deadline # Null =>
           t < CurrentRound(d).claim_deadline

claim_floor(p, r) ==
    /\ ~revoked
    /\ db.status = "active"
    /\ p \notin Claimants(db, r)
    /\ \E d \in AdvancedAtEntry :
         /\ Competing(d, r, now)
         /\ \E e \in advance_due_locked(add_claim(d, p, now), now) : Commit(e)

add_signal(d, p, action, ref) ==
    [d EXCEPT !.signals = @ \cup {[round |-> d.current_round, participant |-> p,
                                   action |-> action, ref |-> ref]}]

(* Pass answers a Ready of the same basis and never withdraws a claim.     *)
PassAllowed(d, p, basis) ==
    /\ [round |-> d.current_round, participant |-> p, action |-> "ready",
        ref |-> basis] \in d.signals
    /\ p \notin Claimants(d, d.current_round)

signal_intent(p, r, action, basis) ==
    /\ ~revoked
    /\ [round |-> r, participant |-> p, action |-> action, ref |-> basis]
           \notin db.signals
    /\ db.status = "active"
    /\ p \in Agents
    /\ \E d \in AdvancedAtEntry :
         /\ Competing(d, r, now)
         /\ action = "pass" => PassAllowed(d, p, basis)
         /\ LET e == add_signal(d, p, action, basis)
            IN  \E f \in advance_due_locked(set_round(e, CurrentRound(e)), now) :
                  Commit(f)

(* The Grant g is live and p may use it.                                   *)
HoldsGrant(d, p, r, g, t) ==
    /\ r = d.current_round
    /\ CurrentRound(d).phase = "granted"
    /\ CurrentRound(d).grant = g
    /\ CurrentRound(d).holder = p
    /\ t < CurrentRound(d).lease_expires_at

(* A command can only cite a Grant that was committed before it was sent.  *)
PublishedGrants(d) ==
    {d.outbox[i].floor_revision : i \in {i \in DOMAIN d.outbox :
        d.outbox[i].kind = "state" /\ d.outbox[i].phase = "granted"}}

yield_floor(p, r, g) ==
    /\ ~revoked
    /\ ~\E s \in db.signals : s.action = "yield" /\ s.ref = g
    /\ db.status = "active"
    /\ \E d \in AdvancedAtEntry :
         /\ HoldsGrant(d, p, r, g, now)
         /\ Commit(close_and_open(add_signal(d, p, "yield", g), "yielded", Null))

(* Mutant: the speech is stored and the round stays granted.               *)
SayAndKeepFloor(p, r, g) ==
    /\ ~revoked
    /\ db.status = "active"
    /\ \E d \in AdvancedAtEntry :
         /\ HoldsGrant(d, p, r, g, now)
         /\ Commit(persist_meeting_event(d, ActorEvent("speech", p, r)))

say(p, r, g) ==
    /\ ~revoked
    /\ ~\E n \in DOMAIN db.rounds :
          db.rounds[n].grant = g /\ db.rounds[n].speech # Null
    /\ db.status = "active"
    /\ \E d \in AdvancedAtEntry :
         /\ HoldsGrant(d, p, r, g, now)
         /\ Commit(close_and_open(
                persist_meeting_event(d, ActorEvent("speech", p, r)),
                "spoken", p))
-----------------------------------------------------------------------------
(* The End transaction: status, End event, terminal round; no next round.  *)
(* The row is updated in place: a live grant keeps its holder and lease.   *)
TerminalRow(d) == [IF HasCurrentRound(d) THEN CurrentRound(d) ELSE OpenRow
                   EXCEPT !.phase = "closed", !.outcome = "ended", !.speech = Null]

close_floor_for_end(d) == set_round(d, TerminalRow(d))

EndedMeeting(d) ==
    close_floor_for_end(
        [persist_meeting_event(d, ActorEvent("end", Null, d.current_round))
         EXCEPT !.status = "ended"])

(* End by the host or by a community owner or admin.                       *)
end_meeting ==
    /\ ~revoked
    /\ db.status = "active"
    /\ Commit(EndedMeeting(db))

(* With a revoked roster member every command, and the revocation job of   *)
(* that member, ends the Meeting instead and commits the end.              *)
recover_revoked_roster ==
    /\ revoked
    /\ db.status = "active"
    /\ Commit(EndedMeeting(db))

(* A roster member is removed, banned or deactivated, for good: the        *)
(* revocation job of the change keeps it.                                  *)
Revoke ==
    /\ ~revoked
    /\ revoked' = TRUE
    /\ UNCHANGED <<db, now, sweep>>
-----------------------------------------------------------------------------
(* Mutant: the scan looks for due competitions only.                       *)
ScanForgetsLeases(d, t) ==
    HasCurrentRound(d) =>
      /\ CurrentRound(d).phase = "claiming"
      /\ CurrentRound(d).settle_not_before <= t

(* recover_due_floors: an unlocked scan selects the session, and the       *)
(* transaction that follows looks at it again under the lock.              *)
ScanSelects(d, t) ==
    HasCurrentRound(d) =>
      \/ /\ CurrentRound(d).phase = "claiming"
         /\ \/ CurrentRound(d).claim_deadline <= t
            \/ CurrentRound(d).settle_not_before <= t
      \/ /\ CurrentRound(d).phase = "granted"
         /\ CurrentRound(d).lease_expires_at <= t

sweep_scan ==
    /\ ~sweep
    /\ db.status = "active"
    /\ ScanSelects(db, now)
    /\ sweep' = TRUE
    /\ UNCHANGED <<db, now, revoked>>

(* Mutants: the status, or the revocation, is not read again under the     *)
(* lock.                                                                   *)
SweepTrustsScan == IF revoked THEN {EndedMeeting(db)} ELSE AdvancedAtEntry

SweepForgetsRevocation == IF db.status # "active" THEN {db} ELSE AdvancedAtEntry

SweptDb ==
    IF db.status # "active" THEN {db}
    ELSE IF revoked THEN {EndedMeeting(db)}
    ELSE AdvancedAtEntry

sweep_candidate ==
    /\ sweep
    /\ sweep' = FALSE
    /\ \E d \in SweptDb : d.current_round <= MaxRound /\ db' = d
    /\ UNCHANGED <<now, revoked>>

Tick ==
    /\ now < MaxTime
    /\ now' = now + 1
    /\ UNCHANGED <<db, revoked, sweep>>
-----------------------------------------------------------------------------
(* A Meeting created before the floor existed has no round row.            *)
EmptyDb == [status |-> "active", current_round |-> 1, floor_revision |-> 0,
            rounds |-> << >>, claims |-> {}, signals |-> {}, cohort |-> {},
            outbox |-> << >>]

(* initialize_floor_tx, in the Create transaction of every other Meeting.  *)
InitializedDb == create_open_round_locked(EmptyDb)

Init ==
    /\ db \in {EmptyDb, InitializedDb}
    /\ now = 0
    /\ revoked = FALSE
    /\ sweep = FALSE

ParticipantCommand ==
    \E p \in Participants, r \in 1..MaxRound :
        \/ claim_floor(p, r)
        \/ \E action \in {"ready", "pass"}, basis \in Bases :
              signal_intent(p, r, action, basis)
        \/ \E g \in PublishedGrants(db) : yield_floor(p, r, g) \/ say(p, r, g)

Next ==
    \/ ParticipantCommand
    \/ end_meeting
    \/ recover_revoked_roster
    \/ Revoke
    \/ sweep_scan
    \/ sweep_candidate
    \/ Tick

Spec == Init /\ [][Next]_vars

(* The relay runs the sweeper in a loop that survives its errors.          *)
FairSpec == Spec /\ WF_vars(sweep_scan) /\ WF_vars(sweep_candidate)
-----------------------------------------------------------------------------
(* Type invariant.                                                         *)
DbType ==
    [status : {"active", "ended"}, current_round : Nat, floor_revision : Nat,
     rounds : Seq(Round),
     claims : SUBSET Claim, signals : SUBSET Signal,
     cohort : SUBSET (Nat \X Participants), outbox : Seq(OutboxEvent)]

TypeOK ==
    /\ db \in DbType
    /\ now \in Nat
    /\ revoked \in BOOLEAN
    /\ sweep \in BOOLEAN

(* The check constraint of meeting_rounds (migrations/0039): which    *)
(* columns a row may carry in which phase.  A row outside it would make a  *)
(* command, or every sweep of the session, fail.                           *)
PhaseShape(row) ==
    /\ row.phase = "open" => row.settle_not_before = Null /\ row.claim_deadline = Null
    /\ row.phase \in {"claiming", "granted"} =>
           /\ row.settle_not_before # Null /\ row.claim_deadline # Null
           /\ row.settle_not_before <= row.claim_deadline
    /\ row.phase \in {"open", "claiming"} =>
           row.holder = Null /\ row.grant = Null /\ row.lease_expires_at = Null
    /\ row.phase = "granted" =>
           row.holder # Null /\ row.grant # Null /\ row.lease_expires_at # Null
    /\ (row.phase = "closed") <=> (row.outcome # Null)
    /\ (row.outcome = "spoken") <=> (row.speech # Null)

(* At most one round of a Meeting is live: every round before the current  *)
(* one is closed and not as 'ended', the current one is closed exactly     *)
(* when the Meeting has ended, and no row violates the schema constraint.  *)
RoundsWellFormed(d) ==
    /\ \/ d.current_round # 0 /\ Len(d.rounds) = d.current_round
       \/ d.current_round = 1 /\ Len(d.rounds) = 0 /\ d.status = "active"
    /\ \A r \in 1..Len(d.rounds) :
         /\ PhaseShape(d.rounds[r])
         /\ r < d.current_round =>
              d.rounds[r].outcome \in {"spoken", "yielded", "expired"}
         /\ r = d.current_round =>
              d.rounds[r].outcome = (IF d.status = "ended" THEN "ended" ELSE Null)

OneLiveRound == RoundsWellFormed(db)

(* A Grant has a mandate: its holder claimed the floor in that round, it   *)
(* was not given before the settle boundary, and before the claim deadline *)
(* only once every agent of the frozen cohort had claimed or passed.       *)
HasMandate(d, r) ==
    LET granted_at == d.rounds[r].lease_expires_at - GrantLease IN
    d.rounds[r].holder # Null =>
        /\ d.rounds[r].holder \in Claimants(d, r)
        /\ d.rounds[r].settle_not_before <= granted_at
        /\ \/ d.rounds[r].claim_deadline <= granted_at
           \/ decision_cohort_complete(d, r)

GrantHasMandate == \A r \in 1..Len(db.rounds) : HasMandate(db, r)

SpeechIndexes(d) == {i \in DOMAIN d.outbox : d.outbox[i].kind = "speech"}
StateIndexes(d) == {i \in DOMAIN d.outbox : d.outbox[i].kind = "state"}

SpeechesStored(d) ==
    /\ \A i, j \in SpeechIndexes(d) :
          d.outbox[i].round = d.outbox[j].round => i = j
    /\ \A i \in SpeechIndexes(d) :
          /\ d.outbox[i].round \in DOMAIN d.rounds
          /\ LET row == d.rounds[d.outbox[i].round]
             IN  row.outcome = "spoken"
                 /\ row.speech = d.outbox[i].author
                 /\ row.holder = d.outbox[i].author

(* Every speech event that fans out is the one speech of its round, by the *)
(* participant that held the Grant of that round.                          *)
OneSpeechPerGrant == SpeechesStored(db)

(* The state events carry the revisions 1, 2, ... in the order of the      *)
(* stream, without gap or repeat.                                          *)
Published(d) ==
    /\ \A n \in 1..d.floor_revision :
          \E i \in StateIndexes(d) : d.outbox[i].floor_revision = n
    /\ \A i \in StateIndexes(d) : d.outbox[i].floor_revision \in 1..d.floor_revision
    /\ \A i, j \in StateIndexes(d) :
          i < j => d.outbox[i].floor_revision < d.outbox[j].floor_revision

(* The latest of them shows the current round, its phase and its holder.   *)
LatestIsCurrent(d) ==
    \A i \in StateIndexes(d) : d.outbox[i].floor_revision = d.floor_revision =>
        /\ d.outbox[i].round = d.current_round
        /\ d.outbox[i].phase = CurrentRound(d).phase
        /\ d.outbox[i].holder =
              IF CurrentRound(d).phase = "granted" THEN CurrentRound(d).holder ELSE Null

(* A client that replays the fan-out stream reaches the database state:    *)
(* it sees every revision once, in order, and the latest is what the       *)
(* committed rows say.                                                     *)
StreamReplaysState == Published(db) /\ LatestIsCurrent(db)

(* A closed round is never touched again, by any command or sweep, and an  *)
(* ended Meeting keeps its rows and publishes nothing more.                *)
HistoryIsFinal ==
    [][ /\ \A r \in DOMAIN db.rounds :
              db.rounds[r].phase = "closed" => db'.rounds[r] = db.rounds[r]
        /\ db.status = "ended" => db' = db ]_vars

(* Once a roster member is revoked nothing is said, claimed or granted: the *)
(* only change the Meeting still makes is to end.                           *)
OnlyEndAfterRevocation ==
    [][ revoked /\ db' # db =>
          /\ db.status = "active" /\ db'.status = "ended"
          /\ db'.claims = db.claims /\ db'.signals = db.signals
          /\ SpeechIndexes(db') = SpeechIndexes(db)
          /\ db'.current_round = db.current_round ]_vars

(* What is due happens without any further command: the sweeper settles a  *)
(* competition past its deadline, and closes a Grant past its lease.       *)
Overdue(r) ==
    /\ db.status = "active"
    /\ db.current_round = r
    /\ HasCurrentRound(db)
    /\ \/ /\ CurrentRound(db).phase = "claiming"
          /\ CurrentRound(db).claim_deadline <= now
       \/ lease_due(db, now)

OverdueIsRecovered == \A r \in 1..(MaxRound - 1) : Overdue(r) ~> ~Overdue(r)

(* The abstract floor this module implements.                              *)
AbstractHolder(d) ==
    IF HasCurrentRound(d) /\ CurrentRound(d).phase = "granted"
    THEN CurrentRound(d).holder ELSE Null

AbstractTranscript(d) ==
    {<<r, d.rounds[r].speech>> :
        r \in {r \in DOMAIN d.rounds : d.rounds[r].speech # Null}}

Floor == INSTANCE SpeechFloor WITH
            Nobody <- Null,
            status <- db.status,
            turn <- db.current_round,
            holder <- AbstractHolder(db),
            transcript <- AbstractTranscript(db)

(* Every committed command and every sweep is one step of the abstract     *)
(* floor, or none.                                                         *)
ImplementsSpeechFloor == Floor!Spec
=============================================================================
