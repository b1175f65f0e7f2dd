---------------------------- MODULE MeetingBaton ----------------------------
(***************************************************************************)
(* Meeting V1, the moderated baton (buzz-db, meeting_baton/commands.rs).   *)
(* One Meeting has one frozen moderator.  The floor is with the moderator  *)
(* (idle or control), offered to one participant, or granted to one; the   *)
(* Relay moves it on signed commands, each a transaction under the Session *)
(* lock, and on deadlines.                                                 *)
(*                                                                         *)
(* The model keeps the rows that are live and drops the terminal ones: the *)
(* pending Intents in order of creation, the queued and offered Human      *)
(* Requests in queue order, the open Handoffs, the pending Offers, the     *)
(* active Grants, and of the moderator's decision attempts the latest one  *)
(* (epochs only grow, so an older attempt can match nothing any more).     *)
(*                                                                         *)
(* A transaction is a function from the tables to the tables.  Commit      *)
(* installs the result unless a constraint of the schema refuses it, in    *)
(* which case the whole transaction is rolled back and nothing happens.    *)
(***************************************************************************)
EXTENDS Integers, Sequences, FiniteSets, SequencesExt

CONSTANTS
  Moderator,          \* the frozen moderator
  AgentModerator,     \* TRUE if it is an Agent, which acts through attempts
  Agents,             \* the other Agent participants
  Humans,             \* the other Human participants
  MaxHandoffDepth,    \* config.max_handoff_depth
  MaxOpenHandoffs,    \* config.max_open_handoffs
  MaxRejudgments,     \* config.moderator_max_rejudgments
  SoftLease,          \* config.grant_soft_lease_ms, in ticks
  HardDeadline,       \* config.grant_hard_deadline_ms, in ticks
  MaxCommands,        \* bound: Intent versions, Requests and Selects
  MaxSpeeches         \* bound: speeches

ASSUME ModeratorAssumption == AgentModerator \in BOOLEAN
ASSUME RosterAssumption ==
  /\ Moderator \notin Agents \cup Humans
  /\ Agents \cap Humans = {}
ASSUME ConfigAssumption ==
  /\ {MaxHandoffDepth, MaxOpenHandoffs, MaxRejudgments, MaxCommands,
      MaxSpeeches} \subseteq Nat
  /\ {SoftLease, HardDeadline} \subseteq Nat \ {0}

Participants == {Moderator} \cup Agents \cup Humans

VARIABLES
  state,      \* the meeting_baton_state row
  intents,    \* pending Intents, in order of creation
  requests,   \* queued and offered Human Requests, in queue order
  handoffs,   \* open Directed Handoffs
  offers,     \* pending Offers
  grants,     \* active Grants
  attempt,    \* the latest moderator decision attempt
  fallbacks,  \* Intent versions already offered by fallback at this speech revision
  late,       \* the deadline the Session waits for has passed
  commands    \* commands used up to MaxCommands

vars == <<state, intents, requests, handoffs, offers, grants, attempt,
          fallbacks, late, commands>>

Moderating == {"moderator_idle", "moderator_control"}
Phases == Moderating \cup {"offered", "granted", "ended"}

\* A source of an Offer: an Intent version, a Human Request or a Handoff attempt.
Source == ({"intent"} \X Participants \X Nat) \cup ({"request"} \X Humans \X {0})
          \cup ({"handoff"} \X Nat \X Nat)

NoAttempt == [state |-> "none", control_epoch |-> 0, decision_epoch |-> 0,
              number |-> 0, speech |-> 0, snapshot |-> {}, late |-> FALSE,
              tickets |-> {}]

Tables == [state |-> state, intents |-> intents, requests |-> requests,
           handoffs |-> handoffs, offers |-> offers, grants |-> grants,
           attempt |-> attempt, fallbacks |-> fallbacks]

\* The unique partial indexes on pending Offers and active Grants, and the
\* CHECK that ties the phase to the columns of the state row.
ConstraintsHold(d) ==
  LET s == d.state IN
  /\ Cardinality(d.offers) <= 1
  /\ Cardinality(d.grants) <= 1
  /\ \/ /\ s.phase = "moderator_idle"
        /\ s.active_offer = 0 /\ s.active_grant = 0
        /\ s.active_attempt => s.deadline # "none"
     \/ /\ s.phase = "moderator_control"
        /\ s.active_offer = 0 /\ s.active_grant = 0
        /\ s.deadline # "none"
     \/ /\ s.phase = "offered"
        /\ s.active_offer # 0 /\ s.active_grant = 0 /\ s.deadline = "none"
     \/ /\ s.phase = "granted"
        /\ s.active_offer = 0 /\ s.active_grant # 0 /\ s.deadline = "none"
     \/ /\ s.phase = "ended"
        /\ s.active_offer = 0 /\ s.active_grant = 0
        /\ ~s.active_attempt /\ s.deadline = "none"

\* A window that inherits the deadline of an attempt may be due at once.
Commit(d) ==
  /\ ConstraintsHold(d)
  /\ state' = d.state /\ intents' = d.intents /\ requests' = d.requests
  /\ handoffs' = d.handoffs /\ offers' = d.offers /\ grants' = d.grants
  /\ attempt' = d.attempt /\ fallbacks' = d.fallbacks
  /\ late' = (d.state.deadline = "attempt" /\ d.attempt.late)

-----------------------------------------------------------------------------
(* Queries.                                                                *)

ActiveOffer(d) == CHOOSE o \in d.offers : o.id = d.state.active_offer
ActiveGrant(d) == CHOOSE g \in d.grants : g.offer = d.state.active_grant
ByModerator(row) == row.source[1] = "intent" /\ row.source[2] = Moderator


\* The rows left when the row at one of these positions, if there is any, has
\* become terminal: an author has one pending Intent, a Human one live Request.
Without(rows, at) == IF at = {} THEN rows ELSE RemoveAt(rows, CHOOSE i \in at : TRUE)

IntentsBy(d, a) == {i \in DOMAIN d.intents : d.intents[i].author = a}
HasIntent(d, a) == IntentsBy(d, a) # {}
IntentOf(d, a) == d.intents[CHOOSE i \in IntentsBy(d, a) : TRUE]
RequestsBy(d, h) == {i \in DOMAIN d.requests : d.requests[i].who = h}

Queued(d) == {i \in DOMAIN d.requests : d.requests[i].state = "queued"}

\* Intents a cohort frozen at this epoch contains.
CohortIntents(d, epoch) ==
  {i \in DOMAIN d.intents :
      d.intents[i].deferred_by = 0 /\ d.intents[i].eligible <= epoch}

CohortHandoffs(d, epoch) ==
  {h \in d.handoffs :
      h.blocked_by = "none" /\ ~h.suppressed /\ h.eligible <= epoch}

CohortHasCandidates(d, epoch) ==
  CohortIntents(d, epoch) # {} \/ CohortHandoffs(d, epoch) # {}

CandidateSnapshot(d, epoch) ==
  {<<"intent", d.intents[i].author, d.intents[i].version>> :
      i \in CohortIntents(d, epoch)}
  \cup {<<"handoff", h.id, h.attempts>> : h \in CohortHandoffs(d, epoch)}

\* The Intents fallback may offer.  A moderator that has just spoken waits
\* while somebody else has an Intent in the cohort.
FallbackCandidates(d, epoch) ==
  LET cohort == CohortIntents(d, epoch)
      other == \E i \in cohort : d.intents[i].author # Moderator
  IN {i \in cohort :
        /\ <<d.intents[i].author, d.intents[i].version>> \notin d.fallbacks
        /\ \/ d.intents[i].author # Moderator
           \/ d.state.consecutive = 0
           \/ ~other}

\* The moderator's own Intent first, then the oldest.
FallbackCandidate(d, epoch) ==
  LET allowed == FallbackCandidates(d, epoch)
      own == {i \in allowed : d.intents[i].author = Moderator}
  IN d.intents[Min(IF own # {} THEN own ELSE allowed)]

-----------------------------------------------------------------------------
(* Steps that the transactions are composed of.                            *)

\* A random object id: the least one that no live row mentions.
FreshId(mentioned) == Min((1..Cardinality(mentioned) + 1) \ mentioned)

FreshOfferId(d) ==
  FreshId({o.id : o \in d.offers} \cup {g.offer : g \in d.grants}
          \cup {d.intents[i].deferred_by : i \in DOMAIN d.intents}
          \cup {d.requests[i].offer : i \in DOMAIN d.requests})

\* The event id of a new Intent version of a.
FreshVersion(d, a) ==
  FreshId({d.intents[i].version : i \in {j \in DOMAIN d.intents : d.intents[j].author = a}}
          \cup {s[3] : s \in {t \in d.attempt.snapshot : t[1] = "intent" /\ t[2] = a}}
          \cup {f[2] : f \in {e \in d.fallbacks : e[1] = a}})

\* Mutant: the revision is the one read before the transaction moved it.
MakeOfferOldBasis(d, target, source, mode) ==
  LET id == FreshOfferId(d) IN
  [d EXCEPT
     !.offers = @ \cup
        {[id |-> id, target |-> target, source |-> source, depth_mode |-> mode,
          previous_depth |-> d.state.depth, basis |-> state.speech]},
     !.requests = [i \in DOMAIN @ |->
        IF source[1] = "request" /\ @[i].who = source[2]
        THEN [@[i] EXCEPT !.state = "offered", !.offer = id] ELSE @[i]],
     !.handoffs = {IF source[1] = "handoff" /\ h.id = source[2]
                   THEN [h EXCEPT !.attempts = @ + 1, !.blocked_by = "none",
                                  !.suppressed = FALSE]
                   ELSE h : h \in @},
     !.state = [@ EXCEPT !.phase = "offered", !.active_offer = id,
                         !.active_grant = 0, !.deadline = "none"]]

\* insert_offer_tx and StateTarget::offered.
MakeOffer(d, target, source, mode) ==
  LET id == FreshOfferId(d) IN
  [d EXCEPT
     !.offers = @ \cup
        {[id |-> id, target |-> target, source |-> source, depth_mode |-> mode,
          previous_depth |-> d.state.depth, basis |-> d.state.speech]},
     !.requests = [i \in DOMAIN @ |->
        IF source[1] = "request" /\ @[i].who = source[2]
        THEN [@[i] EXCEPT !.state = "offered", !.offer = id] ELSE @[i]],
     !.handoffs = {IF source[1] = "handoff" /\ h.id = source[2]
                   THEN [h EXCEPT !.attempts = @ + 1, !.blocked_by = "none",
                                  !.suppressed = FALSE]
                   ELSE h : h \in @},
     !.state = [@ EXCEPT !.phase = "offered", !.active_offer = id,
                         !.active_grant = 0, !.deadline = "none"]]

OfferHumanRequest(d) ==
  LET request == d.requests[Min(Queued(d))]
  IN MakeOffer(d, request.who, <<"request", request.who, 0>>, "preserve")

\* The Offer of a fallback and its record; without a candidate the moderator
\* idles.  Either way the active attempt is let go.
FallbackOrIdle(d, epoch) ==
  IF FallbackCandidates(d, epoch) # {}
  THEN LET i == FallbackCandidate(d, epoch)
           o == MakeOffer(d, i.author, <<"intent", i.author, i.version>>, "reset")
       IN [o EXCEPT !.fallbacks = @ \cup {<<i.author, i.version>>},
                    !.state.active_attempt = FALSE]
  ELSE [d EXCEPT !.state = [@ EXCEPT !.phase = "moderator_idle",
                                     !.deadline = "none",
                                     !.active_attempt = FALSE]]

SuppressHandoffCohort(d, epoch) ==
  [d EXCEPT !.handoffs = {IF h.blocked_by = "none" /\ h.eligible <= epoch
                          THEN [h EXCEPT !.suppressed = TRUE] ELSE h : h \in @}]

ClearSuppression(d) ==
  [d EXCEPT !.handoffs = {[h EXCEPT !.suppressed = FALSE] : h \in @}]

ReleaseHumanRequestBlocks(d) ==
  IF d.requests # << >> THEN d
  ELSE [d EXCEPT !.handoffs =
          {IF h.blocked_by = "human_request"
           THEN [h EXCEPT !.blocked_by = "none", !.suppressed = FALSE]
           ELSE h : h \in @}]

\* The state row when the floor goes back to the moderator.
ControlReturned(s, open, epoch, deadline) ==
  [s EXCEPT !.phase = IF open THEN "moderator_control" ELSE "moderator_idle",
            !.active_offer = 0, !.active_grant = 0, !.depth = 0,
            !.forced_return = FALSE, !.decision_attempt = 0,
            !.control_epoch = @ + 1, !.decision_epoch = epoch,
            !.deadline = deadline]

\* Mutant: the blocks of Human Requests are kept.
ReturnControlKeepsBlocks(d) ==
  LET r == d
      next == d.state.decision_epoch + 1
      hasIntent == FallbackCandidates(r, next) # {}
      hasHandoff == CohortHandoffs(r, next) # {}
      running == d.state.active_attempt
      deadline == IF hasIntent \/ (hasHandoff /\ running) THEN "window"
                  ELSE IF running THEN "attempt" ELSE "none"
      epoch == IF hasIntent \/ hasHandoff THEN next ELSE d.state.decision_epoch
      c == IF hasIntent THEN ClearSuppression(r) ELSE r
  IN [c EXCEPT !.state = ControlReturned(c.state, hasIntent, epoch, deadline)]

\* Mutant: the next window is looked for in the present cohort.
ReturnControlLateCohort(d) ==
  LET r == ReleaseHumanRequestBlocks(d)
      next == d.state.decision_epoch
      hasIntent == FallbackCandidates(r, next) # {}
      hasHandoff == CohortHandoffs(r, next) # {}
      running == d.state.active_attempt
      deadline == IF hasIntent \/ (hasHandoff /\ running) THEN "window"
                  ELSE IF running THEN "attempt" ELSE "none"
      epoch == IF hasIntent \/ hasHandoff THEN next ELSE d.state.decision_epoch
      c == IF hasIntent THEN ClearSuppression(r) ELSE r
  IN [c EXCEPT !.state = ControlReturned(c.state, hasIntent, epoch, deadline)]

\* Mutant: the control epoch stays.
ReturnControlSameEpoch(d) ==
  LET r == ReleaseHumanRequestBlocks(d)
      next == d.state.decision_epoch + 1
      hasIntent == FallbackCandidates(r, next) # {}
      hasHandoff == CohortHandoffs(r, next) # {}
      running == d.state.active_attempt
      deadline == IF hasIntent \/ (hasHandoff /\ running) THEN "window"
                  ELSE IF running THEN "attempt" ELSE "none"
      epoch == IF hasIntent \/ hasHandoff THEN next ELSE d.state.decision_epoch
      c == IF hasIntent THEN ClearSuppression(r) ELSE r
  IN [c EXCEPT !.state =
        [ControlReturned(c.state, hasIntent, epoch, deadline) EXCEPT !.control_epoch = @ - 1]]

\* Mutant: the running attempt is let go.
ReturnControlDropsAttempt(d) ==
  LET r == ReleaseHumanRequestBlocks(d)
      next == d.state.decision_epoch + 1
      hasIntent == FallbackCandidates(r, next) # {}
      hasHandoff == CohortHandoffs(r, next) # {}
      running == d.state.active_attempt
      deadline == IF hasIntent \/ (hasHandoff /\ running) THEN "window"
                  ELSE IF running THEN "attempt" ELSE "none"
      epoch == IF hasIntent \/ hasHandoff THEN next ELSE d.state.decision_epoch
      c == IF hasIntent THEN ClearSuppression(r) ELSE r
  IN [c EXCEPT !.state =
        [ControlReturned(c.state, hasIntent, epoch, deadline) EXCEPT !.active_attempt = FALSE]]

ReturnControl(d) ==
  LET r == ReleaseHumanRequestBlocks(d)
      next == d.state.decision_epoch + 1
      hasIntent == FallbackCandidates(r, next) # {}
      hasHandoff == CohortHandoffs(r, next) # {}
      running == d.state.active_attempt
      deadline == IF hasIntent \/ (hasHandoff /\ running) THEN "window"
                  ELSE IF running THEN "attempt" ELSE "none"
      epoch == IF hasIntent \/ hasHandoff THEN next ELSE d.state.decision_epoch
      c == IF hasIntent THEN ClearSuppression(r) ELSE r
  IN [c EXCEPT !.state = ControlReturned(c.state, hasIntent, epoch, deadline)]

\* Mutant: control returns past a queued Human.
NextFloorToModerator(d) == ReturnControl(d)

\* Where the floor goes when an Offer or a Grant is over.
NextFloor(d) == IF Queued(d) # {} THEN OfferHumanRequest(d) ELSE ReturnControl(d)

EnsureModeratorWindow(d) ==
  LET s == d.state
      epoch == IF s.phase = "moderator_idle" THEN s.decision_epoch + 1
               ELSE s.decision_epoch
      candidate == FallbackCandidates(d, epoch) # {}
  IN CASE s.phase \notin Moderating \/ s.active_attempt -> d
       [] s.phase = "moderator_idle" /\ candidate ->
            [ClearSuppression(d) EXCEPT !.state =
               [@ EXCEPT !.phase = "moderator_control", !.decision_epoch = epoch,
                         !.decision_attempt = 0, !.deadline = "window"]]
       [] s.phase = "moderator_control" /\ ~candidate ->
            [d EXCEPT !.state = [@ EXCEPT !.phase = "moderator_idle",
                                          !.deadline = "none"]]
       [] OTHER -> d

\* complete_cohort: close this cohort and, if anything waits, freeze the next.
NextCohort(d) ==
  LET next == d.state.decision_epoch + 1
      exists == CohortHasCandidates(d, next)
      open == exists /\ CohortIntents(d, next) # {}
  IN [d EXCEPT !.state =
        [d.state EXCEPT
           !.phase = IF open THEN "moderator_control" ELSE "moderator_idle",
           !.active_offer = 0, !.active_grant = 0,
           !.active_attempt = FALSE, !.decision_attempt = 0,
           !.decision_epoch = IF exists THEN next ELSE @,
           !.deadline = IF open THEN "window" ELSE "none"]]

ReleaseDeferrals(d, offer) ==
  [d EXCEPT !.intents = [i \in DOMAIN @ |->
     IF @[i].deferred_by = offer THEN [@[i] EXCEPT !.deferred_by = 0] ELSE @[i]]]

\* The Request and the Intent an Offer was made from.
Mine(d, o) == IF o.source[1] = "request" THEN RequestsBy(d, o.source[2]) ELSE {}
Answered(d, o) == IF o.source[1] = "intent" THEN IntentsBy(d, o.source[2]) ELSE {}

\* Mutant: the Offer stays pending.
FailOfferKeepsRow(d, outcome) ==
  LET o == ActiveOffer(d)
      r == ReleaseDeferrals(d, o.id)
      ends == outcome \in {"declined", "timed_out", "source_withdrawn"}
      left == IF ends THEN Without(r.requests, Mine(r, o))
              ELSE [i \in DOMAIN r.requests |->
                      IF i \in Mine(r, o)
                      THEN [r.requests[i] EXCEPT !.state = "queued", !.offer = 0]
                      ELSE r.requests[i]]
  IN NextFloor([r EXCEPT !.requests = left])

\* Mutant: a Request whose Offer timed out is queued again.
FailOfferRequeues(d, outcome) ==
  LET o == ActiveOffer(d)
      r == ReleaseDeferrals([d EXCEPT !.offers = @ \ {o}], o.id)
      ends == outcome \in {"declined", "source_withdrawn"}
      left == IF ends THEN Without(r.requests, Mine(r, o))
              ELSE [i \in DOMAIN r.requests |->
                      IF i \in Mine(r, o)
                      THEN [r.requests[i] EXCEPT !.state = "queued", !.offer = 0]
                      ELSE r.requests[i]]
  IN NextFloor([r EXCEPT !.requests = left])

\* A Human Request ends with its Offer, except on an outcome that requeues it.
FailActiveOffer(d, outcome) ==
  LET o == ActiveOffer(d)
      r == ReleaseDeferrals([d EXCEPT !.offers = @ \ {o}], o.id)
      ends == outcome \in {"declined", "timed_out", "source_withdrawn"}
      left == IF ends THEN Without(r.requests, Mine(r, o))
              ELSE [i \in DOMAIN r.requests |->
                      IF i \in Mine(r, o)
                      THEN [r.requests[i] EXCEPT !.state = "queued", !.offer = 0]
                      ELSE r.requests[i]]
  IN NextFloor([r EXCEPT !.requests = left])

\* Mutant: the deferrals of the Grant are kept.
FailGrantKeepsDeferrals(d) ==
  LET g == ActiveGrant(d)
      r == [d EXCEPT !.grants = @ \ {g}]
  IN NextFloor(IF g.depth_mode = "increment_provisional"
               THEN [r EXCEPT !.state.depth = g.previous_depth] ELSE r)

\* The selected Intent goes stale; a provisional Handoff depth is given back.
FailActiveGrant(d) ==
  LET g == ActiveGrant(d)
      r == ReleaseDeferrals([d EXCEPT !.grants = @ \ {g}], g.offer)
  IN NextFloor(IF g.depth_mode = "increment_provisional"
               THEN [r EXCEPT !.state.depth = g.previous_depth] ELSE r)

\* Of an attempt that is over only its epochs count, and if it was abandoned
\* its number and deadline.
EndAttempt(d, outcome) ==
  [d EXCEPT !.attempt =
     [d.attempt EXCEPT !.state = outcome, !.snapshot = {}, !.tickets = {}, !.speech = 0,
                       !.number = IF outcome = "abandoned" THEN @ ELSE 0]]

-----------------------------------------------------------------------------
(* Commands.  Each runs the due recovery first, so it meets no passed      *)
(* deadline; one that a check refuses changes nothing but its receipt.     *)

Init ==
  /\ state = [phase |-> "moderator_idle", active_offer |-> 0, active_grant |-> 0,
              active_attempt |-> FALSE, depth |-> 0, consecutive |-> 0,
              forced_return |-> FALSE, deadline |-> "none", control_epoch |-> 1,
              decision_epoch |-> 0, decision_attempt |-> 0, speech |-> 0]
  /\ intents = << >> /\ requests = << >> /\ handoffs = {}
  /\ offers = {} /\ grants = {} /\ attempt = NoAttempt /\ fallbacks = {}
  /\ late = FALSE /\ commands = 0

Live == state.phase # "ended" /\ ~late
Spend == commands < MaxCommands /\ commands' = commands + 1
Free == UNCHANGED commands

\* A new Intent joins the cohort only while the cohort is still open.
IntentSubmit(a) ==
  LET s == state
      open == /\ s.decision_attempt = 0
              /\ \/ s.phase = "moderator_control"
                 \/ /\ s.phase = "moderator_idle"
                    /\ CohortHasCandidates(Tables, s.decision_epoch)
      row == [author |-> a, version |-> FreshVersion(Tables, a), deferred_by |-> 0,
              eligible |-> s.decision_epoch + (IF open THEN 0 ELSE 1)]
  IN /\ Live /\ Spend
     /\ ~HasIntent(Tables, a)
     /\ Commit(EnsureModeratorWindow([Tables EXCEPT !.intents = Append(@, row)]))

\* The Intent of a, given a new version, or removed when version = 0.  An Offer
\* made from it fails first; control is then returned from the state before
\* that failure, so that the epochs move once.
ChangeIntent(a, version) ==
  LET d == Tables
      edit(t) == [t EXCEPT !.intents =
        IF version = 0 THEN Without(@, IntentsBy(t, a))
        ELSE [i \in DOMAIN @ |-> IF @[i].author = a
                                 THEN [@[i] EXCEPT !.version = version] ELSE @[i]]]
      source == /\ d.state.phase = "offered"
                /\ ActiveOffer(d).source[1] = "intent"
                /\ ActiveOffer(d).source[2] = a
      failed == FailActiveOffer(d, "source_changed")
  IN IF ~source THEN EnsureModeratorWindow(edit(d))
     ELSE IF failed.state.phase = "offered" THEN edit(failed)
     ELSE ReturnControl([edit(failed) EXCEPT !.state = d.state])

IntentRefresh(a) ==
  /\ Live /\ Spend
  /\ HasIntent(Tables, a)
  /\ Commit(ChangeIntent(a, FreshVersion(Tables, a)))

IntentWithdraw(a) ==
  /\ Live /\ Free
  /\ HasIntent(Tables, a)
  /\ a = Moderator => ~AgentModerator
  /\ Commit(ChangeIntent(a, 0))

\* Mutant: the control epoch is not compared.
AuthorizedAtAnyEpoch ==
  AgentModerator =>
    /\ attempt.state = "running" /\ state.active_attempt
    /\ attempt.decision_epoch = state.decision_epoch
    /\ attempt.speech = state.speech
    /\ ~attempt.late

\* moderator_action_authority_tx: a Human acts at will, an Agent only through
\* its running attempt, as long as what the attempt was started on stands.
Authorized ==
  AgentModerator =>
    /\ attempt.state = "running" /\ state.active_attempt
    /\ attempt.control_epoch = state.control_epoch
    /\ attempt.decision_epoch = state.decision_epoch
    /\ attempt.speech = state.speech
    /\ ~attempt.late

\* The source is still what its version says, and in the current cohort.
IntentCurrent(a, version) ==
  /\ HasIntent(Tables, a)
  /\ IntentOf(Tables, a).version = version
  /\ IntentOf(Tables, a).eligible <= state.decision_epoch

HandoffCurrent(id, attempts) ==
  \E h \in handoffs : /\ h.id = id /\ h.attempts = attempts
                      /\ h.blocked_by = "none"
                      /\ h.eligible <= state.decision_epoch

SourceCurrent(source) ==
  IF source[1] = "intent"
  THEN /\ IntentCurrent(source[2], source[3])
       /\ IntentOf(Tables, source[2]).deferred_by = 0
  ELSE HandoffCurrent(source[2], source[3])

SelfIntentPending ==
  \E i \in CohortIntents(Tables, state.decision_epoch) : intents[i].author = Moderator

\* Sources a moderator can name: what it sees, or what its attempt froze.
Named ==
  {<<"intent", intents[i].author, intents[i].version>> : i \in DOMAIN intents}
  \cup {<<"handoff", h.id, h.attempts>> : h \in handoffs}

SelectTarget(source) ==
  IF source[1] = "intent" THEN source[2]
  ELSE (CHOOSE h \in handoffs : h.id = source[2]).to

\* The other Intents of the cohort may be deferred by a Select of its own
\* Intent, and must be by a moderator that has just spoken.
ModeratorSelect(source, deferrals) ==
  LET d == Tables
      own == source[1] = "intent" /\ source[2] = Moderator
      others == {intents[i].author : i \in CohortIntents(d, state.decision_epoch)}
                \ {Moderator}
      o == MakeOffer(d, SelectTarget(source), source, "reset")
      deferred == [o EXCEPT !.intents = [i \in DOMAIN @ |->
                     IF @[i].author \in deferrals
                     THEN [@[i] EXCEPT !.deferred_by = o.state.active_offer] ELSE @[i]]]
  IN /\ Live /\ Spend
     /\ state.phase \in Moderating
     /\ Authorized
     /\ Queued(d) = {}
     /\ SourceCurrent(source)
     /\ AgentModerator => source \in attempt.snapshot
     /\ SelfIntentPending => own
     /\ IF own
        THEN /\ deferrals \subseteq others
             /\ state.consecutive >= 1 => deferrals = others
        ELSE deferrals = {}
     /\ Commit(IF AgentModerator
               THEN [EndAttempt(deferred, "over") EXCEPT
                       !.state.active_attempt = FALSE]
               ELSE deferred)

\* A Select of a frozen source that has changed is refused with a one-use ticket.
SelectRefused(source) ==
  /\ Live /\ Free
  /\ AgentModerator /\ Authorized
  /\ state.phase \in Moderating
  /\ Queued(Tables) = {}
  /\ source \in attempt.snapshot \ attempt.tickets
  /\ ~SourceCurrent(source)
  /\ source[1] = "handoff" => ~SelfIntentPending
  /\ Commit([Tables EXCEPT !.attempt.tickets = @ \cup {source}])

ModeratorReject(a) ==
  /\ Live /\ Free
  /\ Authorized
  /\ HasIntent(Tables, a)
  /\ AgentModerator =>
       /\ state.phase \in Moderating
       /\ IntentCurrent(a, IntentOf(Tables, a).version)
       /\ <<"intent", a, IntentOf(Tables, a).version>> \in attempt.snapshot
  /\ Commit(ChangeIntent(a, 0))

ModeratorDismissHandoff(h) ==
  /\ Live /\ Free
  /\ Authorized
  /\ AgentModerator =>
       /\ state.phase \in Moderating
       /\ h.blocked_by = "none" /\ h.eligible <= state.decision_epoch
       /\ <<"handoff", h.id, h.attempts>> \in attempt.snapshot
  /\ ~\E row \in {o \in offers : o.id = state.active_offer}
                 \cup {g \in grants : g.offer = state.active_grant} :
        row.source[1] = "handoff" /\ row.source[2] = h.id
  /\ Commit([Tables EXCEPT !.handoffs = @ \ {h}])

\* A Human's Offer and a Grant run to their end; control returns after them.
ModeratorRecall ==
  /\ Live /\ Free
  /\ state.phase \in {"offered", "granted"}
  /\ Commit(IF /\ state.phase = "offered"
               /\ ActiveOffer(Tables).source[1] # "request"
            THEN FailActiveOffer(Tables, "recalled")
            ELSE [Tables EXCEPT !.state.forced_return = TRUE])

HumanRequest(h) ==
  LET row == [who |-> h, state |-> "queued", offer |-> 0]
      d == [Tables EXCEPT !.requests = Append(@, row)]
  IN /\ Live /\ Spend
     /\ ~\E i \in DOMAIN requests : requests[i].who = h
     /\ Commit(CASE state.phase \in Moderating ->
                      MakeOffer(d, h, <<"request", h, 0>>, "preserve")
                 [] /\ state.phase = "offered"
                    /\ ActiveOffer(d).source[1] # "request" ->
                      FailActiveOffer(d, "preempted")
                 [] OTHER -> d)

HumanWithdraw(i) ==
  /\ Live /\ Free
  /\ \/ /\ requests[i].state = "offered"
        /\ state.active_offer = requests[i].offer
        /\ Commit(FailActiveOffer(Tables, "source_withdrawn"))
     \/ /\ requests[i].state = "queued"
        /\ Commit([Tables EXCEPT !.requests = RemoveAt(@, i)])

\* Mutant: a Human Offer deepens the chain of Handoffs.
OfferAckDeepens ==
  LET d == Tables
      o == ActiveOffer(d)
      depth == CASE o.depth_mode = "reset" -> 0
                 [] FALSE -> o.previous_depth
                 [] OTHER -> o.previous_depth + 1
  IN /\ Live /\ Free
     /\ state.phase = "offered"
     /\ Commit([d EXCEPT
          !.offers = @ \ {o},
          !.grants = @ \cup
            {[offer |-> o.id, holder |-> o.target, source |-> o.source,
              depth_mode |-> o.depth_mode, previous_depth |-> o.previous_depth,
              depth |-> depth, basis |-> o.basis, age |-> 0,
              lease |-> Min({SoftLease, HardDeadline})]},
          !.intents = Without(@, Answered(d, o)),
          !.requests = Without(@, Mine(d, o)),
          !.state = [@ EXCEPT !.phase = "granted", !.active_offer = 0,
                              !.active_grant = o.id, !.depth = depth,
                              !.deadline = "none"]])

OfferAck ==
  LET d == Tables
      o == ActiveOffer(d)
      depth == CASE o.depth_mode = "reset" -> 0
                 [] o.depth_mode = "preserve" -> o.previous_depth
                 [] OTHER -> o.previous_depth + 1
  IN /\ Live /\ Free
     /\ state.phase = "offered"
     /\ Commit([d EXCEPT
          !.offers = @ \ {o},
          !.grants = @ \cup
            {[offer |-> o.id, holder |-> o.target, source |-> o.source,
              depth_mode |-> o.depth_mode, previous_depth |-> o.previous_depth,
              depth |-> depth, basis |-> o.basis, age |-> 0,
              lease |-> Min({SoftLease, HardDeadline})]},
          !.intents = Without(@, Answered(d, o)),
          !.requests = Without(@, Mine(d, o)),
          !.state = [@ EXCEPT !.phase = "granted", !.active_offer = 0,
                              !.active_grant = o.id, !.depth = depth,
                              !.deadline = "none"]])

OfferDecline ==
  /\ Live /\ Free
  /\ state.phase = "offered"
  /\ Commit(FailActiveOffer(Tables, "declined"))

\* Mutant: the lease may pass the hard deadline.
ProgressUncapped ==
  LET g == ActiveGrant(Tables)
      lease == g.age + SoftLease
  IN /\ Live /\ Free
     /\ state.phase = "granted"
     /\ Commit([Tables EXCEPT !.grants =
                  (@ \ {g}) \cup {[g EXCEPT !.lease = lease]}])

\* Mutant: progress starts the Grant anew.
ProgressRestarts ==
  LET g == ActiveGrant(Tables)
      lease == SoftLease
  IN /\ Live /\ Free
     /\ state.phase = "granted"
     /\ Commit([Tables EXCEPT !.grants =
                  (@ \ {g}) \cup {[g EXCEPT !.age = 0, !.lease = lease]}])

\* Progress renews the soft lease, never past the hard deadline.
GrantProgress ==
  LET g == ActiveGrant(Tables)
      lease == Min({g.age + SoftLease, HardDeadline})
  IN /\ Live /\ Free
     /\ state.phase = "granted"
     /\ Commit([Tables EXCEPT !.grants =
                  (@ \ {g}) \cup {[g EXCEPT !.lease = lease]}])

GrantYield ==
  /\ Live /\ Free
  /\ state.phase = "granted"
  /\ Commit(FailActiveGrant(Tables))

\* The tables once the Grant is spoken, before the floor is passed on.
Spoken(d, g) ==
  [ReleaseDeferrals([d EXCEPT !.grants = @ \ {g}], g.offer) EXCEPT
     !.handoffs = {h \in @ : ~(g.source[1] = "handoff" /\ h.id = g.source[2])},
     !.fallbacks = {},
     !.state = [d.state EXCEPT !.speech = @ + 1, !.depth = g.depth,
                               !.consecutive = IF ByModerator(g) THEN @ + 1 ELSE 0]]

\* What keeps a Handoff from being offered at once.
HandoffBlock(d, g) ==
  CASE Queued(d) # {} -> "human_request"
    [] d.state.forced_return -> "recall"
    [] ~ByModerator(g) /\ g.depth >= MaxHandoffDepth -> "max_depth"
    [] OTHER -> "none"

\* A speech, with a Handoff to another participant or none (to = the speaker).
Speech(to) ==
  LET g == ActiveGrant(Tables)
      d == Spoken(Tables, g)
      asks == to # g.holder
      opens == asks /\ Cardinality(d.handoffs) < MaxOpenHandoffs
      block == HandoffBlock(d, g)
      h == [id |-> d.state.speech, to |-> to, blocked_by |-> block,
            suppressed |-> FALSE, attempts |-> 0,
            eligible |-> d.state.decision_epoch + 1]
      t == IF opens THEN [d EXCEPT !.handoffs = @ \cup {h}] ELSE d
      forced == \/ d.state.forced_return
                \/ ~ByModerator(g) /\ g.depth >= MaxHandoffDepth
  IN /\ Live /\ Free
     /\ state.phase = "granted" /\ state.speech < MaxSpeeches
     /\ g.basis = state.speech
     /\ Commit(CASE Queued(t) # {} -> OfferHumanRequest(t)
                 [] Queued(t) = {} /\ ~forced /\ opens /\ block = "none" ->
                      IF ByModerator(g)
                      THEN MakeOffer([t EXCEPT !.state.depth = 0], to,
                                     <<"handoff", h.id, 0>>, "reset")
                      ELSE MakeOffer(t, to, <<"handoff", h.id, 0>>,
                                     "increment_provisional")
                 [] OTHER -> ReturnControl(t))

-----------------------------------------------------------------------------
(* The decision attempts of an Agent moderator.                            *)

NewAttempt(d, number, epoch) ==
  [d EXCEPT
     !.attempt = [state |-> "running", control_epoch |-> d.state.control_epoch,
                  decision_epoch |-> epoch, number |-> number,
                  speech |-> d.state.speech,
                  snapshot |-> CandidateSnapshot(d, epoch), late |-> FALSE,
                  tickets |-> {}],
     !.state = [@ EXCEPT !.decision_epoch = epoch, !.decision_attempt = number,
                         !.active_attempt = TRUE, !.deadline = "attempt"]]

\* One attempt per control and decision epoch, except to replace one whose
\* runtime was lost, which keeps the deadline of the lost one.
AttemptStart(replaces) ==
  LET d == Tables
      epoch == IF /\ state.phase = "moderator_idle"
                  /\ ~CohortHasCandidates(d, state.decision_epoch)
               THEN state.decision_epoch + 1 ELSE state.decision_epoch
      same == /\ attempt.control_epoch = state.control_epoch
              /\ attempt.decision_epoch = epoch
      number == IF replaces THEN attempt.number + 1 ELSE 1
      n == NewAttempt(d, number, epoch)
  IN /\ Live /\ Free
     /\ AgentModerator
     /\ state.phase \in Moderating
     /\ ~state.active_attempt
     /\ Queued(d) = {}
     /\ CandidateSnapshot(d, epoch) # {}
     /\ IF replaces THEN same /\ attempt.state = "abandoned" /\ ~attempt.late
        ELSE ~same
     /\ number <= MaxRejudgments + 1
     /\ Commit(IF CohortIntents(d, epoch) # {}
               THEN [n EXCEPT !.state.phase = "moderator_control"] ELSE n)

\* recover_invalid_moderator_attempt_tx: the model's answer was unusable.
RecoverInvalidAttempt(d) ==
  LET epoch == d.attempt.decision_epoch IN
  IF Queued(d) # {}
  THEN [OfferHumanRequest(d) EXCEPT !.state.active_attempt = FALSE]
  ELSE FallbackOrIdle(SuppressHandoffCohort(d, epoch), epoch)

\* Finish as completed or discarded, or discarded for the model's answer.  No
\* phase is required.
AttemptFinish(invalid) ==
  LET d == EndAttempt(Tables, "over") IN
  /\ Live /\ Free
  /\ attempt.state = "running"
  /\ Commit(IF invalid THEN RecoverInvalidAttempt(d)
            ELSE [d EXCEPT !.state.active_attempt = FALSE])

AttemptAbandon ==
  /\ Live /\ Free
  /\ attempt.state = "running"
  /\ Commit([EndAttempt(Tables, "abandoned") EXCEPT !.state.active_attempt = FALSE])

CompleteCohort ==
  /\ Live /\ Free
  /\ AgentModerator /\ Authorized
  /\ ~CohortHasCandidates(Tables, state.decision_epoch)
  /\ Commit(NextCohort(EndAttempt(Tables, "over")))

\* A ticket lets the moderator judge again, on the cohort as it now is; after
\* the last judgment the Relay falls back.
DecisionRetry(source) ==
  LET d == EndAttempt(Tables, "over")
      epoch == state.decision_epoch
      fallback == FallbackOrIdle(d, epoch)
  IN /\ Live /\ Free
     /\ AgentModerator /\ Authorized
     /\ Queued(d) = {}
     /\ source \in attempt.tickets
     /\ IF source[1] = "intent" THEN ~IntentCurrent(source[2], source[3])
        ELSE ~HandoffCurrent(source[2], source[3])
     /\ Commit(CASE CandidateSnapshot(d, epoch) = {} -> NextCohort(d)
                 [] /\ CandidateSnapshot(d, epoch) # {}
                    /\ attempt.number > MaxRejudgments ->
                      IF FallbackCandidates(d, epoch) # {} THEN fallback
                      ELSE SuppressHandoffCohort(fallback, epoch)
                 [] OTHER -> NewAttempt(d, attempt.number + 1, epoch))

WithdrawSelf ==
  /\ Live /\ Free
  /\ AgentModerator /\ Authorized
  /\ HasIntent(Tables, Moderator)
  /\ <<"intent", Moderator, IntentOf(Tables, Moderator).version>> \in attempt.snapshot
  /\ Commit([Tables EXCEPT !.intents = Without(@, IntentsBy(Tables, Moderator))])

-----------------------------------------------------------------------------
(* Time, recovery and End.                                                 *)

\* The deadline of the current phase comes nearer or passes.
Tick ==
  LET g == ActiveGrant(Tables) IN
  /\ Live
  /\ \/ /\ state.phase = "offered"
        /\ late' = TRUE /\ UNCHANGED <<grants, attempt>>
     \/ /\ state.phase = "granted"
        /\ grants' = (grants \ {g}) \cup {[g EXCEPT !.age = @ + 1]}
        /\ late' = (g.age + 1 >= g.lease)
        /\ UNCHANGED attempt
     \/ /\ state.phase \in Moderating /\ state.deadline # "none"
        /\ late' = TRUE
        /\ attempt' = IF state.deadline = "attempt"
                      THEN [attempt EXCEPT !.late = TRUE] ELSE attempt
        /\ UNCHANGED grants
  /\ UNCHANGED <<state, intents, requests, handoffs, offers, fallbacks, commands>>

\* The deadline of an attempt passes while a Human has the floor.
AttemptDeadline ==
  /\ Live
  /\ state.phase \in {"offered", "granted"}
  /\ attempt.state = "running" /\ ~attempt.late
  /\ attempt.control_epoch = state.control_epoch
  /\ attempt' = [attempt EXCEPT !.late = TRUE]
  /\ UNCHANGED <<state, intents, requests, handoffs, offers, grants, fallbacks,
                 late, commands>>

\* advance_due_locked_tx, run by the recovery worker and by every command.
AdvanceDue ==
  LET d == Tables
      expired == state.active_attempt /\ attempt.state = "running"
      t == IF expired THEN EndAttempt(d, "over") ELSE d
      u == IF expired /\ attempt.decision_epoch = state.decision_epoch
           THEN SuppressHandoffCohort(t, state.decision_epoch) ELSE t
  IN /\ late /\ state.phase # "ended" /\ Free
     /\ Commit(CASE state.phase = "offered" -> FailActiveOffer(d, "timed_out")
                 [] state.phase = "granted" -> FailActiveGrant(d)
                 [] OTHER -> FallbackOrIdle(u, state.decision_epoch))

\* close_baton_locked_tx: a manual End or the revocation of a participant.
End ==
  /\ state.phase # "ended" /\ Free
  /\ Commit([Tables EXCEPT
       !.intents = << >>, !.requests = << >>, !.handoffs = {}, !.offers = {},
       !.grants = {},
       !.attempt = IF @.state = "running" THEN EndAttempt(Tables, "over").attempt ELSE @,
       !.state = [@ EXCEPT !.phase = "ended", !.active_offer = 0,
                           !.active_grant = 0, !.active_attempt = FALSE,
                           !.depth = 0, !.consecutive = 0,
                           !.forced_return = FALSE, !.deadline = "none"]])

Next ==
  \/ \E a \in Participants :
       IntentSubmit(a) \/ IntentRefresh(a) \/ IntentWithdraw(a) \/ ModeratorReject(a)
  \/ \E source \in Named : \E D \in SUBSET (Agents \cup Humans) :
       ModeratorSelect(source, D)
  \/ \E source \in attempt.snapshot : SelectRefused(source) \/ DecisionRetry(source)
  \/ \E h \in handoffs : ModeratorDismissHandoff(h)
  \/ ModeratorRecall
  \/ \E h \in Humans : HumanRequest(h)
  \/ \E i \in DOMAIN requests : HumanWithdraw(i)
  \/ OfferAck \/ OfferDecline \/ GrantProgress \/ GrantYield
  \/ \E to \in Participants : Speech(to)
  \/ \E replaces \in BOOLEAN : AttemptStart(replaces)
  \/ \E invalid \in BOOLEAN : AttemptFinish(invalid)
  \/ AttemptAbandon \/ CompleteCohort \/ WithdrawSelf
  \/ Tick \/ AttemptDeadline \/ AdvanceDue \/ End

\* Deadlines pass by themselves and the recovery worker runs for ever; no
\* fairness is assumed of the participants or of the moderator, whose commands
\* run out at MaxCommands.
Fairness == WF_vars(Tick) /\ WF_vars(AdvanceDue)
Spec == Init /\ [][Next]_vars /\ Fairness

-----------------------------------------------------------------------------
(* Properties.                                                             *)

StateRows == [phase : Phases, active_offer : Nat, active_grant : Nat,
              active_attempt : BOOLEAN, depth : Nat, consecutive : Nat,
              forced_return : BOOLEAN, deadline : {"none", "window", "attempt"},
              control_epoch : Nat, decision_epoch : Nat,
              decision_attempt : 0..MaxRejudgments + 1, speech : Nat]
IntentRows == [author : Participants, version : Nat, deferred_by : Nat,
               eligible : Nat]
RequestRows == [who : Humans, state : {"queued", "offered"}, offer : Nat]
HandoffRows == [id : Nat, to : Participants, suppressed : BOOLEAN, attempts : Nat,
                blocked_by : {"none", "human_request", "recall", "max_depth"},
                eligible : Nat]
DepthModes == {"reset", "preserve", "increment_provisional"}
OfferRows == [id : Nat, target : Participants, source : Source,
              depth_mode : DepthModes, previous_depth : Nat, basis : Nat]
GrantRows == [offer : Nat, holder : Participants, source : Source,
              depth_mode : DepthModes, previous_depth : Nat, depth : Nat, basis : Nat,
              age : 0..HardDeadline, lease : 1..HardDeadline]

\* Types of the rows the baton transactions write.
TypeOK ==
  /\ state \in StateRows
  /\ intents \in Seq(IntentRows)
  /\ requests \in Seq(RequestRows)
  /\ handoffs \subseteq HandoffRows
  /\ offers \subseteq OfferRows
  /\ grants \subseteq GrantRows
  /\ attempt.state \in {"none", "running", "abandoned", "over"}
  /\ attempt.snapshot \subseteq Source /\ attempt.tickets \subseteq attempt.snapshot
  /\ fallbacks \subseteq Participants \X Nat
  /\ late \in BOOLEAN /\ commands \in 0..MaxCommands

\* At most one Offer or Grant is live, never both, and it is the one the state
\* row names: an Offer while offered, a Grant while granted, none while the
\* moderator has control.  A row that outlives the phase that names it can
\* never be answered, and its unique index refuses every later Offer or Grant.
FloorIsWhole ==
  /\ IF state.phase = "offered"
     THEN \E o \in offers : offers = {o} /\ o.id = state.active_offer
     ELSE offers = {}
  /\ IF state.phase = "granted"
     THEN \E g \in grants : grants = {g} /\ g.offer = state.active_grant
     ELSE grants = {}

\* A Human never waits behind anybody but the holder of a Grant or an earlier
\* Human: while a Request is queued the floor is granted, or offered to a Human
\* who stands before it in the queue; and an offered Request has the live Offer.
HumansFirst ==
  \A i \in DOMAIN requests :
    \/ requests[i].state = "queued" /\ state.phase = "granted"
    \/ /\ requests[i].state = "queued" /\ state.phase = "offered"
       /\ \E j \in 1..i - 1 : requests[j].state = "offered"
    \/ /\ requests[i].state = "offered" /\ state.phase = "offered"
       /\ state.active_offer = requests[i].offer

\* The attempt the state row calls active is the one that is running: an
\* attempt that ran on unnamed could never be ended by a deadline and its
\* unique index would refuse every later attempt.
AttemptAccounted == state.active_attempt <=> attempt.state = "running"

\* What is offered or granted was offered at the present speech revision, so
\* that the speech handler's check of the Grant's basis can never refuse the
\* holder: no speech slips in between an Offer and the speech it leads to.
BasisIsCurrent ==
  \A row \in offers \cup grants : row.basis = state.speech

\* An Intent is set aside only as long as the Offer that set it aside, or the
\* Grant made from it, lives; otherwise nobody would ever release it.
NoStrandedDeferral ==
  \A i \in DOMAIN intents :
    intents[i].deferred_by # 0 =>
      \/ \E o \in offers : o.id = intents[i].deferred_by
      \/ \E g \in grants : g.offer = intents[i].deferred_by

\* However Handoffs, Humans and failures mix, no more than MaxHandoffDepth
\* Handoffs follow each other before control goes back to the moderator.
DepthBounded ==
  /\ state.depth <= MaxHandoffDepth
  /\ state.phase \in Moderating => state.depth = 0

\* Human priority is a transient barrier: when the moderator has control again
\* no Handoff is still blocked by a Human Request.
HumanBlocksReleased ==
  state.phase \in Moderating =>
    \A h \in handoffs : h.blocked_by # "human_request"

\* The moderator idles without a deadline only when nothing can be offered: an
\* Intent that came too late for its cohort finds the next one opened.
IdleMeansNothingWaits ==
  state.phase = "moderator_idle" /\ state.deadline = "none" =>
    FallbackCandidates(Tables, state.decision_epoch + 1) = {}

\* When the moderator has control and no Human waits, every open Handoff is one
\* the moderator can put in a cohort: open, or merely suppressed.
OpenHandoffsReachable ==
  state.phase \in Moderating /\ requests = << >> =>
    \A h \in handoffs : h.blocked_by = "none"

\* Whatever happens between an Agent's judgment and its commit, the judgment is
\* applied to what was judged: an Offer that is neither a Human's, nor a speech's
\* own Handoff, nor a fallback is made for a source version frozen by an attempt
\* that runs, at the epochs and the speech revision it was started at.
JudgedAsFrozen ==
  [][ \A o \in offers' \ offers :
        /\ AgentModerator /\ o.source[1] # "request"
        /\ state'.speech = state.speech /\ fallbacks' = fallbacks
        => /\ attempt.state = "running" /\ o.source \in attempt.snapshot
           /\ attempt.control_epoch = state.control_epoch
           /\ attempt.decision_epoch = state.decision_epoch
           /\ attempt.speech = state.speech ]_vars

\* Whenever the floor comes back to the moderator it does so at a control epoch
\* of its own, so that no judgment begun before can be committed after; and no
\* transaction, not even one that starts again from a state it read earlier,
\* takes an epoch back.
ControlIsFresh ==
  [][ /\ state'.control_epoch >= state.control_epoch
      /\ state'.decision_epoch >= state.decision_epoch
      /\ state.phase \in {"offered", "granted"} /\ state'.phase \in Moderating
           => state'.control_epoch > state.control_epoch ]_vars

\* Every Offer and every Grant comes to an end, whatever its holder does, and
\* however often it reports progress: with nobody left to ask for the floor (the
\* commands run out) it comes back to the moderator.
FloorReturns ==
  state.phase \in {"offered", "granted"} ~> state.phase \in Moderating \cup {"ended"}

\* Every Human Request is answered, refused or given up in the end.
RequestsServed ==
  \A h \in Humans :
    (\E i \in DOMAIN requests : requests[i].who = h)
      ~> ~(\E i \in DOMAIN requests : requests[i].who = h)

=============================================================================
