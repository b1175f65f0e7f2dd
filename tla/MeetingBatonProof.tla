------------------------- MODULE MeetingBatonProof -------------------------
(***************************************************************************)
(* The moderated baton, for every roster, configuration and bound.  What   *)
(* is proved of a Human moderator rests on one inductive invariant of the  *)
(* tables, Inv; what is proved of attempts, whoever moderates, rests on a  *)
(* second, AInv, and stands at the end.                                    *)
(***************************************************************************)
EXTENDS MeetingBaton, FiniteSetTheorems, SequenceTheorems, WellFoundedInduction, TLAPS

(* The rows while a Human moderates: there is no attempt, and no deadline  *)
(* but that of a window.                                                   *)
HumanStateRows ==
  [phase : Phases, active_offer : Nat, active_grant : Nat, active_attempt : {FALSE},
   depth : 0..MaxHandoffDepth, consecutive : Nat, forced_return : BOOLEAN,
   deadline : {"none", "window"}, control_epoch : Nat, decision_epoch : Nat,
   decision_attempt : {0}, speech : Nat]

TableRows ==
  [state : HumanStateRows, intents : Seq(IntentRows), requests : Seq(RequestRows),
   handoffs : SUBSET HandoffRows, offers : SUBSET OfferRows,
   grants : SUBSET GrantRows, attempt : {NoAttempt},
   fallbacks : SUBSET (Participants \X Nat)]

(* A Human has one Request; an Intent waits for the next cohort at most.   *)
OneEach(d) ==
  \A i, j \in DOMAIN d.requests : d.requests[i].who = d.requests[j].who => i = j

NextCohortAtMost(d) ==
  \A i \in DOMAIN d.intents : d.intents[i].eligible <= d.state.decision_epoch + 1

Rows(d) ==
  /\ d \in TableRows
  /\ IsFiniteSet(d.fallbacks)
  /\ OneEach(d)
  /\ NextCohortAtMost(d)

AllQueued(d) == \A i \in DOMAIN d.requests : d.requests[i].state = "queued"

(* Between an Offer or Grant that is over and the one that follows it.     *)
Bare(d) ==
  /\ Rows(d)
  /\ d.offers = {} /\ d.grants = {}
  /\ \A i \in DOMAIN d.intents : d.intents[i].deferred_by = 0
  /\ AllQueued(d)

(* The parts of the invariant.                                             *)
Floor(d) ==
  /\ IF d.state.phase = "offered"
     THEN \E o \in d.offers : d.offers = {o} /\ o.id = d.state.active_offer
     ELSE d.offers = {}
  /\ IF d.state.phase = "granted"
     THEN \E g \in d.grants : d.grants = {g} /\ g.offer = d.state.active_grant
     ELSE d.grants = {}

Basis(d) ==
  /\ \A o \in d.offers : o.basis = d.state.speech
  /\ \A g \in d.grants : g.basis = d.state.speech

Deferrals(d) ==
  \A i \in DOMAIN d.intents :
    d.intents[i].deferred_by # 0 =>
      \/ d.state.phase = "offered" /\ d.intents[i].deferred_by = d.state.active_offer
      \/ d.state.phase = "granted" /\ d.intents[i].deferred_by = d.state.active_grant

Depths(d) ==
  /\ d.state.phase \in Moderating => d.state.depth = 0
  /\ \A o \in d.offers :
       /\ o.previous_depth <= MaxHandoffDepth
       /\ o.depth_mode = "increment_provisional" => o.previous_depth < MaxHandoffDepth
  /\ \A g \in d.grants : g.depth <= MaxHandoffDepth /\ g.previous_depth <= MaxHandoffDepth

(* The Human whose Request is offered stands first, the others wait; while *)
(* anything else is offered, or the moderator has control, nobody waits.   *)
HeadOffered(d, o) ==
  /\ 1 \in DOMAIN d.requests
  /\ d.requests[1].who = o.source[2] /\ d.requests[1].state = "offered"
  /\ d.requests[1].offer = o.id
  /\ \A i \in DOMAIN d.requests : i # 1 => d.requests[i].state = "queued"

Line(d) ==
  /\ d.state.phase \notin {"offered", "granted"} => d.requests = << >>
  /\ d.state.phase = "granted" => AllQueued(d)
  /\ \A o \in d.offers :
       IF o.source[1] = "request" THEN HeadOffered(d, o) ELSE d.requests = << >>

Blocks(d) ==
  d.state.phase \in Moderating => \A h \in d.handoffs : h.blocked_by # "human_request"

(* An open window has every Intent in its cohort.                          *)
CohortOpen(d) ==
  d.state.phase = "moderator_control" =>
    \A i \in DOMAIN d.intents : d.intents[i].eligible <= d.state.decision_epoch

IdleIsIdle(d) ==
  d.state.phase = "moderator_idle" =>
    d.state.deadline = "none" /\ FallbackCandidates(d, d.state.decision_epoch + 1) = {}

(* All of it but what EnsureModeratorWindow sees to.                       *)
Standing(d) ==
  /\ Rows(d) /\ Floor(d) /\ Basis(d) /\ Deferrals(d) /\ Depths(d) /\ Line(d) /\ Blocks(d)
  /\ CohortOpen(d)
  /\ d.state.phase = "moderator_idle" => d.state.deadline = "none"

Inv(d) == Standing(d) /\ IdleIsIdle(d)

(* What a transaction may do to the epochs.                                *)
EpochsGrow(d, e) ==
  /\ e.state.control_epoch >= d.state.control_epoch
  /\ e.state.decision_epoch >= d.state.decision_epoch

Moves(d, e) ==
  /\ EpochsGrow(d, e)
  /\ e.state.phase \in Moderating => e.state.control_epoch > d.state.control_epoch

-----------------------------------------------------------------------------
(* Numbers, finite sets and sequences.                                     *)

LEMMA MinExists ==
  ASSUME NEW S \in SUBSET Nat, S # {}
  PROVE  Min(S) \in S /\ \A x \in S : Min(S) <= x
<1> DEFINE Less == {ss \in Nat \X Nat : ss[1] < ss[2]}
<1>1. IsWellFoundedOn(Less, Nat)
  BY NatLessThanWellFounded DEF OpToRel
<1>2. PICK x \in S : \A y \in S : ~ (<<y, x>> \in Less)
  BY <1>1, WFMin
<1>3. ASSUME NEW y \in S PROVE x <= y
  <2>1. x \in Nat /\ y \in Nat
    OBVIOUS
  <2>2. y < x => <<y, x>> \in Less
    BY <2>1
  <2>3. ~(y < x)
    BY Zenon, <1>2, <2>2
  <2>4. QED
    BY <2>1, <2>3
<1>4. QED
  BY <1>3 DEF Min

(* The image of a finite set under a function is finite.                   *)
LEMMA FiniteImage ==
  ASSUME NEW S, NEW f, IsFiniteSet(S), DOMAIN f = S
  PROVE  IsFiniteSet({f[x] : x \in S})
<1> DEFINE T == {f[x] : x \in S}
           g == [x \in S |-> f[x]]
<1>1. g \in Surjection(S, T)
  BY DEF Surjection
<1>2. QED
  BY <1>1, FS_Surjection

(* Among one more candidate than there are ids in use one is free.         *)
LEMMA FreshIdIsFresh ==
  ASSUME NEW M, IsFiniteSet(M)
  PROVE  FreshId(M) \in Nat \ {0} /\ FreshId(M) \notin M
<1> DEFINE n == Cardinality(M)
           I == 1..n + 1
<1>1. n \in Nat
  BY FS_CardinalityType
<1>2. IsFiniteSet(I) /\ Cardinality(I) = n + 1
  BY <1>1, FS_Interval
<1>3. ~(I \subseteq M)
  BY <1>1, <1>2, FS_Subset
<1>4. I \ M # {} /\ I \ M \in SUBSET Nat
  BY <1>1, <1>3
<1>5. Min(I \ M) \in I \ M
  BY <1>4, MinExists
<1>6. QED
  BY <1>1, <1>5 DEF FreshId

(* What RemoveAt leaves.                                                   *)
LEMMA RemoveAtIs ==
  ASSUME NEW S, NEW s \in Seq(S), NEW i \in DOMAIN s
  PROVE  /\ RemoveAt(s, i) \in Seq(S)
         /\ DOMAIN RemoveAt(s, i) = 1..Len(s) - 1
         /\ \A j \in 1..Len(s) - 1 :
              RemoveAt(s, i)[j] = IF j < i THEN s[j] ELSE s[j + 1]
<1> DEFINE a == SubSeq(s, 1, i - 1)
           b == SubSeq(s, i + 1, Len(s))
<1>1. Len(s) \in Nat /\ DOMAIN s = 1..Len(s) /\ i \in 1..Len(s)
  OBVIOUS
<1>2. /\ a \in Seq(S) /\ Len(a) = i - 1
      /\ \A j \in 1..i - 1 : a[j] = s[j]
  BY <1>1, SubSeqProperties
<1>3. /\ b \in Seq(S) /\ Len(b) = Len(s) - i
      /\ \A j \in 1..Len(s) - i : b[j] = s[i + j]
  BY <1>1, SubSeqProperties
<1> HIDE DEF a, b
<1> DEFINE c == a \o b
<1>4. /\ c \in Seq(S) /\ Len(c) = Len(s) - 1
      /\ \A j \in 1..Len(a) + Len(b) : c[j] = IF j <= Len(a) THEN a[j] ELSE b[j - Len(a)]
  <2>1. /\ c \in Seq(S) /\ Len(c) = Len(a) + Len(b)
        /\ \A j \in 1..Len(a) + Len(b) :
             c[j] = IF j <= Len(a) THEN a[j] ELSE b[j - Len(a)]
    BY <1>2, <1>3, ConcatProperties
  <2>2. Len(c) = Len(s) - 1
    BY <1>1, <1>2, <1>3, <2>1
  <2>3. QED
    BY <2>1, <2>2
<1>5. RemoveAt(s, i) = c
  BY DEF RemoveAt, a, b
<1> HIDE DEF c
<1>6. DOMAIN c = 1..Len(s) - 1
  BY <1>1, <1>4
<1>7. ASSUME NEW j \in 1..Len(s) - 1
      PROVE  c[j] = IF j < i THEN s[j] ELSE s[j + 1]
  <2>1. j \in 1..Len(a) + Len(b)
    BY <1>1, <1>2, <1>3
  <2>2. c[j] = IF j <= Len(a) THEN a[j] ELSE b[j - Len(a)]
    BY <1>4, <2>1
  <2>3. CASE j < i
    BY <1>1, <1>2, <2>2, <2>3
  <2>4. CASE ~(j < i)
    <3>1. ~(j <= Len(a)) /\ j - Len(a) \in 1..Len(s) - i /\ i + (j - Len(a)) = j + 1
      BY <1>1, <1>2, <2>4
    <3>2. b[j - Len(a)] = s[i + (j - Len(a))]
      BY <1>3, <3>1
    <3>3. QED
      BY <2>2, <2>4, <3>1, <3>2
  <2>5. QED
    BY <2>3, <2>4
<1>8. QED
  BY <1>4, <1>5, <1>6, <1>7

(* A sequence without positions is empty.                                  *)
LEMMA EmptyRows ==
  ASSUME NEW S, NEW s \in Seq(S), DOMAIN s = {}
  PROVE  s = << >>
<1>1. Len(s) \in Nat /\ DOMAIN s = 1..Len(s)
  OBVIOUS
<1>2. Len(s) = 0
  BY <1>1
<1>3. QED
  BY <1>2, EmptySeq

-----------------------------------------------------------------------------
(* Making an Offer.                                                        *)

LEMMA TableTypes ==
  ASSUME NEW d \in TableRows
  PROVE  /\ d.state \in HumanStateRows
         /\ d.intents \in Seq(IntentRows)
         /\ Len(d.intents) \in Nat /\ DOMAIN d.intents = 1..Len(d.intents)
         /\ \A i \in DOMAIN d.intents : d.intents[i] \in IntentRows
         /\ d.requests \in Seq(RequestRows)
         /\ Len(d.requests) \in Nat /\ DOMAIN d.requests = 1..Len(d.requests)
         /\ \A i \in DOMAIN d.requests : d.requests[i] \in RequestRows
         /\ d.handoffs \subseteq HandoffRows
         /\ d.offers \subseteq OfferRows /\ d.grants \subseteq GrantRows
         /\ d.attempt = NoAttempt
         /\ d.fallbacks \subseteq Participants \X Nat
<1>1. /\ d.state \in HumanStateRows /\ d.intents \in Seq(IntentRows)
      /\ d.requests \in Seq(RequestRows) /\ d.handoffs \subseteq HandoffRows
      /\ d.offers \subseteq OfferRows /\ d.grants \subseteq GrantRows
      /\ d.attempt = NoAttempt /\ d.fallbacks \subseteq Participants \X Nat
  BY DEF TableRows
<1>2. QED
  BY <1>1

LEMMA StateTypes ==
  ASSUME NEW d \in TableRows
  PROVE  /\ d.state.phase \in Phases
         /\ d.state.active_offer \in Nat /\ d.state.active_grant \in Nat
         /\ d.state.active_attempt = FALSE /\ d.state.decision_attempt = 0
         /\ d.state.depth \in Nat /\ d.state.depth <= MaxHandoffDepth
         /\ d.state.consecutive \in Nat /\ d.state.forced_return \in BOOLEAN
         /\ d.state.deadline \in {"none", "window"}
         /\ d.state.control_epoch \in Nat /\ d.state.decision_epoch \in Nat
         /\ d.state.speech \in Nat
<1>1. d.state \in HumanStateRows
  BY TableTypes
<1>2. MaxHandoffDepth \in Nat
  BY ConfigAssumption
<1>3. /\ d.state.depth \in Nat /\ d.state.depth <= MaxHandoffDepth
  <2>1. d.state.depth \in 0..MaxHandoffDepth
    BY <1>1 DEF HumanStateRows
  <2>2. QED
    BY <1>2, <2>1
<1>4. d.state.active_attempt = FALSE /\ d.state.forced_return \in BOOLEAN
  BY <1>1, Zenon DEF HumanStateRows
<1>5. QED
  BY <1>1, <1>3, <1>4 DEF HumanStateRows

(* The id of the Offer that follows is a new one.                          *)
LEMMA OfferIdIsFresh ==
  ASSUME NEW d, Bare(d)
  PROVE  FreshOfferId(d) \in Nat \ {0}
<1> DEFINE f == [i \in DOMAIN d.intents |-> d.intents[i].deferred_by]
           g == [i \in DOMAIN d.requests |-> d.requests[i].offer]
           A == {o.id : o \in d.offers}
           B == {p.offer : p \in d.grants}
           C == {d.intents[i].deferred_by : i \in DOMAIN d.intents}
           D == {d.requests[i].offer : i \in DOMAIN d.requests}
<1>1. d \in TableRows /\ d.offers = {} /\ d.grants = {}
  BY DEF Bare, Rows
<1>2. IsFiniteSet(A \cup B)
  <2>1. A \cup B = {}
    BY <1>1
  <2>2. QED
    BY <2>1, FS_EmptySet
<1>3. IsFiniteSet(DOMAIN d.intents) /\ IsFiniteSet(DOMAIN d.requests)
  BY <1>1, TableTypes, FS_Interval
<1>4. IsFiniteSet(C)
  <2>1. IsFiniteSet({f[i] : i \in DOMAIN d.intents})
    BY <1>3, FiniteImage
  <2>2. C = {f[i] : i \in DOMAIN d.intents}
    OBVIOUS
  <2>3. QED
    BY <2>1, <2>2
<1>5. IsFiniteSet(D)
  <2>1. IsFiniteSet({g[i] : i \in DOMAIN d.requests})
    BY <1>3, FiniteImage
  <2>2. D = {g[i] : i \in DOMAIN d.requests}
    OBVIOUS
  <2>3. QED
    BY <2>1, <2>2
<1>6. FreshOfferId(d) = FreshId((A \cup B) \cup C \cup D)
  BY DEF FreshOfferId
<1> HIDE DEF A, B, C, D
<1>7. IsFiniteSet((A \cup B) \cup C \cup D)
  BY <1>2, <1>4, <1>5, FS_Union
<1>8. QED
  BY <1>6, <1>7, FreshIdIsFresh

Chosen(d, source, i) == source[1] = "request" /\ d.requests[i].who = source[2]

LEMMA OfferFields ==
  ASSUME NEW d, Bare(d), NEW target \in Participants, NEW source \in Source,
         NEW mode \in DepthModes
  PROVE  LET e == MakeOffer(d, target, source, mode)
             id == FreshOfferId(d)
         IN  /\ e \in TableRows
             /\ e.offers = {[id |-> id, target |-> target, source |-> source,
                             depth_mode |-> mode, previous_depth |-> d.state.depth,
                             basis |-> d.state.speech]}
             /\ e.grants = {} /\ e.intents = d.intents /\ e.fallbacks = d.fallbacks
             /\ e.requests \in Seq(RequestRows) /\ DOMAIN e.requests = DOMAIN d.requests
             /\ \A i \in DOMAIN d.requests :
                  /\ e.requests[i].who = d.requests[i].who
                  /\ Chosen(d, source, i) =>
                       e.requests[i].state = "offered" /\ e.requests[i].offer = id
                  /\ ~Chosen(d, source, i) => e.requests[i] = d.requests[i]
             /\ e.state.phase = "offered" /\ e.state.active_offer = id
             /\ e.state.depth = d.state.depth /\ e.state.speech = d.state.speech
             /\ e.state.consecutive = d.state.consecutive
             /\ e.state.control_epoch = d.state.control_epoch
             /\ e.state.decision_epoch = d.state.decision_epoch
<1> DEFINE id == FreshOfferId(d)
           row == [id |-> id, target |-> target, source |-> source,
                   depth_mode |-> mode, previous_depth |-> d.state.depth,
                   basis |-> d.state.speech]
           rq == [i \in DOMAIN d.requests |->
                    IF Chosen(d, source, i)
                    THEN [d.requests[i] EXCEPT !.state = "offered", !.offer = id]
                    ELSE d.requests[i]]
           ho == {IF source[1] = "handoff" /\ h.id = source[2]
                  THEN [h EXCEPT !.attempts = @ + 1, !.blocked_by = "none",
                                 !.suppressed = FALSE]
                  ELSE h : h \in d.handoffs}
           st == [d.state EXCEPT !.phase = "offered", !.active_offer = id,
                                 !.active_grant = 0, !.deadline = "none"]
           e == MakeOffer(d, target, source, mode)
<1>1. d \in TableRows /\ d.offers = {} /\ d.grants = {}
  BY DEF Bare, Rows
<1>2. id \in Nat
  BY OfferIdIsFresh
<1>3. row \in OfferRows
  BY <1>1, <1>2, StateTypes DEF OfferRows
<1>4. rq \in Seq(RequestRows) /\ DOMAIN rq = DOMAIN d.requests
  <2>1. \A i \in DOMAIN d.requests : rq[i] \in RequestRows
    BY <1>1, <1>2, TableTypes DEF RequestRows
  <2>2. rq \in [1..Len(d.requests) -> RequestRows]
    BY <1>1, <2>1, TableTypes
  <2>3. Len(d.requests) \in Nat /\ DOMAIN d.requests = 1..Len(d.requests)
    BY <1>1, TableTypes
  <2> HIDE DEF rq
  <2>4. QED
    BY <2>2, <2>3
<1>5. ho \subseteq HandoffRows
  <2>1. \A h \in d.handoffs : h \in HandoffRows
    BY <1>1, TableTypes
  <2>2. ASSUME NEW h \in d.handoffs
        PROVE  [h EXCEPT !.attempts = @ + 1, !.blocked_by = "none",
                         !.suppressed = FALSE] \in HandoffRows
    <3>1. h.attempts + 1 \in Nat
      BY <2>1 DEF HandoffRows
    <3>2. [h EXCEPT !.attempts = h.attempts + 1, !.blocked_by = "none",
                    !.suppressed = FALSE] \in HandoffRows
      BY <2>1, <3>1 DEF HandoffRows
    <3>3. QED
      BY <3>2
  <2>3. QED
    BY <2>1, <2>2
<1>6. st \in HumanStateRows
  BY <1>1, <1>2, TableTypes DEF HumanStateRows, Phases
<1>7. e = [d EXCEPT !.offers = @ \cup {row}, !.requests = rq, !.handoffs = ho, !.state = st]
  BY <1>1 DEF MakeOffer, TableRows, Chosen
<1>8. /\ st.phase = "offered" /\ st.active_offer = id
      /\ st.depth = d.state.depth /\ st.speech = d.state.speech
      /\ st.consecutive = d.state.consecutive
      /\ st.control_epoch = d.state.control_epoch
      /\ st.decision_epoch = d.state.decision_epoch
  BY <1>1, TableTypes DEF HumanStateRows
<1>9. ASSUME NEW i \in DOMAIN d.requests
      PROVE  /\ rq[i].who = d.requests[i].who
             /\ Chosen(d, source, i) => rq[i].state = "offered" /\ rq[i].offer = id
             /\ ~Chosen(d, source, i) => rq[i] = d.requests[i]
  <2>1. d.requests[i] \in RequestRows
    BY <1>1, TableTypes
  <2>2. CASE Chosen(d, source, i)
    <3>1. rq[i] = [d.requests[i] EXCEPT !.state = "offered", !.offer = id]
      BY <2>2
    <3>2. QED
      BY <2>1, <2>2, <3>1 DEF RequestRows
  <2>3. CASE ~Chosen(d, source, i)
    BY <2>3
  <2>4. QED
    BY <2>2, <2>3
<1> HIDE DEF row, rq, ho, st, id, e
<1>10. /\ e.offers = {row} /\ e.requests = rq /\ e.handoffs = ho /\ e.state = st
       /\ e.grants = {} /\ e.intents = d.intents /\ e.fallbacks = d.fallbacks
       /\ e \in TableRows
  BY <1>1, <1>3, <1>4, <1>5, <1>6, <1>7 DEF TableRows
<1>11. QED
  BY <1>4, <1>8, <1>9, <1>10 DEF e, id, row

(* The Offer made of bare tables: of the first Request if any is queued,   *)
(* and deeper only below the limit.                                        *)
LEMMA OfferBare ==
  ASSUME NEW d, Bare(d), NEW target \in Participants, NEW source \in Source,
         NEW mode \in DepthModes,
         mode = "increment_provisional" => d.state.depth < MaxHandoffDepth,
         source[1] = "request" => 1 \in DOMAIN d.requests /\ d.requests[1].who = source[2],
         source[1] # "request" => d.requests = << >>
  PROVE  LET e == MakeOffer(d, target, source, mode)
         IN  Inv(e) /\ Moves(d, e) /\ e.state.phase = "offered"
<1> DEFINE e == MakeOffer(d, target, source, mode)
           id == FreshOfferId(d)
           row == [id |-> id, target |-> target, source |-> source,
                   depth_mode |-> mode, previous_depth |-> d.state.depth,
                   basis |-> d.state.speech]
<1>1. /\ e \in TableRows
      /\ e.offers = {row} /\ e.grants = {} /\ e.intents = d.intents
      /\ e.fallbacks = d.fallbacks
      /\ e.requests \in Seq(RequestRows) /\ DOMAIN e.requests = DOMAIN d.requests
      /\ e.state.phase = "offered" /\ e.state.active_offer = id
      /\ e.state.depth = d.state.depth /\ e.state.speech = d.state.speech
      /\ e.state.control_epoch = d.state.control_epoch
      /\ e.state.decision_epoch = d.state.decision_epoch
  BY OfferFields
<1>2. /\ row.id = id /\ row.source = source /\ row.depth_mode = mode
      /\ row.previous_depth = d.state.depth /\ row.basis = d.state.speech
  OBVIOUS
<1>3. /\ d \in TableRows /\ IsFiniteSet(d.fallbacks) /\ OneEach(d) /\ NextCohortAtMost(d)
      /\ AllQueued(d) /\ \A i \in DOMAIN d.intents : d.intents[i].deferred_by = 0
  BY DEF Bare, Rows
<1> HIDE DEF e, id, row
<1>4. ASSUME NEW i \in DOMAIN d.requests
      PROVE  /\ e.requests[i].who = d.requests[i].who
             /\ Chosen(d, source, i) =>
                  e.requests[i].state = "offered" /\ e.requests[i].offer = id
             /\ ~Chosen(d, source, i) => e.requests[i].state = "queued"
  <2>1. /\ e.requests[i].who = d.requests[i].who
        /\ Chosen(d, source, i) =>
             e.requests[i].state = "offered" /\ e.requests[i].offer = id
        /\ ~Chosen(d, source, i) => e.requests[i] = d.requests[i]
    BY OfferFields DEF e, id
  <2>2. d.requests[i].state = "queued"
    BY <1>3 DEF AllQueued
  <2>3. QED
    BY <2>1, <2>2
<1>5. Rows(e)
  <2>1. OneEach(e)
    <3>1. DOMAIN e.requests = DOMAIN d.requests
      BY <1>1
    <3>2. QED
      BY <1>3, <1>4, <3>1 DEF OneEach
  <2>2. NextCohortAtMost(e)
    BY <1>1, <1>3 DEF NextCohortAtMost
  <2>3. QED
    BY <1>1, <1>3, <2>1, <2>2 DEF Rows
<1>6. Floor(e) /\ Basis(e)
  BY <1>1, <1>2 DEF Floor, Basis
<1>7. Deferrals(e)
  BY <1>1, <1>3 DEF Deferrals
<1>8. Depths(e)
  BY <1>1, <1>2, <1>3, StateTypes DEF Depths, Moderating
<1>9. Line(e)
  <2>1. CASE source[1] = "request"
    <3>1. HeadOffered(e, row)
      <4>1. 1 \in DOMAIN e.requests /\ d.requests[1].who = source[2]
        BY <1>1, <2>1
      <4>2. \A i \in DOMAIN d.requests : i # 1 => d.requests[i].who # source[2]
        BY <1>1, <1>3, <4>1 DEF OneEach
      <4>3. QED
        BY <1>1, <1>2, <1>4, <2>1, <4>1, <4>2 DEF HeadOffered, Chosen
    <3>2. QED
      BY <1>1, <1>2, <2>1, <3>1 DEF Line
  <2>2. CASE source[1] # "request"
    <3>1. DOMAIN e.requests = {}
      BY <1>1, <2>2
    <3>2. e.requests = << >>
      BY <1>1, <3>1, EmptyRows
    <3>3. QED
      BY <1>1, <1>2, <2>2, <3>2 DEF Line
  <2>3. QED
    BY <2>1, <2>2
<1>10. Blocks(e) /\ CohortOpen(e) /\ IdleIsIdle(e) /\ e.state.phase # "moderator_idle"
  BY <1>1 DEF Blocks, CohortOpen, IdleIsIdle, Moderating
<1>11. Inv(e)
  BY <1>5, <1>6, <1>7, <1>8, <1>9, <1>10 DEF Inv, Standing
<1>12. Moves(d, e)
  <2>1. d.state.control_epoch \in Nat /\ d.state.decision_epoch \in Nat
    BY <1>3, StateTypes
  <2>2. /\ e.state.control_epoch = d.state.control_epoch
        /\ e.state.decision_epoch = d.state.decision_epoch
        /\ e.state.phase = "offered"
    BY <1>1
  <2>3. QED
    BY <2>1, <2>2 DEF Moves, EpochsGrow, Moderating
<1>13. QED
  BY <1>1, <1>11, <1>12 DEF e

-----------------------------------------------------------------------------
(* Returning control.                                                      *)

(* Fallback looks at the Intents, what it offered before, and the number   *)
(* of the moderator's speeches in a row.                                   *)
LEMMA FallbackSame ==
  ASSUME NEW d, NEW e, e.intents = d.intents, e.fallbacks = d.fallbacks,
         e.state.consecutive = d.state.consecutive, NEW n
  PROVE  FallbackCandidates(e, n) = FallbackCandidates(d, n)
BY DEF FallbackCandidates, CohortIntents

(* A later cohort has nothing to add when every Intent is in this one.     *)
LEMMA FallbackLater ==
  ASSUME NEW d \in TableRows, NEW m \in Nat, NEW n \in Nat, m <= n,
         \A i \in DOMAIN d.intents : d.intents[i].eligible <= m
  PROVE  FallbackCandidates(d, n) = FallbackCandidates(d, m)
<1>1. \A i \in DOMAIN d.intents : d.intents[i].eligible \in Nat
  BY TableTypes DEF IntentRows
<1>2. CohortIntents(d, n) = CohortIntents(d, m)
  BY <1>1 DEF CohortIntents
<1>3. QED
  BY <1>2 DEF FallbackCandidates

(* A handoff row with its block or suppression lifted.                     *)
LEMMA LiftedRows ==
  ASSUME NEW h \in HandoffRows
  PROVE  /\ [h EXCEPT !.suppressed = FALSE] \in HandoffRows
         /\ [h EXCEPT !.suppressed = FALSE].blocked_by = h.blocked_by
         /\ [h EXCEPT !.suppressed = TRUE] \in HandoffRows
         /\ [h EXCEPT !.suppressed = TRUE].blocked_by = h.blocked_by
         /\ [h EXCEPT !.blocked_by = "none", !.suppressed = FALSE] \in HandoffRows
         /\ [h EXCEPT !.blocked_by = "none", !.suppressed = FALSE].blocked_by = "none"
BY DEF HandoffRows

(* Tables with other handoffs.                                             *)
LEMMA OtherHandoffs ==
  ASSUME NEW d \in TableRows, NEW H \in SUBSET HandoffRows, NEW e,
         e = [d EXCEPT !.handoffs = H]
  PROVE  /\ e \in TableRows /\ e.handoffs = H /\ e.state = d.state
         /\ e.intents = d.intents /\ e.requests = d.requests /\ e.offers = d.offers
         /\ e.grants = d.grants /\ e.fallbacks = d.fallbacks
BY DEF TableRows

LEMMA OtherState ==
  ASSUME NEW d \in TableRows, NEW s \in HumanStateRows, NEW e,
         e = [d EXCEPT !.state = s]
  PROVE  /\ e \in TableRows /\ e.state = s /\ e.handoffs = d.handoffs
         /\ e.intents = d.intents /\ e.requests = d.requests /\ e.offers = d.offers
         /\ e.grants = d.grants /\ e.fallbacks = d.fallbacks
BY DEF TableRows

LEMMA ClearedHandoffs ==
  ASSUME NEW d \in TableRows
  PROVE  LET e == ClearSuppression(d)
         IN  /\ e \in TableRows /\ e.state = d.state /\ e.intents = d.intents
             /\ e.requests = d.requests /\ e.offers = d.offers
             /\ e.grants = d.grants /\ e.fallbacks = d.fallbacks
             /\ \A B : (\A h \in d.handoffs : h.blocked_by # B)
                         => \A h \in e.handoffs : h.blocked_by # B
<1> DEFINE H == {[h EXCEPT !.suppressed = FALSE] : h \in d.handoffs}
           e == ClearSuppression(d)
<1>1. d.handoffs \subseteq HandoffRows
  BY TableTypes
<1>2. H \in SUBSET HandoffRows
  BY <1>1, LiftedRows
<1>3. e = [d EXCEPT !.handoffs = H]
  BY DEF ClearSuppression
<1>4. ASSUME NEW B, \A h \in d.handoffs : h.blocked_by # B, NEW k \in H
      PROVE  k.blocked_by # B
  <2>1. PICK h \in d.handoffs : k = [h EXCEPT !.suppressed = FALSE]
    OBVIOUS
  <2>2. k.blocked_by = h.blocked_by
    BY <1>1, <2>1, LiftedRows
  <2>3. QED
    BY <1>4, <2>2
<1> HIDE DEF H, e
<1>5. /\ e \in TableRows /\ e.handoffs = H /\ e.state = d.state
      /\ e.intents = d.intents /\ e.requests = d.requests /\ e.offers = d.offers
      /\ e.grants = d.grants /\ e.fallbacks = d.fallbacks
  BY <1>2, <1>3, OtherHandoffs
<1>6. QED
  BY <1>4, <1>5 DEF e

LEMMA ReleasedHandoffs ==
  ASSUME NEW d \in TableRows, d.requests = << >>
  PROVE  LET e == ReleaseHumanRequestBlocks(d)
         IN  /\ e \in TableRows /\ e.state = d.state /\ e.intents = d.intents
             /\ e.requests = d.requests /\ e.offers = d.offers
             /\ e.grants = d.grants /\ e.fallbacks = d.fallbacks
             /\ \A h \in e.handoffs : h.blocked_by # "human_request"
<1> DEFINE H == {IF h.blocked_by = "human_request"
                 THEN [h EXCEPT !.blocked_by = "none", !.suppressed = FALSE]
                 ELSE h : h \in d.handoffs}
           e == ReleaseHumanRequestBlocks(d)
<1>1. d.handoffs \subseteq HandoffRows
  BY TableTypes
<1>2. ASSUME NEW k \in H PROVE k \in HandoffRows /\ k.blocked_by # "human_request"
  <2>1. PICK h \in d.handoffs :
          k = IF h.blocked_by = "human_request"
              THEN [h EXCEPT !.blocked_by = "none", !.suppressed = FALSE] ELSE h
    OBVIOUS
  <2>2. CASE h.blocked_by = "human_request"
    BY <1>1, <2>1, <2>2, LiftedRows
  <2>3. CASE h.blocked_by # "human_request"
    BY <1>1, <2>1, <2>3
  <2>4. QED
    BY <2>2, <2>3
<1>3. e = [d EXCEPT !.handoffs = H]
  BY DEF ReleaseHumanRequestBlocks
<1> HIDE DEF H, e
<1>4. H \in SUBSET HandoffRows
  BY <1>2
<1>5. /\ e \in TableRows /\ e.handoffs = H /\ e.state = d.state
      /\ e.intents = d.intents /\ e.requests = d.requests /\ e.offers = d.offers
      /\ e.grants = d.grants /\ e.fallbacks = d.fallbacks
  BY <1>3, <1>4, OtherHandoffs
<1>6. QED
  BY <1>2, <1>5 DEF e

(* The state row when control is returned.                                 *)
LEMMA ReturnedState ==
  ASSUME NEW s \in HumanStateRows, NEW open \in BOOLEAN, NEW n \in Nat,
         NEW l \in {"none", "window"}
  PROVE  LET t == ControlReturned(s, open, n, l)
         IN  /\ t \in HumanStateRows
             /\ t.phase = IF open THEN "moderator_control" ELSE "moderator_idle"
             /\ t.depth = 0
             /\ t.control_epoch = s.control_epoch + 1 /\ t.decision_epoch = n
             /\ t.deadline = l /\ t.consecutive = s.consecutive
<1> DEFINE p == IF open THEN "moderator_control" ELSE "moderator_idle"
           k == s.control_epoch + 1
           t == [s EXCEPT !.phase = p, !.active_offer = 0, !.active_grant = 0, !.depth = 0,
                          !.forced_return = FALSE, !.decision_attempt = 0,
                          !.control_epoch = k, !.decision_epoch = n, !.deadline = l]
<1>1. 0 \in 0..MaxHandoffDepth
  BY ConfigAssumption
<1>2. p \in Phases /\ k \in Nat
  BY DEF HumanStateRows, Phases, Moderating
<1>3. ControlReturned(s, open, n, l) = t
  BY DEF ControlReturned
<1> HIDE DEF p, k
<1>4. /\ t.phase = p /\ t.depth = 0 /\ t.control_epoch = k /\ t.decision_epoch = n
      /\ t.deadline = l /\ t.consecutive = s.consecutive
  BY DEF HumanStateRows
<1>5. t \in HumanStateRows
  BY <1>1, <1>2 DEF HumanStateRows
<1> HIDE DEF t
<1>6. QED
  BY <1>3, <1>4, <1>5 DEF p, k

LEMMA ControlBare ==
  ASSUME NEW d, Bare(d), d.requests = << >>
  PROVE  LET e == ReturnControl(d)
         IN  /\ Inv(e) /\ Moves(d, e) /\ e.state.phase \in Moderating
             /\ e.intents = d.intents /\ e.requests = d.requests
             /\ e.offers = {} /\ e.grants = {} /\ e.fallbacks = d.fallbacks
<1> DEFINE r == ReleaseHumanRequestBlocks(d)
           next == d.state.decision_epoch + 1
           hasIntent == FallbackCandidates(r, next) # {}
           hasHandoff == CohortHandoffs(r, next) # {}
           running == d.state.active_attempt
           deadline == IF hasIntent \/ (hasHandoff /\ running) THEN "window"
                       ELSE IF running THEN "attempt" ELSE "none"
           epoch == IF hasIntent \/ hasHandoff THEN next ELSE d.state.decision_epoch
           c == IF hasIntent THEN ClearSuppression(r) ELSE r
           st == ControlReturned(c.state, hasIntent, epoch, deadline)
           e == ReturnControl(d)
<1>0. e = [c EXCEPT !.state = st]
  BY DEF ReturnControl
<1>1. /\ d \in TableRows /\ IsFiniteSet(d.fallbacks) /\ OneEach(d) /\ NextCohortAtMost(d)
      /\ d.offers = {} /\ d.grants = {}
      /\ \A i \in DOMAIN d.intents : d.intents[i].deferred_by = 0
  BY DEF Bare, Rows
<1>2. /\ r \in TableRows /\ r.state = d.state /\ r.intents = d.intents
      /\ r.requests = d.requests /\ r.offers = d.offers
      /\ r.grants = d.grants /\ r.fallbacks = d.fallbacks
      /\ \A h \in r.handoffs : h.blocked_by # "human_request"
  BY <1>1, ReleasedHandoffs
<1>3. hasIntent \in BOOLEAN
  OBVIOUS
<1> HIDE DEF r, hasIntent, hasHandoff, e
<1>4. /\ c \in TableRows /\ c.state = d.state /\ c.intents = d.intents
      /\ c.requests = d.requests /\ c.offers = d.offers
      /\ c.grants = d.grants /\ c.fallbacks = d.fallbacks
      /\ \A h \in c.handoffs : h.blocked_by # "human_request"
  <2>1. CASE hasIntent
    <3>1. c = ClearSuppression(r)
      BY <2>1
    <3>2. QED
      BY <1>2, <3>1, ClearedHandoffs
  <2>2. CASE ~hasIntent
    BY <1>2, <2>2
  <2>3. QED
    BY <2>1, <2>2
<1>5. /\ d.state \in HumanStateRows /\ d.state.decision_epoch \in Nat
      /\ d.state.control_epoch \in Nat /\ running = FALSE
  BY <1>1, TableTypes, StateTypes
<1> HIDE DEF c
<1>6. deadline = (IF hasIntent THEN "window" ELSE "none") /\ epoch \in Nat
  BY <1>5
<1>7. /\ st \in HumanStateRows
      /\ st.phase = IF hasIntent THEN "moderator_control" ELSE "moderator_idle"
      /\ st.depth = 0
      /\ st.control_epoch = d.state.control_epoch + 1
      /\ st.decision_epoch = epoch
      /\ st.deadline = IF hasIntent THEN "window" ELSE "none"
      /\ st.consecutive = d.state.consecutive
  <2>1. deadline \in {"none", "window"} /\ c.state \in HumanStateRows
    BY <1>4, <1>5, <1>6
  <2> HIDE DEF deadline, epoch
  <2>2. /\ st \in HumanStateRows
        /\ st.phase = IF hasIntent THEN "moderator_control" ELSE "moderator_idle"
        /\ st.depth = 0
        /\ st.control_epoch = c.state.control_epoch + 1
        /\ st.decision_epoch = epoch
        /\ st.deadline = deadline /\ st.consecutive = c.state.consecutive
    BY <1>3, <1>6, <2>1, ReturnedState
  <2>3. QED
    BY <1>4, <1>6, <2>2
<1> HIDE DEF st
<1>8. /\ e \in TableRows /\ e.state = st /\ e.handoffs = c.handoffs
      /\ e.intents = d.intents /\ e.requests = d.requests /\ e.offers = {}
      /\ e.grants = {} /\ e.fallbacks = d.fallbacks
  BY <1>0, <1>1, <1>4, <1>7, OtherState
<1>9. /\ e.state.phase \in Moderating /\ e.state.phase \notin {"offered", "granted"}
      /\ e.state.depth = 0 /\ e.state.control_epoch = d.state.control_epoch + 1
      /\ e.state.decision_epoch \in {d.state.decision_epoch, next}
      /\ e.state.phase = "moderator_control" => e.state.decision_epoch = next
      /\ e.state.phase = "moderator_idle" => e.state.deadline = "none" /\ ~hasIntent
      /\ e.state.consecutive = d.state.consecutive
  BY <1>7, <1>8 DEF Moderating
<1>10. \A i \in DOMAIN d.intents : d.intents[i].eligible <= next /\ d.intents[i].eligible \in Nat
  BY <1>1, TableTypes DEF NextCohortAtMost, IntentRows
<1>11. Rows(e)
  <2>1. OneEach(e)
    BY <1>1, <1>8 DEF OneEach
  <2>2. NextCohortAtMost(e)
    BY <1>5, <1>8, <1>9, <1>10 DEF NextCohortAtMost
  <2>3. QED
    BY <1>1, <1>8, <2>1, <2>2 DEF Rows
<1>12. Floor(e) /\ Basis(e) /\ Deferrals(e) /\ Depths(e) /\ Line(e)
  BY <1>1, <1>8, <1>9 DEF Floor, Basis, Deferrals, Depths, Line
<1>13. Blocks(e)
  BY <1>4, <1>8 DEF Blocks
<1>14. CohortOpen(e)
  BY <1>8, <1>9, <1>10 DEF CohortOpen
<1>15. IdleIsIdle(e)
  <2>1. CASE e.state.phase = "moderator_idle"
    <3>1. FallbackCandidates(r, next) = {} /\ e.state.deadline = "none"
      BY <1>9, <2>1 DEF hasIntent
    <3>2. FallbackCandidates(e, next) = FallbackCandidates(r, next)
      BY <1>2, <1>8, <1>9, FallbackSame
    <3>3. next \in Nat /\ e.state.decision_epoch + 1 \in Nat /\ next <= e.state.decision_epoch + 1
      BY <1>5, <1>9
    <3>4. FallbackCandidates(e, e.state.decision_epoch + 1) = FallbackCandidates(e, next)
      BY <1>8, <1>10, <3>3, FallbackLater
    <3>5. QED
      BY <3>1, <3>2, <3>4 DEF IdleIsIdle
  <2>2. QED
    BY <2>1 DEF IdleIsIdle
<1>16. Inv(e)
  BY <1>9, <1>11, <1>12, <1>13, <1>14, <1>15 DEF Inv, Standing
<1>17. Moves(d, e)
  BY <1>5, <1>9 DEF Moves, EpochsGrow
<1>18. QED
  BY <1>8, <1>9, <1>16, <1>17 DEF e

-----------------------------------------------------------------------------
(* Where the floor goes.                                                   *)

LEMMA RequestOffered ==
  ASSUME NEW d, Bare(d), Queued(d) # {}
  PROVE  LET e == OfferHumanRequest(d)
         IN  Inv(e) /\ Moves(d, e) /\ e.state.phase = "offered"
<1> DEFINE who == d.requests[1].who
           source == <<"request", who, 0>>
           e == OfferHumanRequest(d)
<1>1. d \in TableRows /\ AllQueued(d)
  BY DEF Bare, Rows
<1>2. /\ Len(d.requests) \in Nat /\ DOMAIN d.requests = 1..Len(d.requests)
      /\ \A i \in DOMAIN d.requests : d.requests[i] \in RequestRows
  BY <1>1, TableTypes
<1>3. Queued(d) = DOMAIN d.requests
  BY <1>1 DEF Queued, AllQueued
<1>4. Queued(d) \in SUBSET Nat /\ 1 \in Queued(d)
  BY <1>2, <1>3
<1>5. Min(Queued(d)) \in Queued(d) /\ Min(Queued(d)) <= 1
  BY <1>4, MinExists
<1>6. Min(Queued(d)) = 1
  BY <1>2, <1>3, <1>5
<1>7. e = MakeOffer(d, who, source, "preserve")
  BY <1>6 DEF OfferHumanRequest
<1>8. who \in Humans /\ 1 \in DOMAIN d.requests
  BY <1>2, <1>3, <1>4 DEF RequestRows
<1>9. source \in Source /\ who \in Participants
  BY <1>8 DEF Source, Participants
<1>10. source[1] = "request" /\ source[2] = d.requests[1].who
  OBVIOUS
<1>11. "preserve" \in DepthModes /\ "preserve" # "increment_provisional"
  BY DEF DepthModes
<1> HIDE DEF source, who, e
<1>12. QED
  BY <1>7, <1>8, <1>9, <1>10, <1>11, OfferBare DEF e

LEMMA NobodyQueued ==
  ASSUME NEW d, Bare(d), Queued(d) = {}
  PROVE  d.requests = << >>
<1>1. d \in TableRows /\ AllQueued(d)
  BY DEF Bare, Rows
<1>2. DOMAIN d.requests = {}
  BY <1>1 DEF Queued, AllQueued
<1>3. QED
  BY <1>1, <1>2, TableTypes, EmptyRows

LEMMA NextFloorBare ==
  ASSUME NEW d, Bare(d)
  PROVE  LET e == NextFloor(d) IN Inv(e) /\ Moves(d, e)
<1>1. CASE Queued(d) # {}
  BY <1>1, RequestOffered DEF NextFloor
<1>2. CASE Queued(d) = {}
  BY <1>2, NobodyQueued, ControlBare DEF NextFloor
<1>3. QED
  BY <1>1, <1>2

(* The deferrals of an Offer or Grant are released.                        *)
LEMMA ReleasedIntents ==
  ASSUME NEW d \in TableRows, NEW n
  PROVE  LET e == ReleaseDeferrals(d, n)
         IN  /\ e \in TableRows /\ e.state = d.state /\ e.requests = d.requests
             /\ e.handoffs = d.handoffs /\ e.offers = d.offers /\ e.grants = d.grants
             /\ e.fallbacks = d.fallbacks /\ DOMAIN e.intents = DOMAIN d.intents
             /\ \A i \in DOMAIN d.intents :
                  /\ e.intents[i].eligible = d.intents[i].eligible
                  /\ d.intents[i].deferred_by \in {0, n} => e.intents[i].deferred_by = 0
<1> DEFINE e == ReleaseDeferrals(d, n)
           I == [i \in DOMAIN d.intents |->
                   IF d.intents[i].deferred_by = n
                   THEN [d.intents[i] EXCEPT !.deferred_by = 0] ELSE d.intents[i]]
<1>1. e = [d EXCEPT !.intents = I]
  BY DEF ReleaseDeferrals
<1>2. ASSUME NEW i \in DOMAIN d.intents
      PROVE  /\ I[i] \in IntentRows /\ I[i].eligible = d.intents[i].eligible
             /\ d.intents[i].deferred_by \in {0, n} => I[i].deferred_by = 0
  <2>1. d.intents[i] \in IntentRows
    BY TableTypes
  <2>2. CASE d.intents[i].deferred_by = n
    <3>1. I[i] = [d.intents[i] EXCEPT !.deferred_by = 0]
      BY <2>2
    <3>2. QED
      BY <2>1, <3>1 DEF IntentRows
  <2>3. CASE d.intents[i].deferred_by # n
    BY <2>1, <2>3
  <2>4. QED
    BY <2>2, <2>3
<1>3. I \in Seq(IntentRows) /\ DOMAIN I = DOMAIN d.intents
  <2>1. Len(d.intents) \in Nat /\ DOMAIN d.intents = 1..Len(d.intents)
    BY TableTypes
  <2>2. I \in [1..Len(d.intents) -> IntentRows]
    BY <1>2, <2>1
  <2> HIDE DEF I
  <2>3. QED
    BY <2>1, <2>2
<1> HIDE DEF I, e
<1>4. /\ e \in TableRows /\ e.intents = I /\ e.state = d.state /\ e.requests = d.requests
      /\ e.handoffs = d.handoffs /\ e.offers = d.offers /\ e.grants = d.grants
      /\ e.fallbacks = d.fallbacks
  BY <1>1, <1>3 DEF TableRows
<1>5. QED
  BY <1>2, <1>3, <1>4 DEF e

-----------------------------------------------------------------------------
(* An Offer or a Grant is over.                                            *)

(* The tables once the Offer, or the Grant, has failed.                    *)
OfferGone(d, outcome) ==
  LET o == ActiveOffer(d)
      r == ReleaseDeferrals([d EXCEPT !.offers = @ \ {o}], o.id)
      ends == outcome \in {"declined", "timed_out", "source_withdrawn"}
      left == IF ends THEN Without(r.requests, Mine(r, o))
              ELSE [i \in DOMAIN r.requests |->
                      IF i \in Mine(r, o)
                      THEN [r.requests[i] EXCEPT !.state = "queued", !.offer = 0]
                      ELSE r.requests[i]]
  IN [r EXCEPT !.requests = left]

GrantGone(d) ==
  LET g == ActiveGrant(d)
      r == ReleaseDeferrals([d EXCEPT !.grants = @ \ {g}], g.offer)
  IN IF g.depth_mode = "increment_provisional"
     THEN [r EXCEPT !.state.depth = g.previous_depth] ELSE r

(* The Offer the state row names is the one there is.                      *)
LEMMA TheOffer ==
  ASSUME NEW d, d \in TableRows, Floor(d), d.state.phase = "offered"
  PROVE  LET o == ActiveOffer(d)
         IN  /\ o \in OfferRows /\ d.offers = {o} /\ o.id = d.state.active_offer
             /\ d.grants = {}
<1>1. PICK o \in d.offers : d.offers = {o} /\ o.id = d.state.active_offer
  BY DEF Floor
<1>2. ActiveOffer(d) = o
  BY <1>1 DEF ActiveOffer
<1>3. d.grants = {} /\ o \in OfferRows
  BY TableTypes DEF Floor
<1>4. QED
  BY <1>1, <1>2, <1>3

LEMMA TheGrant ==
  ASSUME NEW d, d \in TableRows, Floor(d), d.state.phase = "granted"
  PROVE  LET g == ActiveGrant(d)
         IN  /\ g \in GrantRows /\ d.grants = {g} /\ g.offer = d.state.active_grant
             /\ d.offers = {}
<1>1. PICK g \in d.grants : d.grants = {g} /\ g.offer = d.state.active_grant
  BY DEF Floor
<1>2. ActiveGrant(d) = g
  BY <1>1 DEF ActiveGrant
<1>3. d.offers = {} /\ g \in GrantRows
  BY TableTypes DEF Floor
<1>4. QED
  BY <1>1, <1>2, <1>3

(* Dropping one row keeps the order and the rest.                          *)
Dropped(s, q, k) ==
  /\ s \in Seq(RequestRows)
  /\ \A i, j \in DOMAIN s : s[i].who = s[j].who => i = j
  /\ \A i \in DOMAIN s : \E j \in DOMAIN q :
       j # k /\ s[i] = q[j] /\ (i < k => j = i)
  /\ \A i \in DOMAIN q : i < k => i \in DOMAIN s /\ s[i] = q[i]

LEMMA RequestDropped ==
  ASSUME NEW d, d \in TableRows, OneEach(d), NEW k \in DOMAIN d.requests
  PROVE  Dropped(RemoveAt(d.requests, k), d.requests, k)
<1> DEFINE q == d.requests
           s == RemoveAt(q, k)
<1>1. q \in Seq(RequestRows) /\ Len(q) \in Nat /\ DOMAIN q = 1..Len(q)
  BY TableTypes
<1>2. \A i, j \in DOMAIN q : q[i].who = q[j].who => i = j
  BY DEF OneEach
<1> HIDE DEF q
<1>3. /\ s \in Seq(RequestRows) /\ DOMAIN s = 1..Len(q) - 1
      /\ \A j \in 1..Len(q) - 1 : s[j] = IF j < k THEN q[j] ELSE q[j + 1]
  BY <1>1, RemoveAtIs DEF q
<1> HIDE DEF s
<1> DEFINE from(i) == IF i < k THEN i ELSE i + 1
<1>4. k \in 1..Len(q)
  BY <1>1 DEF q
<1>5. ASSUME NEW i \in DOMAIN s
      PROVE  /\ from(i) \in DOMAIN q /\ s[i] = q[from(i)] /\ from(i) # k
             /\ i < k => from(i) = i
  BY <1>1, <1>3, <1>4
<1>6. ASSUME NEW i \in DOMAIN s, NEW j \in DOMAIN s, s[i].who = s[j].who PROVE i = j
  <2>1. from(i) = from(j)
    BY <1>2, <1>5, <1>6
  <2>2. i \in Nat /\ j \in Nat
    BY <1>1, <1>3
  <2>3. QED
    BY <1>4, <2>1, <2>2
<1>7. \A i \in DOMAIN q : i < k => i \in DOMAIN s /\ s[i] = q[i]
  BY <1>1, <1>3, <1>4
<1>8. \A i \in DOMAIN s : \E j \in DOMAIN q : j # k /\ s[i] = q[j] /\ (i < k => j = i)
  BY <1>5
<1>9. QED
  BY <1>3, <1>6, <1>7, <1>8 DEF Dropped, q, s

(* Once the Offer has failed nothing is offered or deferred, and every     *)
(* Request is queued: the one it was made from ends with it.               *)
LEMMA OfferGoneIsBare ==
  ASSUME NEW d, Rows(d), Floor(d), Deferrals(d), d.state.phase = "offered", NEW outcome,
         ActiveOffer(d).source[1] = "request" =>
           /\ HeadOffered(d, ActiveOffer(d))
           /\ outcome \in {"declined", "timed_out", "source_withdrawn"},
         ActiveOffer(d).source[1] # "request" => AllQueued(d)
  PROVE  LET e == OfferGone(d, outcome)
         IN  /\ Bare(e) /\ e.state = d.state
             /\ DOMAIN e.intents = DOMAIN d.intents
             /\ \A i \in DOMAIN d.intents : e.intents[i].eligible = d.intents[i].eligible
             /\ ActiveOffer(d).source[1] # "request" /\ d.requests = << >>
                  => e.requests = << >>
<1> DEFINE o == ActiveOffer(d)
           x == [d EXCEPT !.offers = @ \ {o}]
           r == ReleaseDeferrals(x, o.id)
           ends == outcome \in {"declined", "timed_out", "source_withdrawn"}
           left == IF ends THEN Without(r.requests, Mine(r, o))
                   ELSE [i \in DOMAIN r.requests |->
                           IF i \in Mine(r, o)
                           THEN [r.requests[i] EXCEPT !.state = "queued", !.offer = 0]
                           ELSE r.requests[i]]
           e == OfferGone(d, outcome)
<1>1. d \in TableRows /\ IsFiniteSet(d.fallbacks) /\ OneEach(d) /\ NextCohortAtMost(d)
  BY DEF Rows
<1>2. /\ o \in OfferRows /\ d.offers = {o} /\ o.id = d.state.active_offer
      /\ d.grants = {}
  BY <1>1, TheOffer
<1>3. e = [r EXCEPT !.requests = left]
  BY DEF OfferGone
<1> HIDE DEF o, e
<1>4. /\ x \in TableRows /\ x.offers = {} /\ x.grants = {} /\ x.state = d.state
      /\ x.intents = d.intents /\ x.requests = d.requests /\ x.fallbacks = d.fallbacks
  BY <1>1, <1>2 DEF TableRows
<1> HIDE DEF x
<1>5. /\ r \in TableRows /\ r.offers = {} /\ r.grants = {} /\ r.state = d.state
      /\ r.requests = d.requests /\ r.fallbacks = d.fallbacks
      /\ DOMAIN r.intents = DOMAIN d.intents
      /\ \A i \in DOMAIN d.intents :
           /\ r.intents[i].eligible = d.intents[i].eligible
           /\ d.intents[i].deferred_by \in {0, o.id} => r.intents[i].deferred_by = 0
  BY <1>4, ReleasedIntents
<1> HIDE DEF r
<1>6. \A i \in DOMAIN d.intents : d.intents[i].deferred_by \in {0, o.id}
  BY <1>2 DEF Deferrals
<1>7. /\ left \in Seq(RequestRows)
      /\ \A i \in DOMAIN left : left[i].state = "queued"
      /\ \A i, j \in DOMAIN left : left[i].who = left[j].who => i = j
      /\ o.source[1] # "request" /\ d.requests = << >> => left = << >>
  <2>1. CASE o.source[1] = "request"
    <3>1. HeadOffered(d, o) /\ ends
      BY <2>1 DEF o
    <3>2. Mine(r, o) = {1}
      BY <1>1, <1>5, <2>1, <3>1 DEF Mine, RequestsBy, HeadOffered, OneEach
    <3>3. left = RemoveAt(d.requests, 1)
      BY <1>5, <3>1, <3>2 DEF Without
    <3>4. 1 \in DOMAIN d.requests
          /\ \A i \in DOMAIN d.requests : i # 1 => d.requests[i].state = "queued"
      BY <3>1 DEF HeadOffered
    <3> HIDE DEF left
    <3>5. /\ left \in Seq(RequestRows)
          /\ \A i, j \in DOMAIN left : left[i].who = left[j].who => i = j
          /\ \A i \in DOMAIN left : \E j \in DOMAIN d.requests :
               j # 1 /\ left[i] = d.requests[j]
      <4>1. Dropped(left, d.requests, 1)
        BY <1>1, <3>3, <3>4, RequestDropped
      <4>2. QED
        BY <4>1 DEF Dropped
    <3>6. \A i \in DOMAIN left : left[i].state = "queued"
      BY <3>4, <3>5
    <3>7. QED
      BY <2>1, <3>5, <3>6
  <2>2. CASE o.source[1] # "request"
    <3>1. Mine(r, o) = {}
      BY <2>2 DEF Mine
    <3>2. AllQueued(d)
      BY <2>2 DEF o
    <3>3. /\ d.requests \in Seq(RequestRows) /\ Len(d.requests) \in Nat
          /\ DOMAIN d.requests = 1..Len(d.requests)
          /\ \A i \in DOMAIN d.requests : d.requests[i] \in RequestRows
      BY <1>1, TableTypes
    <3>4. DOMAIN left = DOMAIN d.requests /\ \A i \in DOMAIN d.requests : left[i] = d.requests[i]
      BY <1>5, <3>1 DEF Without
    <3>5. left \in Seq(RequestRows)
      <4>1. CASE ends
        BY <1>5, <3>1, <3>3, <4>1 DEF Without
      <4>2. CASE ~ends
        <5>1. left \in [1..Len(d.requests) -> RequestRows]
          BY <1>5, <3>1, <3>3, <4>2
        <5> HIDE DEF left
        <5>2. QED
          BY <3>3, <5>1
      <4>3. QED
        BY <4>1, <4>2
    <3> HIDE DEF left
    <3>6. d.requests = << >> => left = << >>
      BY <3>4, <3>5, EmptyRows
    <3>7. QED
      BY <1>1, <3>2, <3>4, <3>5, <3>6 DEF AllQueued, OneEach
  <2>3. QED
    BY <2>1, <2>2
<1> HIDE DEF left
<1>8. /\ e \in TableRows /\ e.requests = left /\ e.offers = {} /\ e.grants = {}
      /\ e.state = d.state /\ e.intents = r.intents /\ e.fallbacks = d.fallbacks
  BY <1>3, <1>5, <1>7 DEF TableRows
<1>9. Rows(e)
  BY <1>1, <1>5, <1>7, <1>8 DEF Rows, OneEach, NextCohortAtMost
<1>10. Bare(e)
  BY <1>5, <1>6, <1>7, <1>8, <1>9 DEF Bare, AllQueued
<1>11. QED
  BY <1>5, <1>7, <1>8, <1>10 DEF e, o

LEMMA OfferFails ==
  ASSUME NEW d, Rows(d), Floor(d), Deferrals(d), d.state.phase = "offered", NEW outcome,
         ActiveOffer(d).source[1] = "request" =>
           /\ HeadOffered(d, ActiveOffer(d))
           /\ outcome \in {"declined", "timed_out", "source_withdrawn"},
         ActiveOffer(d).source[1] # "request" => AllQueued(d)
  PROVE  LET e == FailActiveOffer(d, outcome) IN Inv(e) /\ Moves(d, e)
<1> DEFINE b == OfferGone(d, outcome)
           e == FailActiveOffer(d, outcome)
<1>1. e = NextFloor(b)
  BY DEF FailActiveOffer, OfferGone
<1>2. Bare(b) /\ b.state = d.state
  BY OfferGoneIsBare
<1> HIDE DEF b, e
<1>3. Inv(e) /\ Moves(b, e)
  BY <1>1, <1>2, NextFloorBare
<1>4. QED
  BY <1>2, <1>3 DEF Moves, EpochsGrow, e

(* The same for a Grant; a provisional depth is given back.                *)
LEMMA GrantGoneIsBare ==
  ASSUME NEW d, Standing(d), d.state.phase = "granted"
  PROVE  LET e == GrantGone(d)
         IN  /\ Bare(e)
             /\ e.state.control_epoch = d.state.control_epoch
             /\ e.state.decision_epoch = d.state.decision_epoch
<1> DEFINE g == ActiveGrant(d)
           x == [d EXCEPT !.grants = @ \ {g}]
           r == ReleaseDeferrals(x, g.offer)
           e == GrantGone(d)
<1>1. /\ d \in TableRows /\ IsFiniteSet(d.fallbacks) /\ OneEach(d) /\ NextCohortAtMost(d)
      /\ Floor(d) /\ Deferrals(d) /\ Line(d) /\ Depths(d)
  BY DEF Standing, Rows
<1>2. /\ g \in GrantRows /\ d.grants = {g} /\ g.offer = d.state.active_grant
      /\ d.offers = {}
  BY <1>1, TheGrant
<1>3. e = IF g.depth_mode = "increment_provisional"
          THEN [r EXCEPT !.state.depth = g.previous_depth] ELSE r
  BY DEF GrantGone
<1>4. g.previous_depth \in 0..MaxHandoffDepth
  BY <1>1, <1>2, ConfigAssumption DEF Depths, GrantRows
<1> HIDE DEF g, e
<1>5. /\ x \in TableRows /\ x.offers = {} /\ x.grants = {} /\ x.state = d.state
      /\ x.intents = d.intents /\ x.requests = d.requests /\ x.fallbacks = d.fallbacks
  BY <1>1, <1>2 DEF TableRows
<1> HIDE DEF x
<1>6. /\ r \in TableRows /\ r.offers = {} /\ r.grants = {} /\ r.state = d.state
      /\ r.requests = d.requests /\ r.fallbacks = d.fallbacks
      /\ DOMAIN r.intents = DOMAIN d.intents
      /\ \A i \in DOMAIN d.intents :
           /\ r.intents[i].eligible = d.intents[i].eligible
           /\ d.intents[i].deferred_by \in {0, g.offer} => r.intents[i].deferred_by = 0
  BY <1>5, ReleasedIntents
<1> HIDE DEF r
<1>7. \A i \in DOMAIN d.intents : d.intents[i].deferred_by \in {0, g.offer}
  BY <1>1, <1>2 DEF Deferrals
<1>8. AllQueued(d)
  BY <1>1 DEF Line
<1>9. /\ e \in TableRows /\ e.offers = {} /\ e.grants = {} /\ e.requests = d.requests
      /\ e.fallbacks = d.fallbacks /\ e.intents = r.intents
      /\ e.state.control_epoch = d.state.control_epoch
      /\ e.state.decision_epoch = d.state.decision_epoch
  <2>1. CASE g.depth_mode = "increment_provisional"
    <3> DEFINE st == [r.state EXCEPT !.depth = g.previous_depth]
    <3>1. r.state \in HumanStateRows
      BY <1>6, TableTypes
    <3>2. /\ st \in HumanStateRows /\ st.control_epoch = d.state.control_epoch
          /\ st.decision_epoch = d.state.decision_epoch
      BY <1>4, <1>6, <3>1 DEF HumanStateRows
    <3>3. e = [r EXCEPT !.state = st]
      BY <1>3, <2>1
    <3> HIDE DEF st
    <3>4. QED
      BY <1>6, <3>2, <3>3, OtherState
  <2>2. CASE g.depth_mode # "increment_provisional"
    BY <1>3, <1>6, <2>2
  <2>3. QED
    BY <2>1, <2>2
<1>10. Rows(e)
  BY <1>1, <1>6, <1>9 DEF Rows, OneEach, NextCohortAtMost
<1>11. Bare(e)
  BY <1>6, <1>7, <1>8, <1>9, <1>10 DEF Bare, AllQueued
<1>12. QED
  BY <1>9, <1>11 DEF e

LEMMA GrantFails ==
  ASSUME NEW d, Standing(d), d.state.phase = "granted"
  PROVE  LET e == FailActiveGrant(d) IN Inv(e) /\ Moves(d, e)
<1> DEFINE b == GrantGone(d)
           e == FailActiveGrant(d)
<1>1. e = NextFloor(b)
  BY DEF FailActiveGrant, GrantGone
<1>2. /\ Bare(b) /\ b.state.control_epoch = d.state.control_epoch
      /\ b.state.decision_epoch = d.state.decision_epoch
  BY GrantGoneIsBare
<1> HIDE DEF b, e
<1>3. Inv(e) /\ Moves(b, e)
  BY <1>1, <1>2, NextFloorBare
<1>4. QED
  BY <1>2, <1>3 DEF Moves, EpochsGrow, e

-----------------------------------------------------------------------------
(* Windows and fallback.                                                   *)

(* Tables that agree on who has the floor and who waits.                   *)
SameFloor(d, e) ==
  /\ e.state.phase = d.state.phase
  /\ e.state.active_offer = d.state.active_offer
  /\ e.state.active_grant = d.state.active_grant
  /\ e.state.depth = d.state.depth /\ e.state.speech = d.state.speech
  /\ e.offers = d.offers /\ e.grants = d.grants /\ e.requests = d.requests

(* While the floor is held the other tables may change.                    *)
LEMMA HeldEdit ==
  ASSUME NEW d, Standing(d), d.state.phase \in {"offered", "granted"},
         NEW e, e \in TableRows, IsFiniteSet(e.fallbacks), SameFloor(d, e),
         NextCohortAtMost(e), Deferrals(e)
  PROVE  Inv(e)
<1>1. /\ OneEach(d) /\ Floor(d) /\ Basis(d) /\ Depths(d) /\ Line(d)
  BY DEF Standing, Rows
<1>2. Rows(e)
  BY <1>1 DEF Rows, OneEach, SameFloor
<1>3. Floor(e) /\ Basis(e)
  BY <1>1 DEF Floor, Basis, SameFloor
<1>4. Depths(e)
  BY <1>1 DEF Depths, SameFloor, Moderating
<1>5. Line(e)
  BY <1>1 DEF Line, SameFloor, HeadOffered, AllQueued
<1>6. Blocks(e) /\ CohortOpen(e) /\ IdleIsIdle(e) /\ e.state.phase # "moderator_idle"
  BY DEF Blocks, CohortOpen, IdleIsIdle, SameFloor, Moderating
<1>7. QED
  BY <1>2, <1>3, <1>4, <1>5, <1>6 DEF Inv, Standing

(* With the moderator the tables are bare.                                 *)
LEMMA ModeratingIsBare ==
  ASSUME NEW d, Standing(d), d.state.phase \in Moderating
  PROVE  Bare(d) /\ d.requests = << >> /\ d.state.depth = 0
<1>1. Rows(d) /\ Floor(d) /\ Deferrals(d) /\ Line(d) /\ Depths(d)
  BY DEF Standing
<1>2. d.state.phase \notin {"offered", "granted"}
  BY DEF Moderating
<1>3. d.requests = << >> /\ d.offers = {} /\ d.grants = {} /\ d.state.depth = 0
  BY <1>1, <1>2 DEF Line, Floor, Depths
<1>4. \A i \in DOMAIN d.intents : d.intents[i].deferred_by = 0
  BY <1>1, <1>2 DEF Deferrals
<1>5. AllQueued(d)
  BY <1>3 DEF AllQueued
<1>6. QED
  BY <1>1, <1>3, <1>4, <1>5 DEF Bare

(* An Intent that fallback may offer.                                      *)
LEMMA CandidateIs ==
  ASSUME NEW d \in TableRows, NEW n, FallbackCandidates(d, n) # {}
  PROVE  /\ FallbackCandidate(d, n) \in IntentRows
         /\ \E i \in FallbackCandidates(d, n) : FallbackCandidate(d, n) = d.intents[i]
<1> DEFINE A == FallbackCandidates(d, n)
           own == {i \in A : d.intents[i].author = Moderator}
           S == IF own # {} THEN own ELSE A
<1>1. A \subseteq DOMAIN d.intents
  BY DEF FallbackCandidates, CohortIntents
<1>2. /\ DOMAIN d.intents \subseteq Nat
      /\ \A i \in DOMAIN d.intents : d.intents[i] \in IntentRows
  BY TableTypes
<1>3. S \in SUBSET Nat /\ S # {} /\ S \subseteq A
  BY <1>1, <1>2
<1>4. FallbackCandidate(d, n) = d.intents[Min(S)]
  BY DEF FallbackCandidate
<1> HIDE DEF A, S
<1>5. Min(S) \in S
  BY <1>3, MinExists
<1>6. QED
  BY <1>1, <1>2, <1>3, <1>4, <1>5 DEF A

LEMMA FallbackStands ==
  ASSUME NEW d, Standing(d), d.state.phase = "moderator_control"
  PROVE  LET e == FallbackOrIdle(d, d.state.decision_epoch)
         IN  Inv(e) /\ EpochsGrow(d, e) /\ e.state.phase # "granted"
<1> DEFINE n == d.state.decision_epoch
           e == FallbackOrIdle(d, n)
<1>1. /\ Bare(d) /\ d.requests = << >> /\ d.state.depth = 0 /\ d \in TableRows
      /\ IsFiniteSet(d.fallbacks) /\ n \in Nat /\ d.state.control_epoch \in Nat
      /\ CohortOpen(d)
  BY ModeratingIsBare, StateTypes DEF Moderating, Standing, Rows
<1>2. CASE FallbackCandidates(d, n) # {}
  <2> DEFINE i == FallbackCandidate(d, n)
             source == <<"intent", i.author, i.version>>
             o == MakeOffer(d, i.author, source, "reset")
             st == [o.state EXCEPT !.active_attempt = FALSE]
             F == o.fallbacks \cup {<<i.author, i.version>>}
  <2>1. i \in IntentRows
    BY <1>1, <1>2, CandidateIs
  <2>2. i.author \in Participants /\ i.version \in Nat
    BY <2>1 DEF IntentRows
  <2>3. e = [o EXCEPT !.fallbacks = F, !.state = st]
    BY <1>2 DEF FallbackOrIdle
  <2> HIDE DEF i, e
  <2>4. source \in Source /\ source[1] # "request" /\ "reset" \in DepthModes
    BY <2>2 DEF Source, DepthModes
  <2>5. Inv(o) /\ Moves(d, o) /\ o.state.phase = "offered"
    BY <1>1, <2>2, <2>4, OfferBare
  <2>6. o.fallbacks = d.fallbacks
    BY <1>1, <2>2, <2>4, OfferFields
  <2> HIDE DEF o
  <2>7. o \in TableRows /\ Standing(o) /\ NextCohortAtMost(o) /\ Deferrals(o)
    BY <2>5 DEF Inv, Standing, Rows
  <2>8. /\ st \in HumanStateRows /\ st.phase = o.state.phase
        /\ st.active_offer = o.state.active_offer /\ st.active_grant = o.state.active_grant
        /\ st.depth = o.state.depth /\ st.speech = o.state.speech
        /\ st.control_epoch = o.state.control_epoch
        /\ st.decision_epoch = o.state.decision_epoch
    <3>1. o.state \in HumanStateRows
      BY <2>7, TableTypes
    <3>2. QED
      BY <3>1 DEF HumanStateRows
  <2>9. F \subseteq Participants \X Nat /\ IsFiniteSet(F)
    <3>1. o.fallbacks \subseteq Participants \X Nat
      BY <2>7, TableTypes
    <3>2. IsFiniteSet(o.fallbacks)
      BY <1>1, <2>6
    <3> DEFINE pair == <<i.author, i.version>>
    <3>3. pair \in Participants \X Nat
      BY <2>2
    <3> HIDE DEF pair
    <3>4. IsFiniteSet(o.fallbacks \cup {pair})
      BY <3>2, FS_AddElement
    <3>5. QED
      BY <3>1, <3>3, <3>4 DEF pair
  <2> HIDE DEF st, F
  <2>10. /\ e \in TableRows /\ e.state = st /\ e.fallbacks = F /\ e.offers = o.offers
         /\ e.grants = o.grants /\ e.requests = o.requests /\ e.intents = o.intents
    BY <2>3, <2>7, <2>8, <2>9 DEF TableRows
  <2>11. SameFloor(o, e)
    BY <2>8, <2>10 DEF SameFloor
  <2>12. NextCohortAtMost(e) /\ Deferrals(e)
    BY <2>7, <2>8, <2>10 DEF NextCohortAtMost, Deferrals
  <2>13. Inv(e)
    BY <2>5, <2>7, <2>9, <2>10, <2>11, <2>12, HeldEdit
  <2>14. EpochsGrow(d, e)
    BY <2>5, <2>8, <2>10 DEF Moves, EpochsGrow
  <2>15. QED
    BY <2>5, <2>8, <2>10, <2>13, <2>14 DEF e
<1>3. CASE FallbackCandidates(d, n) = {}
  <2> DEFINE st == [d.state EXCEPT !.phase = "moderator_idle", !.deadline = "none",
                                   !.active_attempt = FALSE]
  <2>1. e = [d EXCEPT !.state = st]
    BY <1>3 DEF FallbackOrIdle
  <2>2. /\ st \in HumanStateRows /\ st.phase = "moderator_idle" /\ st.deadline = "none"
        /\ st.depth = 0 /\ st.speech = d.state.speech
        /\ st.control_epoch = d.state.control_epoch /\ st.decision_epoch = n
        /\ st.consecutive = d.state.consecutive
    <3>1. d.state \in HumanStateRows
      BY <1>1, TableTypes
    <3>2. QED
      BY <1>1, <3>1 DEF HumanStateRows, Phases, Moderating
  <2> HIDE DEF st, e
  <2>3. /\ e \in TableRows /\ e.state = st /\ e.handoffs = d.handoffs
        /\ e.intents = d.intents /\ e.requests = d.requests /\ e.offers = d.offers
        /\ e.grants = d.grants /\ e.fallbacks = d.fallbacks
    BY <1>1, <2>1, <2>2, OtherState
  <2>4. /\ Rows(d) /\ Blocks(d) /\ d.offers = {} /\ d.grants = {}
        /\ \A i \in DOMAIN d.intents : d.intents[i].deferred_by = 0
    BY <1>1 DEF Bare, Standing
  <2>5. Rows(e)
    BY <2>2, <2>3, <2>4 DEF Rows, OneEach, NextCohortAtMost
  <2>6. Floor(e) /\ Basis(e) /\ Deferrals(e) /\ Depths(e)
    BY <2>2, <2>3, <2>4 DEF Floor, Basis, Deferrals, Depths
  <2>7. Line(e) /\ Blocks(e) /\ CohortOpen(e)
    BY <1>1, <2>2, <2>3, <2>4 DEF Line, Blocks, CohortOpen, Moderating
  <2>8. FallbackCandidates(e, n + 1) = {}
    <3>1. FallbackCandidates(e, n + 1) = FallbackCandidates(d, n + 1)
      BY <2>2, <2>3, FallbackSame
    <3>2. \A i \in DOMAIN d.intents : d.intents[i].eligible <= n
      BY <1>1 DEF CohortOpen
    <3>3. FallbackCandidates(d, n + 1) = FallbackCandidates(d, n)
      <4>1. n + 1 \in Nat /\ n <= n + 1
        BY <1>1
      <4> HIDE DEF n
      <4>2. QED
        BY <1>1, <3>2, <4>1, FallbackLater
    <3>4. QED
      BY <1>3, <3>1, <3>3
  <2>9. Inv(e)
    BY <2>2, <2>3, <2>5, <2>6, <2>7, <2>8 DEF Inv, Standing, IdleIsIdle
  <2>10. EpochsGrow(d, e)
    BY <1>1, <2>2, <2>3 DEF EpochsGrow
  <2>11. QED
    BY <2>2, <2>3, <2>9, <2>10 DEF e
<1>4. QED
  BY <1>2, <1>3

(* Only the phase moves between idle and control, within the moderator's   *)
(* hands.                                                                  *)
LEMMA Reopened ==
  ASSUME NEW d, Standing(d), d.state.phase \in Moderating,
         NEW e, e \in TableRows, e.state.phase \in Moderating,
         e.state.depth = 0, e.state.decision_epoch >= d.state.decision_epoch,
         e.intents = d.intents, e.requests = d.requests, e.offers = d.offers,
         e.grants = d.grants, e.fallbacks = d.fallbacks,
         (\A h \in d.handoffs : h.blocked_by # "human_request")
           => \A h \in e.handoffs : h.blocked_by # "human_request",
         CohortOpen(e),
         e.state.phase = "moderator_idle" => e.state.deadline = "none"
  PROVE  Standing(e)
<1>1. /\ Bare(d) /\ Rows(d) /\ d.requests = << >> /\ d.offers = {} /\ d.grants = {}
      /\ Blocks(d) /\ \A i \in DOMAIN d.intents : d.intents[i].deferred_by = 0
  BY ModeratingIsBare DEF Standing, Bare
<1>2. /\ d \in TableRows /\ d.state.decision_epoch \in Nat /\ e.state.decision_epoch \in Nat
      /\ \A i \in DOMAIN d.intents : d.intents[i].eligible \in Nat
  BY <1>1, StateTypes, TableTypes DEF Rows, IntentRows
<1>3. Rows(e)
  BY <1>1, <1>2 DEF Rows, OneEach, NextCohortAtMost
<1>4. Floor(e) /\ Basis(e) /\ Deferrals(e) /\ Depths(e) /\ Line(e) /\ Blocks(e)
  BY <1>1 DEF Floor, Basis, Deferrals, Depths, Line, Blocks, Moderating
<1>5. QED
  BY <1>3, <1>4 DEF Standing

LEMMA WindowEnsured ==
  ASSUME NEW d, Standing(d)
  PROVE  LET e == EnsureModeratorWindow(d)
         IN  /\ Inv(e) /\ EpochsGrow(d, e)
             /\ e.grants = d.grants
             /\ e.state.phase \in Moderating <=> d.state.phase \in Moderating
<1> DEFINE s == d.state
           epoch == IF s.phase = "moderator_idle" THEN s.decision_epoch + 1
                    ELSE s.decision_epoch
           candidate == FallbackCandidates(d, epoch) # {}
           e == EnsureModeratorWindow(d)
<1>1. /\ d \in TableRows /\ s.phase \in Phases /\ s.active_attempt = FALSE
      /\ s.decision_epoch \in Nat /\ s.control_epoch \in Nat /\ s \in HumanStateRows
      /\ NextCohortAtMost(d) /\ CohortOpen(d)
  BY StateTypes, TableTypes DEF Standing, Rows
<1>2. CASE s.phase \notin Moderating \/ (s.phase = "moderator_idle" /\ ~candidate)
           \/ (s.phase = "moderator_control" /\ candidate)
  <2>1. e = d
    BY <1>1, <1>2 DEF EnsureModeratorWindow, Moderating
  <2>2. IdleIsIdle(d)
    BY <1>2 DEF IdleIsIdle, Standing, Moderating
  <2>3. QED
    BY <1>1, <2>1, <2>2 DEF Inv, EpochsGrow
<1>3. CASE s.phase = "moderator_idle" /\ candidate
  <2> DEFINE c == ClearSuppression(d)
             st == [c.state EXCEPT !.phase = "moderator_control", !.decision_epoch = epoch,
                                   !.decision_attempt = 0, !.deadline = "window"]
  <2>1. e = [c EXCEPT !.state = st]
    BY <1>1, <1>3 DEF EnsureModeratorWindow, Moderating
  <2>2. /\ c \in TableRows /\ c.state = d.state /\ c.intents = d.intents
        /\ c.requests = d.requests /\ c.offers = d.offers
        /\ c.grants = d.grants /\ c.fallbacks = d.fallbacks
        /\ (\A h \in d.handoffs : h.blocked_by # "human_request")
             => \A h \in c.handoffs : h.blocked_by # "human_request"
    BY <1>1, ClearedHandoffs
  <2>3. epoch = s.decision_epoch + 1 /\ s.depth = 0
    BY <1>3, ModeratingIsBare DEF Moderating
  <2> HIDE DEF c, e
  <2>4. /\ st \in HumanStateRows /\ st.phase = "moderator_control" /\ st.depth = 0
        /\ st.decision_epoch = s.decision_epoch + 1 /\ st.control_epoch = s.control_epoch
    <3>1. c.state = s /\ epoch \in Nat
      BY <1>1, <2>2, <2>3
    <3> HIDE DEF s, epoch
    <3>2. st = [s EXCEPT !.phase = "moderator_control", !.decision_epoch = epoch,
                         !.decision_attempt = 0, !.deadline = "window"]
      BY <3>1
    <3> HIDE DEF st
    <3>3. st \in HumanStateRows
      BY <1>1, <3>1, <3>2 DEF HumanStateRows, Phases, Moderating
    <3>4. /\ st.phase = "moderator_control" /\ st.depth = s.depth
          /\ st.decision_epoch = epoch /\ st.control_epoch = s.control_epoch
      BY <1>1, <3>2 DEF HumanStateRows
    <3>5. QED
      BY <2>3, <3>3, <3>4 DEF s
  <2> HIDE DEF st
  <2>5. /\ e \in TableRows /\ e.state = st /\ e.handoffs = c.handoffs
        /\ e.intents = d.intents /\ e.requests = d.requests /\ e.offers = d.offers
        /\ e.grants = d.grants /\ e.fallbacks = d.fallbacks
    BY <2>1, <2>2, <2>4, OtherState
  <2>6. CohortOpen(e)
    BY <1>1, <2>4, <2>5 DEF CohortOpen, NextCohortAtMost
  <2>7. EpochsGrow(d, e) /\ e.state.phase = "moderator_control" /\ e.state.depth = 0
    BY <1>1, <2>4, <2>5 DEF EpochsGrow
  <2>8. /\ e.state.phase \in Moderating /\ d.state.phase \in Moderating
        /\ e.state.decision_epoch >= d.state.decision_epoch
        /\ e.state.phase = "moderator_idle" => e.state.deadline = "none"
    BY <1>3, <2>7 DEF EpochsGrow, Moderating
  <2>9. Standing(e)
    BY <2>2, <2>5, <2>6, <2>7, <2>8, Reopened
  <2>10. QED
    BY <2>5, <2>7, <2>8, <2>9 DEF Inv, IdleIsIdle, e
<1>4. CASE s.phase = "moderator_control" /\ ~candidate
  <2> DEFINE st == [d.state EXCEPT !.phase = "moderator_idle", !.deadline = "none"]
  <2>1. e = [d EXCEPT !.state = st]
    BY <1>1, <1>4 DEF EnsureModeratorWindow, Moderating
  <2>2. /\ FallbackCandidates(d, s.decision_epoch) = {} /\ s.depth = 0
    BY <1>4, ModeratingIsBare DEF Moderating
  <2> HIDE DEF e
  <2>3. /\ st \in HumanStateRows /\ st.phase = "moderator_idle" /\ st.depth = 0
        /\ st.deadline = "none" /\ st.consecutive = s.consecutive
        /\ st.decision_epoch = s.decision_epoch /\ st.control_epoch = s.control_epoch
    BY <1>1, <2>2 DEF HumanStateRows, Phases, Moderating
  <2> HIDE DEF st
  <2>4. /\ e \in TableRows /\ e.state = st /\ e.handoffs = d.handoffs
        /\ e.intents = d.intents /\ e.requests = d.requests /\ e.offers = d.offers
        /\ e.grants = d.grants /\ e.fallbacks = d.fallbacks
    BY <1>1, <2>1, <2>3, OtherState
  <2>5. /\ EpochsGrow(d, e) /\ e.state.phase = "moderator_idle" /\ e.state.depth = 0
        /\ e.state.deadline = "none" /\ e.state.decision_epoch = s.decision_epoch
        /\ e.state.consecutive = s.consecutive
    BY <1>1, <2>3, <2>4 DEF EpochsGrow
  <2>6. /\ e.state.phase \in Moderating /\ d.state.phase \in Moderating
        /\ e.state.decision_epoch >= d.state.decision_epoch /\ CohortOpen(e)
    BY <1>1, <1>4, <2>5 DEF Moderating, CohortOpen
  <2>7. Standing(e)
    BY <2>4, <2>5, <2>6, Reopened
  <2>8. FallbackCandidates(e, e.state.decision_epoch + 1) = {}
    <3> DEFINE n == s.decision_epoch
               m == n + 1
    <3>1. FallbackCandidates(e, m) = FallbackCandidates(d, m)
      BY <2>4, <2>5, FallbackSame
    <3>2. \A i \in DOMAIN d.intents : d.intents[i].eligible <= n
      BY <1>1, <1>4 DEF CohortOpen
    <3>3. m \in Nat /\ n \in Nat /\ n <= m
      BY <1>1
    <3> HIDE DEF n, m
    <3>4. FallbackCandidates(d, m) = FallbackCandidates(d, n)
      BY <1>1, <3>2, <3>3, FallbackLater
    <3>5. QED
      BY <2>2, <2>5, <3>1, <3>4 DEF n, m
  <2>9. QED
    BY <2>4, <2>5, <2>6, <2>7, <2>8 DEF Inv, IdleIsIdle, e
<1>5. s.phase \in Moderating => s.phase \in {"moderator_idle", "moderator_control"}
  BY DEF Moderating
<1>6. QED
  BY <1>2, <1>3, <1>4, <1>5

-----------------------------------------------------------------------------
(* Intents that come, change and go.                                       *)

LEMMA VersionIsFresh ==
  ASSUME NEW d, d \in TableRows, IsFiniteSet(d.fallbacks), NEW a
  PROVE  FreshVersion(d, a) \in Nat \ {0}
<1> DEFINE K == {j \in DOMAIN d.intents : d.intents[j].author = a}
           f == [i \in K |-> d.intents[i].version]
           V == {d.intents[i].version : i \in K}
           T == {s[3] : s \in {t \in d.attempt.snapshot : t[1] = "intent" /\ t[2] = a}}
           E == {e \in d.fallbacks : e[1] = a}
           g == [e \in E |-> e[2]]
           W == {e[2] : e \in E}
<1>1. IsFiniteSet(V)
  <2>1. IsFiniteSet(DOMAIN d.intents)
    <3>1. Len(d.intents) \in Nat /\ DOMAIN d.intents = 1..Len(d.intents)
      BY TableTypes
    <3>2. QED
      BY <3>1, FS_Interval
  <2>2. IsFiniteSet(K)
    <3>1. K \in SUBSET (DOMAIN d.intents)
      OBVIOUS
    <3> HIDE DEF K
    <3>2. QED
      BY <2>1, <3>1, FS_Subset
  <2>3. IsFiniteSet({f[i] : i \in K})
    BY <2>2, FiniteImage
  <2>4. V = {f[i] : i \in K}
    OBVIOUS
  <2>5. QED
    BY <2>3, <2>4
<1>2. T = {}
  BY TableTypes DEF NoAttempt
<1>3. IsFiniteSet(W)
  <2>1. IsFiniteSet(E)
    <3>1. E \in SUBSET d.fallbacks
      OBVIOUS
    <3> HIDE DEF E
    <3>2. QED
      BY <3>1, FS_Subset
  <2>2. IsFiniteSet({g[e] : e \in E})
    BY <2>1, FiniteImage
  <2>3. W = {g[e] : e \in E}
    OBVIOUS
  <2>4. QED
    BY <2>2, <2>3
<1>4. FreshVersion(d, a) = FreshId(V \cup T \cup W)
  BY DEF FreshVersion
<1> HIDE DEF V, T, W
<1>5. V \cup T \cup W = V \cup W
  BY <1>2
<1>6. IsFiniteSet(V \cup W)
  BY <1>1, <1>3, FS_Union
<1>7. QED
  BY <1>4, <1>5, <1>6, FreshIdIsFresh

(* Each Intent is one of those before, or a new one.                       *)
IntentsKept(J, d) ==
  /\ J \in Seq(IntentRows)
  /\ \A j \in DOMAIN J :
       \/ \E i \in DOMAIN d.intents : /\ J[j].eligible = d.intents[i].eligible
                                      /\ J[j].deferred_by = d.intents[i].deferred_by
       \/ /\ J[j].deferred_by = 0
          /\ J[j].eligible <= d.state.decision_epoch + 1
          /\ d.state.phase = "moderator_control" => J[j].eligible <= d.state.decision_epoch

LEMMA OtherIntents ==
  ASSUME NEW d \in TableRows, NEW J \in Seq(IntentRows), NEW e,
         e = [d EXCEPT !.intents = J]
  PROVE  /\ e \in TableRows /\ e.intents = J /\ e.state = d.state
         /\ e.handoffs = d.handoffs /\ e.requests = d.requests /\ e.offers = d.offers
         /\ e.grants = d.grants /\ e.fallbacks = d.fallbacks
BY DEF TableRows

LEMMA KeptStands ==
  ASSUME NEW d, Standing(d), NEW J, IntentsKept(J, d), NEW e, e = [d EXCEPT !.intents = J]
  PROVE  Standing(e) /\ e.state = d.state /\ e.grants = d.grants
<1>1. /\ d \in TableRows /\ Rows(d) /\ Floor(d) /\ Basis(d) /\ Deferrals(d) /\ Depths(d)
      /\ Line(d) /\ Blocks(d) /\ CohortOpen(d) /\ NextCohortAtMost(d) /\ J \in Seq(IntentRows)
  BY DEF Standing, Rows, IntentsKept
<1>2. /\ e \in TableRows /\ e.intents = J /\ e.state = d.state
      /\ e.handoffs = d.handoffs /\ e.requests = d.requests /\ e.offers = d.offers
      /\ e.grants = d.grants /\ e.fallbacks = d.fallbacks
  BY <1>1, OtherIntents
<1>3. NextCohortAtMost(e)
  BY <1>1, <1>2 DEF NextCohortAtMost, IntentsKept
<1>4. Deferrals(e)
  BY <1>1, <1>2 DEF Deferrals, IntentsKept
<1>5. CohortOpen(e)
  BY <1>1, <1>2 DEF CohortOpen, IntentsKept
<1>6. Rows(e)
  BY <1>1, <1>2, <1>3 DEF Rows, OneEach
<1>7. Floor(e) /\ Basis(e) /\ Depths(e) /\ Line(e) /\ Blocks(e)
  BY <1>1, <1>2 DEF Floor, Basis, Depths, Line, HeadOffered, AllQueued, Blocks
<1>8. QED
  BY <1>2, <1>4, <1>5, <1>6, <1>7 DEF Standing

(* ChangeIntent's edit.                                                    *)
Edited(t, a, version) ==
  [t EXCEPT !.intents =
     IF version = 0 THEN Without(@, IntentsBy(t, a))
     ELSE [i \in DOMAIN @ |-> IF @[i].author = a
                              THEN [@[i] EXCEPT !.version = version] ELSE @[i]]]

LEMMA EditKeeps ==
  ASSUME NEW d, d \in TableRows, NEW a, NEW version \in Nat
  PROVE  \E J : /\ IntentsKept(J, d) /\ Edited(d, a, version) = [d EXCEPT !.intents = J]
                /\ \A j \in DOMAIN J : \E i \in DOMAIN d.intents :
                     /\ J[j].eligible = d.intents[i].eligible
                     /\ J[j].deferred_by = d.intents[i].deferred_by
<1> DEFINE I == d.intents
           K == [i \in DOMAIN I |-> IF I[i].author = a
                                    THEN [I[i] EXCEPT !.version = version] ELSE I[i]]
           J == IF version = 0 THEN Without(I, IntentsBy(d, a)) ELSE K
<1>1. /\ I \in Seq(IntentRows) /\ Len(I) \in Nat /\ DOMAIN I = 1..Len(I)
      /\ \A i \in DOMAIN I : I[i] \in IntentRows
  BY TableTypes
<1>2. Edited(d, a, version) = [d EXCEPT !.intents = J]
  BY DEF Edited
<1>3. /\ J \in Seq(IntentRows)
      /\ \A j \in DOMAIN J : \E i \in DOMAIN I :
           J[j].eligible = I[i].eligible /\ J[j].deferred_by = I[i].deferred_by
  <2>1. CASE version = 0 /\ IntentsBy(d, a) = {}
    BY <1>1, <2>1 DEF Without
  <2>2. CASE version = 0 /\ IntentsBy(d, a) # {}
    <3> DEFINE k == CHOOSE i \in IntentsBy(d, a) : TRUE
    <3>1. k \in DOMAIN I
      BY <2>2 DEF IntentsBy
    <3>2. J = RemoveAt(I, k)
      BY <2>2 DEF Without
    <3> HIDE DEF k, J, I
    <3>3. /\ J \in Seq(IntentRows) /\ DOMAIN J = 1..Len(I) - 1
          /\ \A j \in 1..Len(I) - 1 : J[j] = IF j < k THEN I[j] ELSE I[j + 1]
      BY <1>1, <3>1, <3>2, RemoveAtIs
    <3>4. ASSUME NEW j \in DOMAIN J
          PROVE  \E i \in DOMAIN I : J[j] = I[i]
      <4>1. j \in DOMAIN I /\ j + 1 \in DOMAIN I
        BY <1>1, <3>3
      <4>2. J[j] = I[j] \/ J[j] = I[j + 1]
        BY <3>3
      <4>3. QED
        BY <4>1, <4>2
    <3>5. QED
      BY <3>3, <3>4
  <2>3. CASE version # 0
    <3>1. J = K
      BY <2>3
    <3>2. ASSUME NEW i \in DOMAIN I
          PROVE  /\ K[i] \in IntentRows /\ K[i].eligible = I[i].eligible
                 /\ K[i].deferred_by = I[i].deferred_by
      <4>1. CASE I[i].author = a
        <5>1. K[i] = [I[i] EXCEPT !.version = version]
          BY <4>1
        <5>2. QED
          BY <1>1, <5>1 DEF IntentRows
      <4>2. CASE I[i].author # a
        BY <1>1, <4>2
      <4>3. QED
        BY <4>1, <4>2
    <3>3. K \in [1..Len(I) -> IntentRows] /\ DOMAIN K = DOMAIN I
      BY <1>1, <3>2
    <3> HIDE DEF K, J
    <3>4. K \in Seq(IntentRows)
      BY <1>1, <3>3
    <3>5. QED
      BY <3>1, <3>2, <3>3, <3>4
  <2>4. QED
    BY <2>1, <2>2, <2>3
<1> HIDE DEF J
<1>4. IntentsKept(J, d)
  BY <1>3 DEF IntentsKept
<1>5. QED
  BY <1>2, <1>3, <1>4

(* What a committed transaction does: the invariant stands, epochs grow,   *)
(* control that comes back has an epoch of its own, and a lease that has   *)
(* not run out is not cut short.                                           *)
Leased(d) == \A g \in d.grants : g.age < g.lease

Turns(d, e) ==
  /\ EpochsGrow(d, e)
  /\ d.state.phase \in {"offered", "granted"} /\ e.state.phase \in Moderating
       => e.state.control_epoch > d.state.control_epoch

Good(d, e) == Inv(e) /\ Turns(d, e) /\ (Leased(d) => Leased(e))

LEMMA MovesIsGood ==
  ASSUME NEW d, NEW e, Inv(e), Moves(d, e), e.state.phase # "granted"
  PROVE  Good(d, e) /\ Leased(e)
<1>1. e.grants = {}
  BY DEF Inv, Standing, Floor
<1>2. Leased(e)
  BY <1>1 DEF Leased
<1>3. QED
  BY <1>2 DEF Good, Turns, Moves

(* NextFloor grants nothing.                                               *)
LEMMA NextFloorPhase ==
  ASSUME NEW d, Bare(d)
  PROVE  NextFloor(d).state.phase # "granted"
<1>1. CASE Queued(d) # {}
  BY <1>1, RequestOffered DEF NextFloor
<1>2. CASE Queued(d) = {}
  BY <1>2, NobodyQueued, ControlBare DEF NextFloor, Moderating
<1>3. QED
  BY <1>1, <1>2

LEMMA OfferFailsWell ==
  ASSUME NEW d, Standing(d), d.state.phase = "offered", NEW outcome,
         ActiveOffer(d).source[1] = "request" =>
           outcome \in {"declined", "timed_out", "source_withdrawn"}
  PROVE  LET e == FailActiveOffer(d, outcome) IN Good(d, e) /\ Leased(e)
<1> DEFINE o == ActiveOffer(d)
           e == FailActiveOffer(d, outcome)
<1>1. Rows(d) /\ Floor(d) /\ Deferrals(d) /\ Line(d) /\ d \in TableRows
  BY DEF Standing, Rows
<1>2. d.offers = {o}
  BY <1>1, TheOffer
<1>3. o.source[1] = "request" => HeadOffered(d, o)
  BY <1>1, <1>2 DEF Line
<1>4. o.source[1] # "request" => AllQueued(d)
  BY <1>1, <1>2 DEF Line, AllQueued
<1>5. Inv(e) /\ Moves(d, e)
  BY <1>1, <1>3, <1>4, OfferFails
<1>6. e.state.phase # "granted"
  <2>1. e = NextFloor(OfferGone(d, outcome))
    BY DEF FailActiveOffer, OfferGone
  <2>2. Bare(OfferGone(d, outcome))
    BY <1>1, <1>3, <1>4, OfferGoneIsBare
  <2>3. QED
    BY <2>1, <2>2, NextFloorPhase
<1>7. QED
  BY <1>5, <1>6, MovesIsGood

LEMMA GrantFailsWell ==
  ASSUME NEW d, Standing(d), d.state.phase = "granted"
  PROVE  LET e == FailActiveGrant(d) IN Good(d, e) /\ Leased(e)
<1> DEFINE e == FailActiveGrant(d)
<1>1. Inv(e) /\ Moves(d, e)
  BY GrantFails
<1>2. e.state.phase # "granted"
  <2>1. e = NextFloor(GrantGone(d))
    BY DEF FailActiveGrant, GrantGone
  <2>2. QED
    BY <2>1, GrantGoneIsBare, NextFloorPhase
<1>3. QED
  BY <1>1, <1>2, MovesIsGood

LEMMA EnsuredIsGood ==
  ASSUME NEW d, Standing(d)
  PROVE  Good(d, EnsureModeratorWindow(d))
<1> DEFINE e == EnsureModeratorWindow(d)
<1>1. /\ Inv(e) /\ EpochsGrow(d, e) /\ e.grants = d.grants
      /\ e.state.phase \in Moderating <=> d.state.phase \in Moderating
  BY WindowEnsured
<1>2. Leased(d) => Leased(e)
  BY <1>1 DEF Leased
<1>3. QED
  BY <1>1, <1>2 DEF Good, Turns, Moderating

(* An edit of Intents, and the window it may open or close.                *)
LEMMA KeptIsGood ==
  ASSUME NEW d, Standing(d), NEW J, IntentsKept(J, d), NEW e, e = [d EXCEPT !.intents = J]
  PROVE  Good(d, EnsureModeratorWindow(e))
<1>1. Standing(e) /\ e.state = d.state /\ e.grants = d.grants
  BY KeptStands
<1>2. Good(e, EnsureModeratorWindow(e))
  BY <1>1, EnsuredIsGood
<1>3. QED
  BY <1>1, <1>2 DEF Good, Turns, EpochsGrow, Leased

LEMMA ChangeIsGood ==
  ASSUME Standing(Tables), NEW a, NEW version \in Nat
  PROVE  Good(Tables, ChangeIntent(a, version))
<1> DEFINE d == Tables
           source == /\ d.state.phase = "offered"
                     /\ ActiveOffer(d).source[1] = "intent"
                     /\ ActiveOffer(d).source[2] = a
           failed == FailActiveOffer(d, "source_changed")
           y == [Edited(failed, a, version) EXCEPT !.state = d.state]
<1>1. ChangeIntent(a, version) =
        IF ~source THEN EnsureModeratorWindow(Edited(d, a, version))
        ELSE IF failed.state.phase = "offered" THEN Edited(failed, a, version)
        ELSE ReturnControl(y)
  BY DEF ChangeIntent, Edited
<1>2. Rows(d) /\ Floor(d) /\ Deferrals(d) /\ Line(d) /\ d \in TableRows
  BY DEF Standing, Rows
<1>3. CASE ~source
  <2>1. PICK J : IntentsKept(J, d) /\ Edited(d, a, version) = [d EXCEPT !.intents = J]
    BY <1>2, EditKeeps
  <2>2. ChangeIntent(a, version) = EnsureModeratorWindow(Edited(d, a, version))
    BY <1>1, <1>3
  <2>3. QED
    BY <2>1, <2>2, KeptIsGood
<1>4. CASE source
  <2> DEFINE o == ActiveOffer(d)
             b == OfferGone(d, "source_changed")
  <2>1. d.offers = {o} /\ o.source[1] # "request"
    BY <1>2, <1>4, TheOffer
  <2>2. d.requests = << >> /\ AllQueued(d)
    BY <1>2, <2>1 DEF Line, AllQueued
  <2>3. /\ Bare(b) /\ b.state = d.state /\ DOMAIN b.intents = DOMAIN d.intents
        /\ \A i \in DOMAIN d.intents : b.intents[i].eligible = d.intents[i].eligible
        /\ b.requests = << >>
    BY <1>2, <1>4, <2>1, <2>2, OfferGoneIsBare
  <2>4. failed = ReturnControl(b)
    <3>1. failed = NextFloor(b)
      BY DEF FailActiveOffer, OfferGone
    <3>2. Queued(b) = {}
      BY <2>3 DEF Queued
    <3>3. QED
      BY <3>1, <3>2 DEF NextFloor
  <2> HIDE DEF o, b, failed
  <2>5. /\ Inv(failed) /\ failed.state.phase \in Moderating
        /\ failed.intents = b.intents /\ failed.requests = << >>
        /\ failed.offers = {} /\ failed.grants = {} /\ failed.fallbacks = b.fallbacks
    BY <2>3, <2>4, ControlBare
  <2>6. failed \in TableRows /\ IsFiniteSet(failed.fallbacks)
    BY <2>5 DEF Inv, Standing, Rows
  <2>7. PICK J : /\ IntentsKept(J, failed) /\ Edited(failed, a, version) = [failed EXCEPT !.intents = J]
                 /\ \A j \in DOMAIN J : \E i \in DOMAIN failed.intents :
                      /\ J[j].eligible = failed.intents[i].eligible
                      /\ J[j].deferred_by = failed.intents[i].deferred_by
    BY <2>6, EditKeeps
  <2> DEFINE x == Edited(failed, a, version)
  <2>8. J \in Seq(IntentRows)
    BY <2>7 DEF IntentsKept
  <2>9. /\ x \in TableRows /\ x.intents = J
        /\ x.requests = << >> /\ x.offers = {} /\ x.grants = {}
        /\ x.fallbacks = failed.fallbacks
    <3> HIDE DEF x
    <3>1. x = [failed EXCEPT !.intents = J]
      BY <2>7 DEF x
    <3>2. QED
      BY <2>5, <2>6, <2>8, <3>1, OtherIntents
  <2>10. y = [x EXCEPT !.state = d.state]
    OBVIOUS
  <2> HIDE DEF x, y
  <2>11. /\ y \in TableRows /\ y.state = d.state /\ y.intents = J /\ y.requests = << >>
         /\ y.offers = {} /\ y.grants = {} /\ y.fallbacks = failed.fallbacks
    BY <1>2, <2>9, <2>10, TableTypes, OtherState
  <2>12. /\ \A i \in DOMAIN b.intents : b.intents[i].deferred_by = 0
         /\ NextCohortAtMost(d)
    BY <1>2, <2>3 DEF Bare, Rows
  <2>13. Rows(y)
    <3>1. NextCohortAtMost(y)
      BY <2>3, <2>5, <2>7, <2>11, <2>12 DEF NextCohortAtMost
    <3>2. OneEach(y)
      BY <2>11 DEF OneEach
    <3>3. QED
      BY <2>6, <2>11, <3>1, <3>2 DEF Rows
  <2>14. Bare(y)
    BY <2>5, <2>7, <2>11, <2>12, <2>13 DEF Bare, AllQueued
  <2> DEFINE e == ReturnControl(y)
  <2>15. Inv(e) /\ Moves(y, e) /\ e.state.phase \in Moderating
    BY <2>11, <2>14, ControlBare
  <2>16. Moves(d, e) /\ e.state.phase # "granted"
    BY <2>11, <2>15 DEF Moves, EpochsGrow, Moderating
  <2>17. ChangeIntent(a, version) = e
    BY <1>1, <1>4, <2>5 DEF Moderating
  <2> HIDE DEF e
  <2>18. QED
    BY <2>15, <2>16, <2>17, MovesIsGood
<1>5. QED
  BY <1>3, <1>4

-----------------------------------------------------------------------------
(* The invariant of the specification, and the actions.                    *)

(* Every action that ends in Commit ends in tables that stand, with all    *)
(* deadlines ahead; only the passing of time makes one late.               *)
IInv ==
  /\ Inv(Tables)
  /\ commands \in 0..MaxCommands /\ late \in BOOLEAN
  /\ ~late => Leased(Tables)
  /\ late => state.phase # "moderator_idle"

Done == Good(Tables, Tables') /\ late' = FALSE

LEMMA TablesFields ==
  /\ Tables.state = state /\ Tables.intents = intents /\ Tables.requests = requests
  /\ Tables.handoffs = handoffs /\ Tables.offers = offers /\ Tables.grants = grants
  /\ Tables.attempt = attempt /\ Tables.fallbacks = fallbacks
BY DEF Tables

LEMMA Committed ==
  ASSUME NEW e, Commit(e), e \in TableRows
  PROVE  Tables' = e /\ late' = FALSE
<1>1. e = [state |-> e.state, intents |-> e.intents, requests |-> e.requests,
           handoffs |-> e.handoffs, offers |-> e.offers, grants |-> e.grants,
           attempt |-> e.attempt, fallbacks |-> e.fallbacks]
  BY DEF TableRows
<1>2. Tables' = [state |-> e.state, intents |-> e.intents, requests |-> e.requests,
           handoffs |-> e.handoffs, offers |-> e.offers, grants |-> e.grants,
           attempt |-> e.attempt, fallbacks |-> e.fallbacks]
  BY DEF Tables, Commit
<1>3. e.state.deadline # "attempt"
  BY StateTypes
<1>4. late' = (e.state.deadline = "attempt" /\ e.attempt.late)
  BY DEF Commit
<1>5. QED
  BY <1>1, <1>2, <1>3, <1>4

LEMMA CommittedWell ==
  ASSUME NEW e, Commit(e), Good(Tables, e)
  PROVE  Done /\ Tables' = e
<1>1. e \in TableRows
  BY DEF Good, Inv, Standing, Rows
<1>2. QED
  BY <1>1, Committed DEF Done

LEMMA InvStands ==
  ASSUME IInv
  PROVE  /\ Standing(Tables) /\ Rows(Tables) /\ Tables \in TableRows
         /\ Floor(Tables) /\ Basis(Tables) /\ Deferrals(Tables) /\ Depths(Tables)
         /\ Line(Tables) /\ Blocks(Tables) /\ CohortOpen(Tables)
BY DEF IInv, Inv, Standing, Rows

LEMMA IntentSubmitIsGood ==
  ASSUME IInv, NEW a \in Participants, IntentSubmit(a)
  PROVE  Done
<1> DEFINE d == Tables
           s == state
           open == /\ s.decision_attempt = 0
                   /\ \/ s.phase = "moderator_control"
                      \/ /\ s.phase = "moderator_idle"
                         /\ CohortHasCandidates(Tables, s.decision_epoch)
           n == s.decision_epoch + (IF open THEN 0 ELSE 1)
           v == FreshVersion(Tables, a)
           row == [author |-> a, version |-> v, deferred_by |-> 0, eligible |-> n]
           J == Append(d.intents, row)
           e == [d EXCEPT !.intents = J]
<1>1. Standing(d) /\ Rows(d) /\ d \in TableRows /\ d.state = s
  BY InvStands, TablesFields
<1>2. Commit(EnsureModeratorWindow(e))
  BY DEF IntentSubmit
<1>3. s.decision_epoch \in Nat /\ s.decision_attempt = 0
  BY <1>1, StateTypes
<1>4. n \in Nat /\ n <= s.decision_epoch + 1
  BY <1>3
<1>5. s.phase = "moderator_control" => n <= s.decision_epoch
  BY <1>3
<1>6. v \in Nat
  BY <1>1, VersionIsFresh DEF Rows
<1> HIDE DEF n, v
<1>7. row \in IntentRows /\ row.deferred_by = 0 /\ row.eligible = n
  BY <1>4, <1>6 DEF IntentRows
<1> HIDE DEF row
<1>8. d.intents \in Seq(IntentRows)
  BY <1>1, TableTypes
<1>9. /\ J \in Seq(IntentRows) /\ Len(J) = Len(d.intents) + 1
      /\ \A i \in 1..Len(d.intents) : J[i] = d.intents[i]
      /\ J[Len(d.intents) + 1] = row
  BY <1>7, <1>8, AppendProperties
<1> HIDE DEF J
<1>10. IntentsKept(J, d)
  <2>1. DOMAIN J = 1..Len(d.intents) + 1 /\ DOMAIN d.intents = 1..Len(d.intents)
        /\ Len(d.intents) \in Nat
    BY <1>8, <1>9
  <2>2. ASSUME NEW j \in DOMAIN J
        PROVE  \/ \E i \in DOMAIN d.intents : /\ J[j].eligible = d.intents[i].eligible
                                              /\ J[j].deferred_by = d.intents[i].deferred_by
               \/ /\ J[j].deferred_by = 0
                  /\ J[j].eligible <= d.state.decision_epoch + 1
                  /\ d.state.phase = "moderator_control"
                       => J[j].eligible <= d.state.decision_epoch
    <3>1. CASE j \in 1..Len(d.intents)
      BY <1>9, <2>1, <3>1
    <3>2. CASE j = Len(d.intents) + 1
      BY <1>1, <1>4, <1>5, <1>7, <1>9, <3>2
    <3>3. QED
      BY <2>1, <3>1, <3>2
  <2>3. QED
    BY <1>9, <2>2 DEF IntentsKept
<1>11. Good(d, EnsureModeratorWindow(e))
  BY <1>1, <1>10, KeptIsGood
<1>12. QED
  BY <1>2, <1>11, CommittedWell

LEMMA ChangeCommitted ==
  ASSUME IInv, NEW a, NEW version \in Nat, Commit(ChangeIntent(a, version))
  PROVE  Done
BY InvStands, ChangeIsGood, CommittedWell

LEMMA IntentRefreshIsGood ==
  ASSUME IInv, NEW a, IntentRefresh(a)
  PROVE  Done
<1>1. FreshVersion(Tables, a) \in Nat
  BY InvStands, VersionIsFresh DEF Rows
<1>2. QED
  BY <1>1, ChangeCommitted DEF IntentRefresh

LEMMA IntentWithdrawIsGood ==
  ASSUME IInv, NEW a, IntentWithdraw(a) \/ ModeratorReject(a)
  PROVE  Done
BY ChangeCommitted DEF IntentWithdraw, ModeratorReject

(* Whom a Select names, and what it says of them.                          *)
LEMMA NamedIsTyped ==
  ASSUME Tables \in TableRows, NEW source \in Named
  PROVE  source \in Source /\ source[1] # "request" /\ SelectTarget(source) \in Participants
<1>1. /\ \A i \in DOMAIN intents : intents[i] \in IntentRows
      /\ handoffs \subseteq HandoffRows
  BY TableTypes, TablesFields
<1>2. CASE \E i \in DOMAIN intents :
             source = <<"intent", intents[i].author, intents[i].version>>
  <2>1. PICK i \in DOMAIN intents :
           source = <<"intent", intents[i].author, intents[i].version>>
    BY <1>2
  <2>2. intents[i].author \in Participants /\ intents[i].version \in Nat
    BY <1>1 DEF IntentRows
  <2>3. source[1] = "intent" /\ source[2] \in Participants
    BY <2>1, <2>2
  <2>4. source \in Source
    BY <2>1, <2>2 DEF Source
  <2>5. QED
    BY <2>3, <2>4 DEF SelectTarget
<1>3. CASE \E h \in handoffs : source = <<"handoff", h.id, h.attempts>>
  <2>1. PICK h \in handoffs : source = <<"handoff", h.id, h.attempts>>
    BY <1>3
  <2>2. h.id \in Nat /\ h.attempts \in Nat
    BY <1>1 DEF HandoffRows
  <2>3. source[1] = "handoff" /\ source[2] = h.id
    BY <2>1
  <2>4. (CHOOSE k \in handoffs : k.id = source[2]) \in handoffs
    BY <2>3
  <2>5. (CHOOSE k \in handoffs : k.id = source[2]).to \in Participants
    BY <1>1, <2>4 DEF HandoffRows
  <2>6. source \in Source
    BY <2>1, <2>2 DEF Source
  <2>7. QED
    BY <2>3, <2>5, <2>6 DEF SelectTarget
<1>4. QED
  BY <1>2, <1>3 DEF Named

(* Intents set aside for the live Offer.                                   *)
Aside(o, D) ==
  [i \in DOMAIN o.intents |->
     IF o.intents[i].author \in D
     THEN [o.intents[i] EXCEPT !.deferred_by = o.state.active_offer] ELSE o.intents[i]]

LEMMA SetAside ==
  ASSUME NEW o, Inv(o), o.state.phase = "offered", NEW D,
         NEW J, J = Aside(o, D), NEW e, e = [o EXCEPT !.intents = J]
  PROVE  Inv(e) /\ e.state = o.state
<1> DEFINE n == o.state.active_offer
<1>1. /\ Standing(o) /\ o \in TableRows /\ IsFiniteSet(o.fallbacks)
      /\ NextCohortAtMost(o) /\ Deferrals(o)
  BY DEF Inv, Standing, Rows
<1>2. n \in Nat
  BY <1>1, StateTypes
<1>4. Len(o.intents) \in Nat /\ DOMAIN o.intents = 1..Len(o.intents)
      /\ \A i \in DOMAIN o.intents : o.intents[i] \in IntentRows
  BY <1>1, TableTypes
<1>5. ASSUME NEW i \in DOMAIN o.intents
      PROVE  /\ J[i] \in IntentRows /\ J[i].eligible = o.intents[i].eligible
             /\ J[i].deferred_by = n \/ J[i].deferred_by = o.intents[i].deferred_by
  <2>1. o.intents[i] \in IntentRows
    BY <1>4
  <2>2. CASE o.intents[i].author \in D
    <3> DEFINE r == o.intents[i]
               t == [r EXCEPT !.deferred_by = n]
    <3>1. J[i] = t
      BY <2>2 DEF Aside
    <3>2. t \in IntentRows /\ t.eligible = r.eligible /\ t.deferred_by = n
      BY <1>2, <2>1 DEF IntentRows
    <3>3. QED
      BY <3>1, <3>2
  <2>3. CASE o.intents[i].author \notin D
    BY <2>1, <2>3 DEF Aside
  <2>4. QED
    BY <2>2, <2>3
<1>6. DOMAIN J = DOMAIN o.intents /\ J \in [1..Len(o.intents) -> IntentRows]
  BY <1>4, <1>5 DEF Aside
<1> HIDE DEF n
<1>7. J \in Seq(IntentRows)
  BY <1>4, <1>6
<1>8. /\ e \in TableRows /\ e.intents = J /\ e.state = o.state
      /\ e.handoffs = o.handoffs /\ e.requests = o.requests /\ e.offers = o.offers
      /\ e.grants = o.grants /\ e.fallbacks = o.fallbacks
  BY <1>1, <1>7, OtherIntents
<1>9. SameFloor(o, e)
  BY <1>8 DEF SameFloor
<1>10. NextCohortAtMost(e)
  BY <1>1, <1>5, <1>6, <1>8 DEF NextCohortAtMost
<1>11. Deferrals(e)
  BY <1>1, <1>5, <1>6, <1>8 DEF Deferrals, n
<1>12. QED
  BY <1>1, <1>8, <1>9, <1>10, <1>11, HeldEdit

LEMMA ModeratorSelectIsGood ==
  ASSUME IInv, AgentModerator = FALSE, NEW source \in Named, NEW D,
         ModeratorSelect(source, D)
  PROVE  Done
<1> DEFINE d == Tables
           target == SelectTarget(source)
           o == MakeOffer(d, target, source, "reset")
           e == [o EXCEPT !.intents = Aside(o, D)]
<1>1. Commit(e) /\ state.phase \in Moderating
  BY DEF ModeratorSelect, Aside
<1>2. Standing(d) /\ d \in TableRows /\ d.state.phase \in Moderating
  BY <1>1, InvStands, TablesFields
<1>3. Bare(d) /\ d.requests = << >>
  BY <1>2, ModeratingIsBare
<1>4. source \in Source /\ source[1] # "request" /\ target \in Participants
  BY <1>2, NamedIsTyped
<1> HIDE DEF target
<1>5. Inv(o) /\ Moves(d, o) /\ o.state.phase = "offered"
  BY <1>3, <1>4, OfferBare DEF DepthModes
<1> HIDE DEF o
<1>6. Inv(e) /\ e.state = o.state
  BY <1>5, SetAside
<1> HIDE DEF e
<1>7. Moves(d, e) /\ e.state.phase # "granted"
  BY <1>5, <1>6 DEF Moves, EpochsGrow
<1>8. Good(d, e)
  BY <1>6, <1>7, MovesIsGood
<1>9. QED
  BY <1>1, <1>8, CommittedWell

(* A Handoff that is dismissed changes nobody's turn.                      *)
LEMMA DismissIsGood ==
  ASSUME IInv, NEW h, ModeratorDismissHandoff(h)
  PROVE  Done
<1> DEFINE d == Tables
           H == d.handoffs \ {h}
           e == [d EXCEPT !.handoffs = H]
<1>1. Commit(e)
  BY DEF ModeratorDismissHandoff
<1>2. Inv(d) /\ Standing(d) /\ Rows(d) /\ d \in TableRows
  BY InvStands DEF IInv
<1>3. H \in SUBSET HandoffRows
  BY <1>2, TableTypes
<1> HIDE DEF e
<1>4. /\ e \in TableRows /\ e.handoffs = H /\ e.state = d.state
      /\ e.intents = d.intents /\ e.requests = d.requests /\ e.offers = d.offers
      /\ e.grants = d.grants /\ e.fallbacks = d.fallbacks
  BY <1>2, <1>3, OtherHandoffs DEF e
<1>5. Rows(e)
  BY <1>2, <1>4 DEF Rows, OneEach, NextCohortAtMost
<1>6. Floor(e) /\ Basis(e) /\ Deferrals(e) /\ Depths(e)
  BY <1>2, <1>4 DEF Standing, Floor, Basis, Deferrals, Depths
<1>7. Line(e) /\ Blocks(e) /\ CohortOpen(e)
  <2>1. Line(e)
    BY <1>2, <1>4 DEF Standing, Line, HeadOffered, AllQueued
  <2>2. Blocks(e)
    BY <1>2, <1>4 DEF Standing, Blocks
  <2>3. QED
    BY <1>2, <1>4, <2>1, <2>2 DEF Standing, CohortOpen
<1>8. Standing(e)
  BY <1>2, <1>4, <1>5, <1>6, <1>7 DEF Standing
<1>9. IdleIsIdle(e)
  <2>1. FallbackCandidates(e, e.state.decision_epoch + 1)
          = FallbackCandidates(d, d.state.decision_epoch + 1)
    BY <1>4, FallbackSame
  <2>2. QED
    BY <1>2, <1>4, <2>1 DEF Inv, IdleIsIdle
<1>10. Turns(d, e)
  <2>1. d.state.control_epoch \in Nat /\ d.state.decision_epoch \in Nat
    BY <1>2, StateTypes
  <2>2. QED
    BY <1>4, <2>1 DEF Turns, EpochsGrow, Moderating
<1>11. Good(d, e)
  BY <1>4, <1>8, <1>9, <1>10 DEF Good, Inv, Leased
<1>12. QED
  BY <1>1, <1>11, CommittedWell

LEMMA RecallIsGood ==
  ASSUME IInv, ModeratorRecall
  PROVE  Done
<1> DEFINE d == Tables
           fails == state.phase = "offered" /\ ActiveOffer(d).source[1] # "request"
<1>1. /\ state.phase \in {"offered", "granted"}
      /\ Commit(IF fails THEN FailActiveOffer(d, "recalled")
                ELSE [d EXCEPT !.state.forced_return = TRUE])
  BY DEF ModeratorRecall
<1>2. Standing(d) /\ Rows(d) /\ d \in TableRows /\ d.state = state
  BY InvStands, TablesFields
<1>3. CASE fails
  <2>1. Good(d, FailActiveOffer(d, "recalled"))
    BY <1>2, <1>3, OfferFailsWell
  <2>2. QED
    BY <1>1, <1>3, <2>1, CommittedWell
<1>4. CASE ~fails
  <2> DEFINE s == [d.state EXCEPT !.forced_return = TRUE]
             e == [d EXCEPT !.state = s]
  <2>1. Commit(e)
    BY <1>1, <1>4
  <2>2. d.state \in HumanStateRows
    BY <1>2, TableTypes
  <2>3. s \in HumanStateRows
    BY <2>2 DEF HumanStateRows
  <2>4. /\ s.phase = d.state.phase /\ s.active_offer = d.state.active_offer
        /\ s.active_grant = d.state.active_grant /\ s.depth = d.state.depth
        /\ s.speech = d.state.speech /\ s.control_epoch = d.state.control_epoch
        /\ s.decision_epoch = d.state.decision_epoch
    BY <2>2 DEF HumanStateRows
  <2> HIDE DEF s, e
  <2>5. /\ e \in TableRows /\ e.state = s
        /\ e.intents = d.intents /\ e.requests = d.requests /\ e.offers = d.offers
        /\ e.grants = d.grants /\ e.fallbacks = d.fallbacks
    BY <1>2, <2>3, OtherState DEF e
  <2>6. Inv(e)
    <3>1. SameFloor(d, e)
      BY <2>4, <2>5 DEF SameFloor
    <3>2. NextCohortAtMost(e) /\ Deferrals(e) /\ IsFiniteSet(e.fallbacks)
      BY <1>2, <2>4, <2>5 DEF Rows, Standing, NextCohortAtMost, Deferrals
    <3>3. QED
      BY <1>1, <1>2, <2>5, <3>1, <3>2, HeldEdit
  <2>7. Turns(d, e)
    <3>1. d.state.control_epoch \in Nat /\ d.state.decision_epoch \in Nat
      BY <1>2, StateTypes
    <3>2. QED
      BY <2>4, <2>5, <3>1 DEF Turns, EpochsGrow, Moderating
  <2>8. Good(d, e)
    BY <2>5, <2>6, <2>7 DEF Good, Leased
  <2>9. QED
    BY <2>1, <2>8, CommittedWell
<1>5. QED
  BY <1>3, <1>4

-----------------------------------------------------------------------------
(* Human Requests.                                                         *)

LEMMA OtherRequests ==
  ASSUME NEW d \in TableRows, NEW q \in Seq(RequestRows), NEW e,
         e = [d EXCEPT !.requests = q]
  PROVE  /\ e \in TableRows /\ e.requests = q /\ e.state = d.state
         /\ e.handoffs = d.handoffs /\ e.intents = d.intents /\ e.offers = d.offers
         /\ e.grants = d.grants /\ e.fallbacks = d.fallbacks
BY DEF TableRows

(* One more Human in the line.                                             *)
Joined(q, r, row) ==
  /\ q \in Seq(RequestRows)
  /\ DOMAIN q = 1..Len(r) + 1
  /\ \A i \in 1..Len(r) : q[i] = r[i]
  /\ q[Len(r) + 1] = row
  /\ \A i, j \in DOMAIN q : q[i].who = q[j].who => i = j

LEMMA RequestJoined ==
  ASSUME NEW d, d \in TableRows, OneEach(d), NEW row \in RequestRows,
         \A i \in DOMAIN d.requests : d.requests[i].who # row.who
  PROVE  Joined(Append(d.requests, row), d.requests, row)
<1> DEFINE r == d.requests
           q == Append(r, row)
<1>1. r \in Seq(RequestRows) /\ Len(r) \in Nat /\ DOMAIN r = 1..Len(r)
  BY TableTypes
<1>2. /\ \A i, j \in DOMAIN r : r[i].who = r[j].who => i = j
      /\ \A i \in DOMAIN r : r[i].who # row.who
  BY DEF OneEach
<1> HIDE DEF r
<1>3. /\ q \in Seq(RequestRows) /\ Len(q) = Len(r) + 1
      /\ \A i \in 1..Len(r) : q[i] = r[i]
      /\ q[Len(r) + 1] = row
  BY <1>1, AppendProperties
<1> HIDE DEF q
<1>4. DOMAIN q = 1..Len(r) + 1
  BY <1>1, <1>3
<1>5. ASSUME NEW i \in DOMAIN q, NEW j \in DOMAIN q, q[i].who = q[j].who PROVE i = j
  <2>1. i \in 1..Len(r) \/ i = Len(r) + 1
    BY <1>1, <1>4
  <2>2. j \in 1..Len(r) \/ j = Len(r) + 1
    BY <1>1, <1>4
  <2>3. QED
    BY <1>1, <1>2, <1>3, <1>5, <2>1, <2>2
<1>6. QED
  BY <1>3, <1>4, <1>5 DEF Joined, r, q

(* A change behind the Human who is offered the floor.                     *)
LEMMA LineEdit ==
  ASSUME NEW d, Standing(d), d.state.phase \in {"offered", "granted"},
         NEW q \in Seq(RequestRows), NEW e, e = [d EXCEPT !.requests = q],
         OneEach(e), d.state.phase = "granted" => AllQueued(e),
         \A o \in d.offers : o.source[1] = "request" /\ HeadOffered(e, o)
  PROVE  Good(d, e)
<1>1. Rows(d) /\ d \in TableRows
  BY DEF Standing, Rows
<1>2. /\ e \in TableRows /\ e.requests = q /\ e.state = d.state
      /\ e.handoffs = d.handoffs /\ e.intents = d.intents /\ e.offers = d.offers
      /\ e.grants = d.grants /\ e.fallbacks = d.fallbacks
  BY <1>1, OtherRequests
<1>3. Rows(e)
  BY <1>1, <1>2 DEF Rows, NextCohortAtMost
<1>4. Floor(e) /\ Basis(e) /\ Deferrals(e) /\ Depths(e)
  BY <1>2 DEF Standing, Floor, Basis, Deferrals, Depths
<1>5. Line(e)
  BY <1>2 DEF Line
<1>6. Blocks(e) /\ CohortOpen(e) /\ IdleIsIdle(e) /\ e.state.phase # "moderator_idle"
  BY <1>2 DEF Blocks, CohortOpen, IdleIsIdle, Moderating
<1>7. Inv(e)
  BY <1>3, <1>4, <1>5, <1>6 DEF Inv, Standing
<1>8. Turns(d, e)
  <2>1. d.state.control_epoch \in Nat /\ d.state.decision_epoch \in Nat
    BY <1>1, StateTypes
  <2>2. QED
    BY <1>2, <2>1 DEF Turns, EpochsGrow, Moderating
<1>9. QED
  BY <1>2, <1>7, <1>8 DEF Good, Leased

LEMMA HumanRequestIsGood ==
  ASSUME IInv, NEW h \in Humans, HumanRequest(h)
  PROVE  Done
<1> DEFINE z == Tables
           row == [who |-> h, state |-> "queued", offer |-> 0]
           q == Append(z.requests, row)
           d == [z EXCEPT !.requests = q]
           source == <<"request", h, 0>>
           e == CASE state.phase \in Moderating -> MakeOffer(d, h, source, "preserve")
                  [] /\ state.phase = "offered"
                     /\ ActiveOffer(d).source[1] # "request" ->
                       FailActiveOffer(d, "preempted")
                  [] OTHER -> d
<1>1. /\ Commit(e) /\ state.phase # "ended"
      /\ \A i \in DOMAIN z.requests : z.requests[i].who # h
  <2>1. z.requests = requests
    BY TablesFields
  <2>2. QED
    BY <2>1 DEF HumanRequest, Live
<1>2. /\ Standing(z) /\ Rows(z) /\ z \in TableRows /\ z.state = state
      /\ Floor(z) /\ Deferrals(z) /\ Line(z)
  BY InvStands, TablesFields
<1>3. row \in RequestRows /\ row.who = h /\ row.state = "queued"
  BY DEF RequestRows
<1> HIDE DEF row
<1>4. Joined(q, z.requests, row)
  BY <1>1, <1>2, <1>3, RequestJoined DEF Rows
<1>5. /\ q \in Seq(RequestRows) /\ Len(z.requests) \in Nat
      /\ DOMAIN z.requests = 1..Len(z.requests)
  BY <1>2, <1>4, TableTypes DEF Joined
<1> HIDE DEF q
<1>6. /\ d \in TableRows /\ d.requests = q /\ d.state = z.state
      /\ d.handoffs = z.handoffs /\ d.intents = z.intents /\ d.offers = z.offers
      /\ d.grants = z.grants /\ d.fallbacks = z.fallbacks
  BY <1>2, <1>5, OtherRequests
<1> HIDE DEF d
<1>7. Rows(d)
  BY <1>2, <1>4, <1>6 DEF Rows, OneEach, NextCohortAtMost, Joined
<1>8. Floor(d) /\ Deferrals(d)
  BY <1>2, <1>6 DEF Floor, Deferrals
<1>9. AllQueued(z) => AllQueued(d)
  <2> SUFFICES ASSUME AllQueued(z), NEW i \in DOMAIN q
               PROVE  q[i].state = "queued"
    BY <1>6 DEF AllQueued
  <2>1. i \in 1..Len(z.requests) \/ i = Len(z.requests) + 1
    BY <1>4, <1>5 DEF Joined
  <2>2. QED
    BY <1>3, <1>4, <1>5, <2>1 DEF Joined, AllQueued
<1>10. ASSUME NEW x, Inv(x), Moves(d, x), x.state.phase # "granted"
       PROVE  Good(z, x)
  <2>1. Moves(z, x)
    BY <1>6, <1>10 DEF Moves, EpochsGrow
  <2>2. QED
    BY <1>10, <2>1, MovesIsGood
<1>11. CASE state.phase \in Moderating
  <2>1. Bare(z) /\ z.requests = << >>
    BY <1>2, <1>11, ModeratingIsBare
  <2>2. 1 \in DOMAIN d.requests /\ d.requests[1].who = h
    BY <1>3, <1>4, <1>6, <2>1 DEF Joined
  <2>3. AllQueued(d)
    BY <1>9, <2>1 DEF Bare
  <2>4. Bare(d)
    BY <1>6, <1>7, <2>1, <2>3 DEF Bare
  <2>5. h \in Participants /\ source \in Source /\ source[1] = "request" /\ source[2] = h
    BY DEF Participants, Source
  <2> HIDE DEF source
  <2> DEFINE x == MakeOffer(d, h, source, "preserve")
  <2>6. Inv(x) /\ Moves(d, x) /\ x.state.phase = "offered"
    BY <2>2, <2>4, <2>5, OfferBare DEF DepthModes
  <2>7. e = x
    BY <1>11 DEF Moderating
  <2> HIDE DEF x, e
  <2>8. Good(z, e)
    BY <1>10, <2>6, <2>7
  <2>9. QED
    BY <1>1, <2>8, CommittedWell
<1>12. CASE state.phase = "offered" /\ ActiveOffer(d).source[1] # "request"
  <2> DEFINE o == ActiveOffer(d)
  <2>1. d.offers = {o}
    BY <1>2, <1>6, <1>8, <1>12, TheOffer
  <2>2. z.requests = << >>
    <3> HIDE DEF o
    <3>1. o \in z.offers /\ o.source[1] # "request"
      BY <1>6, <1>12, <2>1 DEF o
    <3>2. QED
      BY <1>2, <3>1 DEF Line
  <2>3. AllQueued(d)
    BY <1>9, <2>2 DEF AllQueued
  <2> DEFINE x == FailActiveOffer(d, "preempted")
  <2>4. Inv(x) /\ Moves(d, x)
    BY <1>2, <1>6, <1>7, <1>8, <1>12, <2>3, OfferFails
  <2>5. x.state.phase # "granted"
    <3>1. x = NextFloor(OfferGone(d, "preempted"))
      BY DEF FailActiveOffer, OfferGone
    <3>2. Bare(OfferGone(d, "preempted"))
      BY <1>2, <1>6, <1>7, <1>8, <1>12, <2>3, OfferGoneIsBare
    <3>3. QED
      BY <3>1, <3>2, NextFloorPhase
  <2>6. e = x
    BY <1>12 DEF Moderating
  <2> HIDE DEF x, e
  <2>7. Good(z, e)
    BY <1>10, <2>4, <2>5, <2>6
  <2>8. QED
    BY <1>1, <2>7, CommittedWell
<1>13. CASE /\ state.phase \notin Moderating
            /\ ~(state.phase = "offered" /\ ActiveOffer(d).source[1] # "request")
  <2>1. z.state.phase \in {"offered", "granted"}
    BY <1>1, <1>2, <1>13, StateTypes DEF Phases
  <2>2. z.state.phase = "granted" => AllQueued(d)
    BY <1>2, <1>9 DEF Line
  <2>3. ASSUME NEW o \in z.offers
        PROVE  o.source[1] = "request" /\ HeadOffered(d, o)
    <3>1. z.state.phase = "offered"
      BY <1>2, <2>3 DEF Floor
    <3>2. d.offers = {ActiveOffer(d)}
      BY <1>6, <1>8, <3>1, TheOffer
    <3>3. o.source[1] = "request"
      BY <1>2, <1>6, <1>13, <2>3, <3>1, <3>2
    <3>4. HeadOffered(z, o)
      BY <1>2, <2>3, <3>3 DEF Line
    <3>5. /\ 1 \in DOMAIN q
          /\ q[1] = z.requests[1]
          /\ z.requests[1].who = o.source[2] /\ z.requests[1].state = "offered"
          /\ z.requests[1].offer = o.id
      BY <1>4, <1>5, <3>4 DEF Joined, HeadOffered
    <3>6. ASSUME NEW i \in DOMAIN q, i # 1 PROVE q[i].state = "queued"
      <4>1. i \in 1..Len(z.requests) \/ i = Len(z.requests) + 1
        BY <1>4, <1>5 DEF Joined
      <4>2. QED
        BY <1>3, <1>4, <1>5, <3>4, <3>6, <4>1 DEF Joined, HeadOffered
    <3>7. QED
      BY <1>6, <3>3, <3>5, <3>6 DEF HeadOffered
  <2>4. d = [z EXCEPT !.requests = q]
    BY DEF d
  <2>5. OneEach(d)
    BY <1>7 DEF Rows
  <2>6. Good(z, d)
    BY <1>2, <1>5, <2>1, <2>2, <2>3, <2>4, <2>5, LineEdit
  <2>7. e = d
    BY <1>13
  <2>8. QED
    BY <1>1, <2>6, <2>7, CommittedWell
<1>14. QED
  BY <1>11, <1>12, <1>13

LEMMA HumanWithdrawIsGood ==
  ASSUME IInv, NEW i \in DOMAIN requests, HumanWithdraw(i)
  PROVE  Done
<1> DEFINE d == Tables
           q == RemoveAt(d.requests, i)
           e == [d EXCEPT !.requests = q]
<1>1. /\ Standing(d) /\ Rows(d) /\ d \in TableRows /\ d.state = state
      /\ d.requests = requests /\ Line(d) /\ Floor(d)
  BY InvStands, TablesFields
<1>2. i \in DOMAIN d.requests /\ d.requests # << >>
  BY <1>1
<1>3. d.state.phase \in {"offered", "granted"}
  BY <1>1, <1>2 DEF Line
<1>4. CASE /\ d.requests[i].state = "offered"
           /\ Commit(FailActiveOffer(d, "source_withdrawn"))
  <2>1. d.state.phase = "offered"
    BY <1>1, <1>2, <1>3, <1>4 DEF Line, AllQueued
  <2>2. Good(d, FailActiveOffer(d, "source_withdrawn"))
    BY <1>1, <2>1, OfferFailsWell
  <2>3. QED
    BY <1>4, <2>2, CommittedWell
<1>5. CASE d.requests[i].state = "queued" /\ Commit(e)
  <2>1. Dropped(q, d.requests, i)
    BY <1>1, <1>2, RequestDropped DEF Rows
  <2> HIDE DEF q
  <2>2. /\ q \in Seq(RequestRows)
        /\ \A k, j \in DOMAIN q : q[k].who = q[j].who => k = j
        /\ \A k \in DOMAIN q : \E j \in DOMAIN d.requests : q[k] = d.requests[j]
    BY <2>1 DEF Dropped
  <2> HIDE DEF e
  <2>3. e.requests = q
    BY <1>1, <2>2, OtherRequests DEF e
  <2>4. OneEach(e)
    BY <2>2, <2>3 DEF OneEach
  <2>5. d.state.phase = "granted" => AllQueued(e)
    BY <1>1, <2>2, <2>3 DEF Line, AllQueued
  <2>6. ASSUME NEW o \in d.offers
        PROVE  o.source[1] = "request" /\ HeadOffered(e, o)
    <3>1. o.source[1] = "request" /\ HeadOffered(d, o)
      BY <1>1, <1>2, <2>6 DEF Line
    <3>2. i \in 1..Len(d.requests) /\ i # 1 /\ Len(d.requests) \in Nat
      BY <1>1, <1>2, <1>5, <3>1, TableTypes DEF HeadOffered
    <3>3. 1 \in DOMAIN q /\ q[1] = d.requests[1]
      BY <2>1, <3>1, <3>2 DEF Dropped, HeadOffered
    <3>4. ASSUME NEW k \in DOMAIN q, k # 1 PROVE q[k].state = "queued"
      <4>1. PICK j \in DOMAIN d.requests : q[k] = d.requests[j]
        BY <2>2
      <4>2. j # 1
        BY <2>2, <3>3, <3>4, <4>1
      <4>3. QED
        BY <3>1, <4>1, <4>2 DEF HeadOffered
    <3>5. QED
      BY <2>3, <3>1, <3>3, <3>4 DEF HeadOffered
  <2>7. e = [d EXCEPT !.requests = q]
    BY DEF e
  <2>8. Good(d, e)
    BY <1>1, <1>3, <2>2, <2>4, <2>5, <2>6, <2>7, LineEdit
  <2>9. QED
    BY <1>5, <2>8, CommittedWell
<1>6. QED
  BY <1>1, <1>4, <1>5 DEF HumanWithdraw

-----------------------------------------------------------------------------
(* Offers and Grants.                                                      *)

(* What is left when an answered row goes.                                 *)
LEMMA WithoutIs ==
  ASSUME NEW S, NEW s \in Seq(S), NEW at \in SUBSET (DOMAIN s)
  PROVE  /\ Without(s, at) \in Seq(S)
         /\ \A j \in DOMAIN Without(s, at) : \E i \in DOMAIN s : Without(s, at)[j] = s[i]
<1>1. CASE at = {}
  BY <1>1 DEF Without
<1>2. CASE at # {}
  <2> DEFINE k == CHOOSE i \in at : TRUE
             J == RemoveAt(s, k)
  <2>1. k \in DOMAIN s
    BY <1>2
  <2>2. Without(s, at) = J
    BY <1>2 DEF Without
  <2> HIDE DEF k, J
  <2>3. /\ J \in Seq(S) /\ DOMAIN J = 1..Len(s) - 1
        /\ \A j \in 1..Len(s) - 1 : J[j] = IF j < k THEN s[j] ELSE s[j + 1]
    BY <2>1, RemoveAtIs DEF J
  <2>4. ASSUME NEW j \in DOMAIN J PROVE \E i \in DOMAIN s : J[j] = s[i]
    <3>1. j \in DOMAIN s /\ j + 1 \in DOMAIN s
      BY <2>3
    <3>2. J[j] = s[j] \/ J[j] = s[j + 1]
      BY <2>3
    <3>3. QED
      BY <3>1, <3>2
  <2>5. QED
    BY <2>2, <2>3, <2>4
<1>3. QED
  BY <1>1, <1>2

(* Leases.                                                                 *)
LEMMA LeaseIs ==
  ASSUME NEW n \in Nat, n > 0
  PROVE  /\ Min({n, HardDeadline}) \in 1..HardDeadline
         /\ Min({n, HardDeadline}) = n \/ Min({n, HardDeadline}) = HardDeadline
<1>1. HardDeadline \in Nat /\ HardDeadline > 0
  BY ConfigAssumption
<1> DEFINE M == {n, HardDeadline}
<1>2. M \in SUBSET Nat /\ M # {}
  BY <1>1
<1>3. Min(M) \in M /\ \A x \in M : Min(M) <= x
  BY <1>2, MinExists
<1>4. QED
  BY <1>1, <1>3

(* The Request an Offer is made from is the only one that is not queued.   *)
LEMMA AnsweredLine ==
  ASSUME NEW d, Standing(d), d.state.phase = "offered", NEW o, d.offers = {o},
         NEW q, q = Without(d.requests, Mine(d, o))
  PROVE  /\ q \in Seq(RequestRows)
         /\ \A i \in DOMAIN q : q[i].state = "queued"
         /\ \A i, j \in DOMAIN q : q[i].who = q[j].who => i = j
<1>1. d \in TableRows /\ OneEach(d) /\ Line(d)
  BY DEF Standing, Rows
<1>2. CASE o.source[1] = "request"
  <2>1. HeadOffered(d, o)
    BY <1>1, <1>2 DEF Line
  <2>2. Mine(d, o) = {1}
    BY <1>1, <1>2, <2>1 DEF Mine, RequestsBy, HeadOffered, OneEach
  <2>3. q = RemoveAt(d.requests, 1)
    BY <2>2 DEF Without
  <2>4. 1 \in DOMAIN d.requests
        /\ \A i \in DOMAIN d.requests : i # 1 => d.requests[i].state = "queued"
    BY <2>1 DEF HeadOffered
  <2>5. Dropped(q, d.requests, 1)
    BY <1>1, <2>3, <2>4, RequestDropped
  <2>6. QED
    BY <2>4, <2>5 DEF Dropped
<1>3. CASE o.source[1] # "request"
  <2>1. d.requests = << >> /\ Mine(d, o) = {}
    BY <1>1, <1>3 DEF Line, Mine
  <2>2. q = << >>
    BY <2>1 DEF Without
  <2>3. QED
    BY <2>2
<1>4. QED
  BY <1>2, <1>3

LEMMA OfferAckIsGood ==
  ASSUME IInv, OfferAck
  PROVE  Done
<1> DEFINE d == Tables
           o == ActiveOffer(d)
           depth == CASE o.depth_mode = "reset" -> 0
                      [] o.depth_mode = "preserve" -> o.previous_depth
                      [] OTHER -> o.previous_depth + 1
           lease == Min({SoftLease, HardDeadline})
           g == [offer |-> o.id, holder |-> o.target, source |-> o.source,
                 depth_mode |-> o.depth_mode, previous_depth |-> o.previous_depth,
                 depth |-> depth, basis |-> o.basis, age |-> 0, lease |-> lease]
           J == Without(d.intents, Answered(d, o))
           q == Without(d.requests, Mine(d, o))
           s == [d.state EXCEPT !.phase = "granted", !.active_offer = 0,
                                !.active_grant = o.id, !.depth = depth,
                                !.deadline = "none"]
           e == [d EXCEPT !.offers = @ \ {o}, !.grants = @ \cup {g},
                          !.intents = J, !.requests = q, !.state = s]
<1>1. Commit(e) /\ state.phase = "offered"
  BY DEF OfferAck
<1>2. /\ Standing(d) /\ Rows(d) /\ d \in TableRows /\ d.state = state
      /\ Floor(d) /\ Basis(d) /\ Deferrals(d) /\ Depths(d) /\ Line(d)
  BY InvStands, TablesFields
<1>3. /\ o \in OfferRows /\ d.offers = {o} /\ o.id = d.state.active_offer
      /\ d.grants = {}
  BY <1>1, <1>2, TheOffer
<1> HIDE DEF o
<1>4. /\ o.id \in Nat /\ o.target \in Participants /\ o.source \in Source
      /\ o.depth_mode \in DepthModes /\ o.previous_depth \in Nat /\ o.basis \in Nat
  BY <1>3 DEF OfferRows
<1>5. depth \in Nat /\ depth <= MaxHandoffDepth
  <2>1. /\ o.previous_depth <= MaxHandoffDepth
        /\ o.depth_mode = "increment_provisional" => o.previous_depth < MaxHandoffDepth
    BY <1>2, <1>3 DEF Depths
  <2>2. MaxHandoffDepth \in Nat
    BY ConfigAssumption
  <2>3. QED
    BY <1>4, <2>1, <2>2 DEF DepthModes
<1>6. lease \in 1..HardDeadline /\ lease > 0
  <2>1. SoftLease \in Nat /\ SoftLease > 0 /\ HardDeadline \in Nat
    BY ConfigAssumption
  <2>2. lease \in 1..HardDeadline
    BY <2>1, LeaseIs
  <2>3. QED
    BY <2>1, <2>2
<1> HIDE DEF depth, lease
<1>7. /\ g \in GrantRows /\ g.offer = o.id /\ g.basis = o.basis /\ g.depth = depth
      /\ g.previous_depth = o.previous_depth /\ g.age = 0 /\ g.lease = lease
  <2>1. HardDeadline \in Nat
    BY ConfigAssumption
  <2>2. QED
    BY <1>4, <1>5, <1>6, <2>1 DEF GrantRows
<1> HIDE DEF g
<1>8. /\ J \in Seq(IntentRows)
      /\ \A j \in DOMAIN J : \E i \in DOMAIN d.intents : J[j] = d.intents[i]
  <2>1. d.intents \in Seq(IntentRows) /\ Answered(d, o) \in SUBSET (DOMAIN d.intents)
    BY <1>2, TableTypes DEF Answered, IntentsBy
  <2>2. QED
    BY <2>1, WithoutIs
<1>9. /\ q \in Seq(RequestRows)
      /\ \A i \in DOMAIN q : q[i].state = "queued"
      /\ \A i, j \in DOMAIN q : q[i].who = q[j].who => i = j
  BY <1>1, <1>2, <1>3, AnsweredLine
<1> HIDE DEF J, q
<1>10. d.state \in HumanStateRows
  BY <1>2, TableTypes
<1>11. s \in HumanStateRows
  <2>1. depth \in 0..MaxHandoffDepth
    BY <1>5, ConfigAssumption
  <2>2. QED
    BY <1>4, <1>10, <2>1 DEF HumanStateRows, Phases
<1>12. /\ s.phase = "granted" /\ s.active_grant = o.id /\ s.depth = depth
       /\ s.speech = d.state.speech /\ s.control_epoch = d.state.control_epoch
       /\ s.decision_epoch = d.state.decision_epoch
  BY <1>10 DEF HumanStateRows
<1> HIDE DEF s
<1>13. /\ e \in TableRows /\ e.offers = {} /\ e.grants = {g} /\ e.intents = J
       /\ e.requests = q /\ e.state = s /\ e.fallbacks = d.fallbacks
  BY <1>2, <1>3, <1>7, <1>8, <1>9, <1>11 DEF TableRows
<1> HIDE DEF e
<1>14. Rows(e)
  <2>1. NextCohortAtMost(e)
    BY <1>2, <1>8, <1>12, <1>13 DEF Rows, NextCohortAtMost
  <2>2. OneEach(e)
    BY <1>9, <1>13 DEF OneEach
  <2>3. QED
    BY <1>2, <1>13, <2>1, <2>2 DEF Rows
<1>15. Floor(e)
  BY <1>7, <1>12, <1>13 DEF Floor
<1>16. Basis(e)
  BY <1>2, <1>3, <1>7, <1>12, <1>13 DEF Basis
<1>17. Deferrals(e)
  BY <1>1, <1>2, <1>3, <1>8, <1>12, <1>13 DEF Deferrals
<1>18. Depths(e)
  BY <1>2, <1>3, <1>5, <1>7, <1>12, <1>13 DEF Depths, Moderating
<1>19. Line(e)
  BY <1>9, <1>12, <1>13 DEF Line, AllQueued
<1>20. Blocks(e) /\ CohortOpen(e) /\ IdleIsIdle(e) /\ e.state.phase # "moderator_idle"
  BY <1>12, <1>13 DEF Blocks, CohortOpen, IdleIsIdle, Moderating
<1>21. Inv(e)
  BY <1>14, <1>15, <1>16, <1>17, <1>18, <1>19, <1>20 DEF Inv, Standing
<1>22. Turns(d, e)
  <2>1. d.state.control_epoch \in Nat /\ d.state.decision_epoch \in Nat
    BY <1>2, StateTypes
  <2>2. QED
    BY <1>12, <1>13, <2>1 DEF Turns, EpochsGrow, Moderating
<1>23. Leased(e)
  BY <1>6, <1>7, <1>13 DEF Leased
<1>24. Good(d, e)
  BY <1>21, <1>22, <1>23 DEF Good
<1>25. QED
  BY <1>1, <1>24, CommittedWell

LEMMA OfferDeclineIsGood ==
  ASSUME IInv, OfferDecline
  PROVE  Done
<1>1. Standing(Tables) /\ Tables.state.phase = "offered"
  BY InvStands, TablesFields DEF OfferDecline
<1>2. Good(Tables, FailActiveOffer(Tables, "declined"))
  BY <1>1, OfferFailsWell
<1>3. QED
  BY <1>2, CommittedWell DEF OfferDecline

LEMMA GrantYieldIsGood ==
  ASSUME IInv, GrantYield
  PROVE  Done
<1>1. Standing(Tables) /\ Tables.state.phase = "granted"
  BY InvStands, TablesFields DEF GrantYield
<1>2. Good(Tables, FailActiveGrant(Tables))
  BY <1>1, GrantFailsWell
<1>3. QED
  BY <1>2, CommittedWell DEF GrantYield

(* A Grant whose clock or lease moves.                                     *)
LEMMA GrantRenewed ==
  ASSUME NEW d, Standing(d), d.state.phase = "granted", NEW g, d.grants = {g},
         NEW k \in GrantRows, k.offer = g.offer, k.basis = g.basis, k.depth = g.depth,
         k.previous_depth = g.previous_depth, NEW e, e = [d EXCEPT !.grants = {k}]
  PROVE  /\ Inv(e) /\ Turns(d, e) /\ e.grants = {k} /\ e.state = d.state
<1>1. /\ Rows(d) /\ d \in TableRows /\ Floor(d) /\ Basis(d) /\ Deferrals(d) /\ Depths(d)
      /\ Line(d)
  BY DEF Standing, Rows
<1>2. /\ e \in TableRows /\ e.grants = {k} /\ e.state = d.state
      /\ e.handoffs = d.handoffs /\ e.intents = d.intents /\ e.offers = d.offers
      /\ e.requests = d.requests /\ e.fallbacks = d.fallbacks
  BY <1>1 DEF TableRows
<1>3. Rows(e)
  BY <1>1, <1>2 DEF Rows, OneEach, NextCohortAtMost
<1>4. g.offer = d.state.active_grant /\ d.offers = {}
  BY <1>1 DEF Floor
<1>5. Floor(e)
  BY <1>2, <1>4 DEF Floor
<1>6. Basis(e) /\ Deferrals(e) /\ Depths(e)
  BY <1>1, <1>2, <1>4 DEF Basis, Deferrals, Depths
<1>7. Line(e)
  BY <1>1, <1>2, <1>4 DEF Line, AllQueued
<1>8. Blocks(e) /\ CohortOpen(e) /\ IdleIsIdle(e) /\ e.state.phase # "moderator_idle"
  BY <1>2 DEF Blocks, CohortOpen, IdleIsIdle, Moderating
<1>9. Inv(e)
  BY <1>3, <1>5, <1>6, <1>7, <1>8 DEF Inv, Standing
<1>10. Turns(d, e)
  <2>1. d.state.control_epoch \in Nat /\ d.state.decision_epoch \in Nat
    BY <1>1, StateTypes
  <2>2. QED
    BY <1>2, <2>1 DEF Turns, EpochsGrow, Moderating
<1>11. QED
  BY <1>2, <1>9, <1>10

(* The clock of a Grant that is not late yet.                              *)
LEMMA GrantClock ==
  ASSUME IInv, Live, state.phase = "granted"
  PROVE  LET g == ActiveGrant(Tables)
         IN  /\ Standing(Tables) /\ Tables.state.phase = "granted"
             /\ Tables.grants = {g} /\ g \in GrantRows
             /\ g.age \in Nat /\ g.lease \in Nat /\ HardDeadline \in Nat
             /\ g.age < g.lease /\ g.lease <= HardDeadline
<1> DEFINE g == ActiveGrant(Tables)
<1>1. Standing(Tables) /\ Tables.state.phase = "granted"
  BY InvStands, TablesFields
<1>2. Tables.grants = {g} /\ g \in GrantRows
  BY <1>1, InvStands, TheGrant
<1>3. Leased(Tables)
  BY DEF IInv, Live
<1> HIDE DEF g
<1>4. g.age < g.lease
  BY <1>2, <1>3 DEF Leased
<1>5. HardDeadline \in Nat
  BY ConfigAssumption
<1>6. g.age \in 0..HardDeadline /\ g.lease \in 1..HardDeadline
  BY <1>2 DEF GrantRows
<1>7. QED
  BY <1>1, <1>2, <1>4, <1>5, <1>6 DEF g

LEMMA GrantProgressIsGood ==
  ASSUME IInv, GrantProgress
  PROVE  Done
<1> DEFINE d == Tables
           g == ActiveGrant(d)
           lease == Min({g.age + SoftLease, HardDeadline})
           k == [g EXCEPT !.lease = lease]
           e == [d EXCEPT !.grants = {k}]
<1>1. Live /\ state.phase = "granted" /\ Commit([d EXCEPT !.grants = (@ \ {g}) \cup {k}])
  BY DEF GrantProgress
<1>2. /\ Standing(d) /\ d.state.phase = "granted"
      /\ d.grants = {g} /\ g \in GrantRows
      /\ g.age \in Nat /\ g.lease \in Nat /\ HardDeadline \in Nat
      /\ g.age < g.lease /\ g.lease <= HardDeadline
  BY <1>1, GrantClock
<1> HIDE DEF g
<1>3. lease \in 1..HardDeadline /\ g.age < lease
  <2>1. SoftLease \in Nat /\ SoftLease > 0
    BY ConfigAssumption
  <2> DEFINE n == g.age + SoftLease
  <2>2. n \in Nat /\ n > 0 /\ g.age < n
    BY <1>2, <2>1
  <2> HIDE DEF n
  <2>3. /\ Min({n, HardDeadline}) \in 1..HardDeadline
        /\ Min({n, HardDeadline}) = n \/ Min({n, HardDeadline}) = HardDeadline
    BY <2>2, LeaseIs
  <2>4. QED
    BY <1>2, <2>2, <2>3 DEF n
<1> HIDE DEF lease
<1>4. /\ k \in GrantRows /\ k.offer = g.offer /\ k.basis = g.basis /\ k.depth = g.depth
      /\ k.previous_depth = g.previous_depth /\ k.age = g.age /\ k.lease = lease
  BY <1>2, <1>3 DEF GrantRows
<1> HIDE DEF k
<1>5. (d.grants \ {g}) \cup {k} = {k}
  BY <1>2
<1>6. Commit(e)
  BY <1>1, <1>5
<1> HIDE DEF e
<1>7. Inv(e) /\ Turns(d, e) /\ e.grants = {k}
  BY <1>2, <1>4, GrantRenewed DEF e
<1>8. Leased(e)
  BY <1>3, <1>4, <1>7 DEF Leased
<1>9. Good(d, e)
  BY <1>7, <1>8 DEF Good
<1>10. QED
  BY <1>6, <1>9, CommittedWell

(* Once the Grant is spoken the tables are bare, whatever Handoff is added. *)
LEMMA SpokenIsBare ==
  ASSUME NEW d, Standing(d), d.state.phase = "granted", NEW g, g = ActiveGrant(d)
  PROVE  LET e == Spoken(d, g)
         IN  /\ Bare(e) /\ e.state.depth = g.depth
             /\ e.state.control_epoch = d.state.control_epoch
             /\ e.state.decision_epoch = d.state.decision_epoch
<1> DEFINE x == [d EXCEPT !.grants = @ \ {g}]
           r == ReleaseDeferrals(x, g.offer)
           H == {h \in r.handoffs : ~(g.source[1] = "handoff" /\ h.id = g.source[2])}
           s == [d.state EXCEPT !.speech = @ + 1, !.depth = g.depth,
                                !.consecutive = IF ByModerator(g) THEN @ + 1 ELSE 0]
           e == Spoken(d, g)
<1>1. /\ d \in TableRows /\ IsFiniteSet(d.fallbacks) /\ OneEach(d) /\ NextCohortAtMost(d)
      /\ Floor(d) /\ Deferrals(d) /\ Line(d) /\ Depths(d)
  BY DEF Standing, Rows
<1>2. /\ g \in GrantRows /\ d.grants = {g} /\ g.offer = d.state.active_grant
      /\ d.offers = {}
  BY <1>1, TheGrant
<1>3. e = [r EXCEPT !.handoffs = H, !.fallbacks = {}, !.state = s]
  BY DEF Spoken
<1> HIDE DEF e
<1>4. g.depth \in 0..MaxHandoffDepth
  BY <1>1, <1>2, ConfigAssumption DEF Depths, GrantRows
<1>5. /\ x \in TableRows /\ x.offers = {} /\ x.grants = {} /\ x.state = d.state
      /\ x.intents = d.intents /\ x.requests = d.requests
  BY <1>1, <1>2 DEF TableRows
<1> HIDE DEF x
<1>6. /\ r \in TableRows /\ r.offers = {} /\ r.grants = {} /\ r.state = d.state
      /\ r.requests = d.requests
      /\ DOMAIN r.intents = DOMAIN d.intents
      /\ \A i \in DOMAIN d.intents :
           /\ r.intents[i].eligible = d.intents[i].eligible
           /\ d.intents[i].deferred_by \in {0, g.offer} => r.intents[i].deferred_by = 0
  BY <1>5, ReleasedIntents
<1> HIDE DEF r
<1>7. \A i \in DOMAIN d.intents : d.intents[i].deferred_by \in {0, g.offer}
  BY <1>1, <1>2 DEF Deferrals
<1>8. AllQueued(d)
  BY <1>1 DEF Line
<1>9. d.state \in HumanStateRows
  BY <1>1, TableTypes
<1>10. /\ s \in HumanStateRows /\ s.depth = g.depth
       /\ s.control_epoch = d.state.control_epoch
       /\ s.decision_epoch = d.state.decision_epoch
  <2> DEFINE n == d.state.speech + 1
             c == IF ByModerator(g) THEN d.state.consecutive + 1 ELSE 0
  <2>1. n \in Nat /\ c \in Nat
    <3>1. d.state.speech \in Nat /\ d.state.consecutive \in Nat
      BY <1>1, StateTypes
    <3>2. CASE ByModerator(g)
      BY <3>1, <3>2
    <3>3. CASE ~ByModerator(g)
      BY <3>1, <3>3
    <3>4. QED
      BY <3>2, <3>3
  <2>2. s = [d.state EXCEPT !.speech = n, !.depth = g.depth, !.consecutive = c]
    OBVIOUS
  <2> HIDE DEF n, c, s
  <2>3. QED
    BY <1>4, <1>9, <2>1, <2>2 DEF HumanStateRows
<1>11. H \subseteq HandoffRows
  BY <1>6, TableTypes
<1> HIDE DEF s, H
<1>12. /\ e \in TableRows /\ e.offers = {} /\ e.grants = {} /\ e.requests = d.requests
       /\ e.fallbacks = {} /\ e.intents = r.intents /\ e.state = s
  BY <1>3, <1>6, <1>10, <1>11 DEF TableRows
<1>13. Rows(e)
  <2>1. IsFiniteSet(e.fallbacks)
    BY <1>12, FS_EmptySet
  <2>2. QED
    BY <1>1, <1>6, <1>10, <1>12, <2>1 DEF Rows, OneEach, NextCohortAtMost
<1>14. Bare(e)
  BY <1>6, <1>7, <1>8, <1>12, <1>13 DEF Bare, AllQueued
<1>15. QED
  BY <1>10, <1>12, <1>14 DEF e

LEMMA BareAside ==
  ASSUME NEW d, Bare(d), NEW e, e \in TableRows, e.state.decision_epoch = d.state.decision_epoch,
         e.intents = d.intents, e.requests = d.requests, e.offers = d.offers,
         e.grants = d.grants, e.fallbacks = d.fallbacks
  PROVE  Bare(e)
BY DEF Bare, Rows, OneEach, NextCohortAtMost, AllQueued

LEMMA SpeechIsGood ==
  ASSUME IInv, NEW to \in Participants, Speech(to)
  PROVE  Done
<1> DEFINE z == Tables
           g == ActiveGrant(z)
           d == Spoken(z, g)
           asks == to # g.holder
           opens == asks /\ Cardinality(d.handoffs) < MaxOpenHandoffs
           block == HandoffBlock(d, g)
           h == [id |-> d.state.speech, to |-> to, blocked_by |-> block,
                 suppressed |-> FALSE, attempts |-> 0,
                 eligible |-> d.state.decision_epoch + 1]
           t == IF opens THEN [d EXCEPT !.handoffs = @ \cup {h}] ELSE d
           forced == \/ d.state.forced_return
                     \/ ~ByModerator(g) /\ g.depth >= MaxHandoffDepth
           own == [t EXCEPT !.state.depth = 0]
           source == <<"handoff", h.id, 0>>
           e == CASE Queued(t) # {} -> OfferHumanRequest(t)
                  [] Queued(t) = {} /\ ~forced /\ opens /\ block = "none" ->
                       IF ByModerator(g) THEN MakeOffer(own, to, source, "reset")
                       ELSE MakeOffer(t, to, source, "increment_provisional")
                  [] OTHER -> ReturnControl(t)
<1>1. Commit(e) /\ state.phase = "granted"
  BY DEF Speech
<1>2. Standing(z) /\ z \in TableRows /\ z.state.phase = "granted"
  BY <1>1, InvStands, TablesFields
<1>3. g \in GrantRows /\ g.depth \in Nat /\ g.depth <= MaxHandoffDepth
  <2>1. g \in GrantRows /\ z.grants = {g}
    BY <1>2, InvStands, TheGrant
  <2> HIDE DEF g
  <2>2. g.depth \in Nat
    BY <2>1 DEF GrantRows
  <2>3. QED
    BY <2>1, <2>2, InvStands DEF Depths
<1>4. /\ Bare(d) /\ d.state.depth = g.depth
      /\ d.state.control_epoch = z.state.control_epoch
      /\ d.state.decision_epoch = z.state.decision_epoch
  BY <1>2, SpokenIsBare
<1> HIDE DEF g, d
<1>5. d \in TableRows /\ d.state.speech \in Nat /\ d.state.decision_epoch \in Nat
  BY <1>4, StateTypes DEF Bare, Rows
<1>6. block \in {"none", "human_request", "recall", "max_depth"}
  BY DEF HandoffBlock
<1> HIDE DEF block
<1>7. h \in HandoffRows /\ h.id = d.state.speech
  <2> DEFINE n == d.state.decision_epoch + 1
  <2>1. n \in Nat
    BY <1>5
  <2> HIDE DEF n
  <2>2. h = [id |-> d.state.speech, to |-> to, blocked_by |-> block,
             suppressed |-> FALSE, attempts |-> 0, eligible |-> n]
    BY DEF n
  <2> HIDE DEF h
  <2>3. QED
    BY <1>5, <1>6, <2>1, <2>2 DEF HandoffRows
<1> HIDE DEF h, opens, forced
<1>8. /\ t \in TableRows /\ t.state = d.state
      /\ t.intents = d.intents /\ t.requests = d.requests /\ t.offers = d.offers
      /\ t.grants = d.grants /\ t.fallbacks = d.fallbacks
  <2>1. CASE opens
    <3> DEFINE H == d.handoffs \cup {h}
    <3>1. t = [d EXCEPT !.handoffs = H]
      BY <2>1
    <3>2. H \in SUBSET HandoffRows
      BY <1>5, <1>7, TableTypes
    <3> HIDE DEF H, t
    <3>3. QED
      BY <1>5, <3>1, <3>2, OtherHandoffs
  <2>2. CASE ~opens
    BY <1>5, <2>2
  <2>3. QED
    BY <2>1, <2>2
<1> HIDE DEF t
<1>9. Bare(t)
  BY <1>4, <1>8, BareAside
<1>10. ASSUME NEW x, Inv(x), NEW y, Moves(y, x), x.state.phase # "granted",
              y.state.control_epoch = d.state.control_epoch,
              y.state.decision_epoch = d.state.decision_epoch
       PROVE  Good(z, x)
  <2>1. Moves(z, x)
    BY <1>4, <1>10 DEF Moves, EpochsGrow
  <2>2. QED
    BY <1>10, <2>1, MovesIsGood
<1>11. source \in Source /\ source[1] # "request"
  BY <1>5, <1>7 DEF Source
<1> HIDE DEF source
<1>12. CASE Queued(t) # {}
  <2> DEFINE x == OfferHumanRequest(t)
  <2>1. e = x
    BY <1>12
  <2>2. Inv(x) /\ Moves(t, x) /\ x.state.phase = "offered"
    BY <1>9, <1>12, RequestOffered
  <2> HIDE DEF x, e
  <2>3. Good(z, e)
    BY <1>8, <1>10, <2>1, <2>2
  <2>4. QED
    BY <1>1, <2>3, CommittedWell
<1>13. CASE Queued(t) = {} /\ ~forced /\ opens /\ block = "none" /\ ByModerator(g)
  <2> DEFINE s == [t.state EXCEPT !.depth = 0]
             x == MakeOffer(own, to, source, "reset")
  <2>1. e = x
    BY <1>13
  <2>2. t.state \in HumanStateRows /\ own = [t EXCEPT !.state = s]
    BY <1>8, TableTypes
  <2>3. /\ s \in HumanStateRows /\ s.control_epoch = t.state.control_epoch
        /\ s.decision_epoch = t.state.decision_epoch
    <3>1. 0 \in 0..MaxHandoffDepth
      BY ConfigAssumption
    <3>2. QED
      BY <2>2, <3>1 DEF HumanStateRows
  <2> HIDE DEF s, own
  <2>4. /\ own \in TableRows /\ own.state = s
        /\ own.intents = t.intents /\ own.requests = t.requests /\ own.offers = t.offers
        /\ own.grants = t.grants /\ own.fallbacks = t.fallbacks
    BY <1>8, <2>2, <2>3, OtherState
  <2>5. Bare(own) /\ own.requests = << >>
    <3>1. t.requests = << >>
      BY <1>9, <1>13, NobodyQueued
    <3>2. QED
      BY <1>9, <2>3, <2>4, <3>1, BareAside
  <2>6. Inv(x) /\ Moves(own, x) /\ x.state.phase = "offered"
    BY <1>11, <2>5, OfferBare DEF DepthModes
  <2> HIDE DEF x, e
  <2>7. Good(z, e)
    BY <1>8, <1>10, <2>1, <2>3, <2>4, <2>6
  <2>8. QED
    BY <1>1, <2>7, CommittedWell
<1>14. CASE Queued(t) = {} /\ ~forced /\ opens /\ block = "none" /\ ~ByModerator(g)
  <2> DEFINE x == MakeOffer(t, to, source, "increment_provisional")
  <2>1. e = x
    BY <1>14
  <2>2. t.requests = << >>
    BY <1>9, <1>14, NobodyQueued
  <2>3. t.state.depth < MaxHandoffDepth
    <3>1. ~(g.depth >= MaxHandoffDepth)
      BY <1>14 DEF forced
    <3>2. QED
      BY <1>3, <1>4, <1>8, <3>1, ConfigAssumption
  <2>4. Inv(x) /\ Moves(t, x) /\ x.state.phase = "offered"
    BY <1>9, <1>11, <2>2, <2>3, OfferBare DEF DepthModes
  <2> HIDE DEF x, e
  <2>5. Good(z, e)
    BY <1>8, <1>10, <2>1, <2>4
  <2>6. QED
    BY <1>1, <2>5, CommittedWell
<1>15. CASE Queued(t) = {} /\ ~(~forced /\ opens /\ block = "none")
  <2> DEFINE x == ReturnControl(t)
  <2>1. e = x
    BY <1>15
  <2>2. t.requests = << >>
    BY <1>9, <1>15, NobodyQueued
  <2>3. Inv(x) /\ Moves(t, x) /\ x.state.phase \in Moderating
    BY <1>9, <2>2, ControlBare
  <2> HIDE DEF x, e
  <2>4. x.state.phase # "granted"
    BY <2>3 DEF Moderating
  <2>5. Good(z, e)
    BY <1>8, <1>10, <2>1, <2>3, <2>4
  <2>6. QED
    BY <1>1, <2>5, CommittedWell
<1>16. QED
  BY <1>12, <1>13, <1>14, <1>15

-----------------------------------------------------------------------------
(* Time, recovery and End.                                                 *)

(* The passing of time turns nothing: it makes the holder late.            *)
LEMMA TickIsGood ==
  ASSUME IInv, Tick
  PROVE  IInv' /\ Turns(Tables, Tables')
<1> DEFINE d == Tables
<1>1. /\ Inv(d) /\ Standing(d) /\ d \in TableRows /\ d.state = state /\ Live
      /\ commands \in 0..MaxCommands
      /\ d.state.control_epoch \in Nat /\ d.state.decision_epoch \in Nat
  BY InvStands, TablesFields, StateTypes DEF IInv, Tick
<1>2. UNCHANGED <<state, intents, requests, handoffs, offers, fallbacks, commands>>
  BY DEF Tick
<1>3. CASE /\ UNCHANGED <<grants, attempt>> /\ late' = TRUE
           /\ state.phase # "moderator_idle"
  <2>1. Tables' = Tables
    BY <1>2, <1>3 DEF Tables
  <2>2. Turns(d, d)
    BY <1>1 DEF Turns, EpochsGrow, Moderating
  <2>3. QED
    BY <1>1, <1>2, <1>3, <2>1, <2>2 DEF IInv
<1>4. CASE /\ state.phase = "granted"
           /\ LET g == ActiveGrant(d)
              IN  /\ grants' = (grants \ {g}) \cup {[g EXCEPT !.age = @ + 1]}
                  /\ late' = (g.age + 1 >= g.lease)
           /\ UNCHANGED attempt
  <2> DEFINE g == ActiveGrant(d)
             k == [g EXCEPT !.age = @ + 1]
             e == [d EXCEPT !.grants = {k}]
  <2>1. /\ d.grants = {g} /\ g \in GrantRows
        /\ g.age \in Nat /\ g.lease \in Nat /\ HardDeadline \in Nat
        /\ g.age < g.lease /\ g.lease <= HardDeadline
    BY <1>1, <1>4, GrantClock
  <2>2. grants' = {k} /\ late' = (g.age + 1 >= g.lease)
    BY <1>4, <2>1, TablesFields
  <2> HIDE DEF g
  <2>3. /\ k \in GrantRows /\ k.offer = g.offer /\ k.basis = g.basis /\ k.depth = g.depth
        /\ k.previous_depth = g.previous_depth /\ k.age = g.age + 1 /\ k.lease = g.lease
    BY <2>1 DEF GrantRows
  <2> HIDE DEF k
  <2>4. Tables' = e
    BY <1>2, <1>4, <2>2 DEF Tables
  <2> HIDE DEF e
  <2>5. Inv(e) /\ Turns(d, e) /\ e.grants = {k} /\ e.state = d.state
    BY <1>1, <1>4, <2>1, <2>3, GrantRenewed DEF e
  <2>6. ASSUME ~late' PROVE Leased(e)
    <3>1. ~(g.age + 1 >= g.lease)
      BY <2>2, <2>6, Zenon
    <3>2. k.age < k.lease
      BY <2>1, <2>3, <3>1
    <3>3. QED
      BY <2>5, <3>2 DEF Leased
  <2>7. QED
    BY <1>1, <1>2, <1>4, <2>2, <2>4, <2>5, <2>6 DEF IInv
<1>5. state.phase \in Moderating /\ state.deadline # "none" => state.phase # "moderator_idle"
  BY <1>1 DEF Inv, IdleIsIdle
<1>6. state.deadline # "attempt"
  BY <1>1, StateTypes
<1>7. QED
  BY <1>3, <1>4, <1>5, <1>6, Zenon DEF Tick

LEMMA AdvanceDueIsGood ==
  ASSUME IInv, AdvanceDue
  PROVE  Done /\ Leased(Tables')
<1> DEFINE d == Tables
           e == CASE state.phase = "offered" -> FailActiveOffer(d, "timed_out")
                  [] state.phase = "granted" -> FailActiveGrant(d)
                  [] OTHER -> FallbackOrIdle(d, state.decision_epoch)
<1>1. /\ Standing(d) /\ d \in TableRows /\ d.state = state
      /\ d.state.phase \in Phases /\ state.active_attempt = FALSE
  BY InvStands, TablesFields, StateTypes
<1>2. Commit(e) /\ late /\ state.phase # "ended"
  BY <1>1 DEF AdvanceDue
<1>3. state.phase \in {"offered", "granted", "moderator_control"}
  BY <1>1, <1>2 DEF IInv, Phases, Moderating
<1>4. ASSUME Good(d, e), Leased(e) PROVE Done /\ Leased(Tables')
  <2>1. Done /\ Tables' = e
    BY <1>2, <1>4, CommittedWell
  <2>2. QED
    BY <1>4, <2>1
<1>5. CASE state.phase = "offered"
  <2>1. e = FailActiveOffer(d, "timed_out")
    BY <1>5
  <2>2. Good(d, FailActiveOffer(d, "timed_out")) /\ Leased(FailActiveOffer(d, "timed_out"))
    BY <1>1, <1>5, OfferFailsWell
  <2>3. QED
    BY <1>4, <2>1, <2>2
<1>6. CASE state.phase = "granted"
  <2>1. e = FailActiveGrant(d)
    BY <1>6
  <2>2. Good(d, FailActiveGrant(d)) /\ Leased(FailActiveGrant(d))
    BY <1>1, <1>6, GrantFailsWell
  <2>3. QED
    BY <1>4, <2>1, <2>2
<1>7. CASE state.phase = "moderator_control"
  <2> DEFINE x == FallbackOrIdle(d, d.state.decision_epoch)
  <2>1. e = x
    BY <1>1, <1>7
  <2>2. Inv(x) /\ EpochsGrow(d, x) /\ x.state.phase # "granted"
    BY <1>1, <1>7, FallbackStands
  <2> HIDE DEF x
  <2>3. Leased(x)
    BY <2>2 DEF Inv, Standing, Floor, Leased
  <2>4. Good(d, x)
    BY <1>1, <1>7, <2>2, <2>3 DEF Good, Turns
  <2>5. QED
    BY <1>4, <2>1, <2>3, <2>4
<1>8. QED
  BY <1>3, <1>5, <1>6, <1>7

LEMMA EndIsGood ==
  ASSUME IInv, End
  PROVE  Done /\ Leased(Tables')
<1> DEFINE d == Tables
           s == [d.state EXCEPT !.phase = "ended", !.active_offer = 0,
                                !.active_grant = 0, !.active_attempt = FALSE,
                                !.depth = 0, !.consecutive = 0,
                                !.forced_return = FALSE, !.deadline = "none"]
           e == [d EXCEPT !.intents = << >>, !.requests = << >>, !.handoffs = {},
                          !.offers = {}, !.grants = {}, !.attempt = NoAttempt, !.state = s]
<1>1. /\ Standing(d) /\ Rows(d) /\ d \in TableRows /\ d.state = state
      /\ d.state \in HumanStateRows /\ d.attempt = NoAttempt /\ attempt = NoAttempt
      /\ d.state.control_epoch \in Nat /\ d.state.decision_epoch \in Nat
  BY InvStands, TablesFields, TableTypes, StateTypes
<1>2. Commit(e)
  <2>1. NoAttempt.state # "running"
    BY DEF NoAttempt
  <2>2. (IF d.attempt.state = "running" THEN EndAttempt(d, "over").attempt ELSE d.attempt)
          = NoAttempt
    BY <1>1, <2>1
  <2>3. QED
    BY <2>2 DEF End
<1>3. /\ s \in HumanStateRows /\ s.phase = "ended"
      /\ s.control_epoch = d.state.control_epoch
      /\ s.decision_epoch = d.state.decision_epoch
  <2>1. 0 \in 0..MaxHandoffDepth
    BY ConfigAssumption
  <2>2. QED
    BY <1>1, <2>1 DEF HumanStateRows, Phases
<1> HIDE DEF s
<1>4. /\ e \in TableRows /\ e.state = s /\ e.intents = << >> /\ e.requests = << >>
      /\ e.handoffs = {} /\ e.offers = {} /\ e.grants = {} /\ e.fallbacks = d.fallbacks
  <2> DEFINE I == << >>
             H == {}
  <2>1. /\ I \in Seq(IntentRows) /\ I \in Seq(RequestRows) /\ H \in SUBSET HandoffRows
        /\ H \in SUBSET OfferRows /\ H \in SUBSET GrantRows
    OBVIOUS
  <2>2. e = [d EXCEPT !.intents = I, !.requests = I, !.handoffs = H, !.offers = H,
                      !.grants = H, !.attempt = NoAttempt, !.state = s]
    OBVIOUS
  <2> HIDE DEF I, H, e
  <2>3. /\ e \in TableRows /\ e.state = s /\ e.intents = I /\ e.requests = I
        /\ e.handoffs = H /\ e.offers = H /\ e.grants = H /\ e.fallbacks = d.fallbacks
    BY <1>1, <1>3, <2>1, <2>2 DEF TableRows
  <2>4. QED
    BY <2>3 DEF I, H
<1> HIDE DEF e
<1>5. Rows(e)
  BY <1>1, <1>4 DEF Rows, OneEach, NextCohortAtMost
<1>6. Floor(e) /\ Basis(e) /\ Deferrals(e) /\ Depths(e)
  BY <1>3, <1>4 DEF Floor, Basis, Deferrals, Depths, Moderating
<1>7. Line(e) /\ Blocks(e) /\ CohortOpen(e) /\ IdleIsIdle(e)
      /\ e.state.phase # "moderator_idle"
  BY <1>3, <1>4 DEF Line, Blocks, CohortOpen, IdleIsIdle, Moderating
<1>8. Inv(e)
  BY <1>5, <1>6, <1>7 DEF Inv, Standing
<1>9. Turns(d, e) /\ Leased(e)
  BY <1>1, <1>3, <1>4 DEF Turns, EpochsGrow, Moderating, Leased
<1>10. Good(d, e)
  BY <1>8, <1>9 DEF Good
<1>11. QED
  BY <1>2, <1>9, <1>10, CommittedWell

-----------------------------------------------------------------------------
(* The invariant holds for ever.                                           *)

LEMMA DoneIsGood ==
  ASSUME IInv, Done, ~late \/ Leased(Tables'), commands' \in 0..MaxCommands
  PROVE  IInv' /\ Turns(Tables, Tables')
<1>1. Inv(Tables') /\ Turns(Tables, Tables') /\ late' = FALSE
  BY DEF Done, Good
<1>2. Leased(Tables')
  BY DEF Done, Good, IInv
<1>3. QED
  BY <1>1, <1>2 DEF IInv

LEMMA InitIsGood ==
  ASSUME Init
  PROVE  IInv
<1> DEFINE d == Tables
           I == << >>
           H == {}
           s == [phase |-> "moderator_idle", active_offer |-> 0, active_grant |-> 0,
                 active_attempt |-> FALSE, depth |-> 0, consecutive |-> 0,
                 forced_return |-> FALSE, deadline |-> "none", control_epoch |-> 1,
                 decision_epoch |-> 0, decision_attempt |-> 0, speech |-> 0]
<1>1. /\ d.state = s /\ d.intents = I /\ d.requests = I /\ d.handoffs = H /\ d.offers = H
      /\ d.grants = H /\ d.attempt = NoAttempt /\ d.fallbacks = H /\ state = s
  BY TablesFields DEF Init
<1>2. /\ s \in HumanStateRows /\ s.phase = "moderator_idle" /\ s.deadline = "none"
      /\ s.depth = 0 /\ s.decision_epoch = 0
  <2>1. 0 \in 0..MaxHandoffDepth
    BY ConfigAssumption
  <2>2. QED
    BY <2>1 DEF HumanStateRows, Phases, Moderating
<1>3. /\ I \in Seq(IntentRows) /\ I \in Seq(RequestRows) /\ H \in SUBSET HandoffRows
      /\ H \in SUBSET OfferRows /\ H \in SUBSET GrantRows
      /\ H \in SUBSET (Participants \X Nat) /\ IsFiniteSet(H)
  BY FS_EmptySet
<1>4. DOMAIN I = {}
  OBVIOUS
<1>5. d \in TableRows
  <2>1. d = [state |-> d.state, intents |-> d.intents, requests |-> d.requests,
             handoffs |-> d.handoffs, offers |-> d.offers, grants |-> d.grants,
             attempt |-> d.attempt, fallbacks |-> d.fallbacks]
    BY DEF Tables
  <2> HIDE DEF d, s, I, H
  <2>2. QED
    BY <1>1, <1>2, <1>3, <2>1 DEF TableRows
<1> HIDE DEF d, s
<1>6. Rows(d)
  BY <1>1, <1>3, <1>4, <1>5 DEF Rows, OneEach, NextCohortAtMost
<1>7. Floor(d) /\ Basis(d) /\ Deferrals(d) /\ Depths(d)
  BY <1>1, <1>2, <1>4 DEF Floor, Basis, Deferrals, Depths
<1>8. Line(d) /\ Blocks(d) /\ CohortOpen(d)
  BY <1>1, <1>2, <1>4 DEF Line, Blocks, CohortOpen
<1>9. IdleIsIdle(d)
  <2>1. FallbackCandidates(d, d.state.decision_epoch + 1) = {}
    BY <1>1, <1>4 DEF FallbackCandidates, CohortIntents
  <2>2. QED
    BY <1>1, <1>2, <2>1 DEF IdleIsIdle
<1>10. Inv(d)
  BY <1>1, <1>2, <1>6, <1>7, <1>8, <1>9 DEF Inv, Standing
<1>11. Leased(d)
  BY <1>1 DEF Leased
<1>12. late = FALSE /\ commands \in 0..MaxCommands
  BY ConfigAssumption DEF Init
<1>13. QED
  BY <1>10, <1>11, <1>12 DEF IInv, d

(* A Human moderator starts no attempt, so nothing that needs one happens. *)
LEMMA NoAttempts ==
  ASSUME IInv, AgentModerator = FALSE
  PROVE  /\ attempt.snapshot = {}
         /\ \A r \in BOOLEAN : ~AttemptStart(r) /\ ~AttemptFinish(r)
         /\ ~AttemptAbandon /\ ~CompleteCohort /\ ~WithdrawSelf /\ ~AttemptDeadline
<1>1. attempt = NoAttempt
  BY InvStands, TableTypes, TablesFields
<1>2. attempt.snapshot = {} /\ attempt.state # "running"
  BY <1>1 DEF NoAttempt
<1>3. QED
  BY <1>2 DEF AttemptStart, AttemptFinish, AttemptAbandon, CompleteCohort, WithdrawSelf,
              AttemptDeadline

(* The budget of commands.                                                 *)
LEMMA BudgetKept ==
  ASSUME IInv, Spend \/ Free
  PROVE  commands' \in 0..MaxCommands
<1>1. MaxCommands \in Nat /\ commands \in 0..MaxCommands
  BY ConfigAssumption DEF IInv
<1>2. QED
  BY <1>1 DEF Spend, Free

LEMMA NextIsGood ==
  ASSUME IInv, AgentModerator = FALSE, Next
  PROVE  IInv' /\ Turns(Tables, Tables')
<1>1. ASSUME Done, Live, Spend \/ Free
      PROVE  IInv' /\ Turns(Tables, Tables')
  BY <1>1, BudgetKept, DoneIsGood DEF Live
<1>2. ASSUME Done, Leased(Tables'), Free
      PROVE  IInv' /\ Turns(Tables, Tables')
  BY <1>2, BudgetKept, DoneIsGood
<1>3. ASSUME NEW a \in Participants, IntentSubmit(a)
      PROVE  IInv' /\ Turns(Tables, Tables')
  <2>1. Live /\ Spend
    BY <1>3 DEF IntentSubmit
  <2>2. QED
    BY <1>1, <1>3, <2>1, IntentSubmitIsGood
<1>4. ASSUME NEW a \in Participants, IntentRefresh(a)
      PROVE  IInv' /\ Turns(Tables, Tables')
  <2>1. Live /\ Spend
    BY <1>4 DEF IntentRefresh
  <2>2. QED
    BY <1>1, <1>4, <2>1, IntentRefreshIsGood
<1>5. ASSUME NEW a \in Participants, IntentWithdraw(a) \/ ModeratorReject(a)
      PROVE  IInv' /\ Turns(Tables, Tables')
  <2>1. Live /\ Free
    BY <1>5 DEF IntentWithdraw, ModeratorReject
  <2>2. QED
    BY <1>1, <1>5, <2>1, IntentWithdrawIsGood
<1>6. ASSUME NEW source \in Named, NEW D, ModeratorSelect(source, D)
      PROVE  IInv' /\ Turns(Tables, Tables')
  <2>1. Live /\ Spend
    BY <1>6 DEF ModeratorSelect
  <2>2. QED
    BY <1>1, <1>6, <2>1, ModeratorSelectIsGood
<1>7. ASSUME NEW h \in handoffs, ModeratorDismissHandoff(h)
      PROVE  IInv' /\ Turns(Tables, Tables')
  <2>1. Live /\ Free
    BY <1>7 DEF ModeratorDismissHandoff
  <2>2. QED
    BY <1>1, <1>7, <2>1, DismissIsGood
<1>8. CASE ModeratorRecall
  <2>1. Live /\ Free
    BY <1>8 DEF ModeratorRecall
  <2>2. QED
    BY <1>1, <1>8, <2>1, RecallIsGood
<1>9. ASSUME NEW h \in Humans, HumanRequest(h)
      PROVE  IInv' /\ Turns(Tables, Tables')
  <2>1. Live /\ Spend
    BY <1>9 DEF HumanRequest
  <2>2. QED
    BY <1>1, <1>9, <2>1, HumanRequestIsGood
<1>10. ASSUME NEW i \in DOMAIN requests, HumanWithdraw(i)
       PROVE  IInv' /\ Turns(Tables, Tables')
  <2>1. Live /\ Free
    BY <1>10 DEF HumanWithdraw
  <2>2. QED
    BY <1>1, <1>10, <2>1, HumanWithdrawIsGood
<1>11. CASE OfferAck
  <2>1. Live /\ Free
    BY <1>11 DEF OfferAck
  <2>2. QED
    BY <1>1, <1>11, <2>1, OfferAckIsGood
<1>12. CASE OfferDecline
  <2>1. Live /\ Free
    BY <1>12 DEF OfferDecline
  <2>2. QED
    BY <1>1, <1>12, <2>1, OfferDeclineIsGood
<1>13. CASE GrantProgress
  <2>1. Live /\ Free
    BY <1>13 DEF GrantProgress
  <2>2. QED
    BY <1>1, <1>13, <2>1, GrantProgressIsGood
<1>14. CASE GrantYield
  <2>1. Live /\ Free
    BY <1>14 DEF GrantYield
  <2>2. QED
    BY <1>1, <1>14, <2>1, GrantYieldIsGood
<1>15. ASSUME NEW to \in Participants, Speech(to)
       PROVE  IInv' /\ Turns(Tables, Tables')
  <2>1. Live /\ Free
    BY <1>15 DEF Speech
  <2>2. QED
    BY <1>1, <1>15, <2>1, SpeechIsGood
<1>16. CASE Tick
  BY <1>16, TickIsGood
<1>17. CASE AdvanceDue
  <2>1. Free
    BY <1>17 DEF AdvanceDue
  <2>2. QED
    BY <1>2, <1>17, <2>1, AdvanceDueIsGood
<1>18. CASE End
  <2>1. Free
    BY <1>18 DEF End
  <2>2. QED
    BY <1>2, <1>18, <2>1, EndIsGood
<1>19. QED
  BY <1>3, <1>4, <1>5, <1>6, <1>7, <1>8, <1>9, <1>10, <1>11, <1>12, <1>13, <1>14, <1>15,
     <1>16, <1>17, <1>18, NoAttempts DEF Next

LEMMA StutterIsGood ==
  ASSUME IInv, UNCHANGED vars
  PROVE  IInv' /\ Turns(Tables, Tables')
<1>1. Tables' = Tables /\ state' = state /\ late' = late /\ commands' = commands
  BY DEF vars, Tables
<1>2. Tables.state.control_epoch \in Nat /\ Tables.state.decision_epoch \in Nat
  BY InvStands, StateTypes
<1>3. Turns(Tables, Tables)
  BY <1>2 DEF Turns, EpochsGrow, Moderating
<1>4. QED
  BY <1>1, <1>3 DEF IInv

LEMMA Invariance ==
  ASSUME AgentModerator = FALSE
  PROVE  Spec => []IInv
<1>1. Init => IInv
  BY InitIsGood
<1>2. IInv /\ [Next]_vars => IInv'
  BY NextIsGood, StutterIsGood
<1>3. QED
  BY <1>1, <1>2, PTL DEF Spec

-----------------------------------------------------------------------------
(* The theorems, for a Human moderator.                                    *)

(* The rows the transactions of meeting_baton/commands.rs write.           *)
THEOREM TypesHold ==
  ASSUME AgentModerator = FALSE
  PROVE  Spec => []TypeOK
<1>1. IInv => TypeOK
  <2> SUFFICES ASSUME IInv PROVE TypeOK
    OBVIOUS
  <2>1. /\ Tables.state \in HumanStateRows
        /\ intents \in Seq(IntentRows) /\ requests \in Seq(RequestRows)
        /\ handoffs \subseteq HandoffRows /\ offers \subseteq OfferRows
        /\ grants \subseteq GrantRows /\ attempt = NoAttempt
        /\ fallbacks \subseteq Participants \X Nat
    BY InvStands, TableTypes, TablesFields
  <2>2. state \in StateRows
    <3>1. 0..MaxHandoffDepth \subseteq Nat /\ 0 \in 0..MaxRejudgments + 1
      BY ConfigAssumption
    <3>2. HumanStateRows \subseteq StateRows
      BY <3>1 DEF HumanStateRows, StateRows
    <3>3. QED
      BY <2>1, <3>2, TablesFields
  <2>3. /\ attempt.state \in {"none", "running", "abandoned", "over"}
        /\ attempt.snapshot \subseteq Source /\ attempt.tickets \subseteq attempt.snapshot
    BY <2>1 DEF NoAttempt
  <2>4. QED
    BY <2>1, <2>2, <2>3 DEF TypeOK, IInv
<1>2. QED
  BY <1>1, Invariance, PTL

(* No handler of meeting_baton/commands.rs, in any order, leaves an Offer  *)
(* or a Grant behind that the state row does not name.  An Agent's invalid *)
(* attempt does, which is why the moderator is a Human here.               *)
THEOREM FloorHolds ==
  ASSUME AgentModerator = FALSE
  PROVE  Spec => []FloorIsWhole
<1>1. IInv => FloorIsWhole
  BY InvStands, TablesFields DEF Floor, FloorIsWhole
<1>2. QED
  BY <1>1, Invariance, PTL

(* offer_human_request_tx and the handlers that call it: a queued          *)
(* Human waits behind a Grant or behind a Human before it, nobody else.    *)
THEOREM HumansAreFirst ==
  ASSUME AgentModerator = FALSE
  PROVE  Spec => []HumansFirst
<1>1. IInv => HumansFirst
  <2> SUFFICES ASSUME IInv, NEW i \in DOMAIN requests
               PROVE  \/ requests[i].state = "queued" /\ state.phase = "granted"
                      \/ /\ requests[i].state = "queued" /\ state.phase = "offered"
                         /\ \E j \in 1..i - 1 : requests[j].state = "offered"
                      \/ /\ requests[i].state = "offered" /\ state.phase = "offered"
                         /\ state.active_offer = requests[i].offer
    BY DEF HumansFirst
  <2> DEFINE d == Tables
  <2>1. /\ d \in TableRows /\ Floor(d) /\ Line(d) /\ d.state = state /\ d.requests = requests
        /\ Len(requests) \in Nat /\ i \in 1..Len(requests)
    BY InvStands, TablesFields, TableTypes
  <2>2. state.phase \in {"offered", "granted"}
    BY <2>1 DEF Line
  <2>3. CASE state.phase = "granted"
    BY <2>1, <2>3 DEF Line, AllQueued
  <2>4. CASE state.phase = "offered"
    <3>1. PICK o \in d.offers : o.id = state.active_offer
      BY <2>1, <2>4 DEF Floor
    <3>2. HeadOffered(d, o)
      BY <2>1, <3>1 DEF Line
    <3>3. CASE i = 1
      BY <2>1, <2>4, <3>1, <3>2, <3>3 DEF HeadOffered
    <3>4. CASE i # 1
      <4>1. requests[i].state = "queued" /\ requests[1].state = "offered"
        BY <2>1, <3>2, <3>4 DEF HeadOffered
      <4>2. 1 \in 1..i - 1
        BY <2>1, <3>4
      <4>3. QED
        BY <2>4, <4>1, <4>2
    <3>5. QED
      BY <3>3, <3>4
  <2>5. QED
    BY <2>2, <2>3, <2>4
<1>2. QED
  BY <1>1, Invariance, PTL

(* insert_offer_tx takes the revision of the state row, and no speech is   *)
(* stored while an Offer or another Grant is live.                         *)
THEOREM BasisHolds ==
  ASSUME AgentModerator = FALSE
  PROVE  Spec => []BasisIsCurrent
<1>1. IInv => BasisIsCurrent
  BY InvStands, TablesFields DEF Basis, BasisIsCurrent
<1>2. QED
  BY <1>1, Invariance, PTL

(* release_offer_deferrals_tx runs wherever an Offer or a Grant ends.      *)
THEOREM DeferralsAreReleased ==
  ASSUME AgentModerator = FALSE
  PROVE  Spec => []NoStrandedDeferral
<1>1. IInv => NoStrandedDeferral
  <2> SUFFICES ASSUME IInv, NEW i \in DOMAIN intents, intents[i].deferred_by # 0
               PROVE  \/ \E o \in offers : o.id = intents[i].deferred_by
                      \/ \E g \in grants : g.offer = intents[i].deferred_by
    BY DEF NoStrandedDeferral
  <2>1. Floor(Tables) /\ Deferrals(Tables)
    BY InvStands
  <2>2. \/ state.phase = "offered" /\ intents[i].deferred_by = state.active_offer
        \/ state.phase = "granted" /\ intents[i].deferred_by = state.active_grant
    BY <2>1, TablesFields DEF Deferrals
  <2>3. QED
    BY <2>1, <2>2, TablesFields DEF Floor
<1>2. QED
  BY <1>1, Invariance, PTL

(* Handoff depth, through OfferAck, Speech and the failures that give a    *)
(* provisional depth back.                                                 *)
THEOREM DepthHolds ==
  ASSUME AgentModerator = FALSE
  PROVE  Spec => []DepthBounded
<1>1. IInv => DepthBounded
  BY InvStands, TablesFields, StateTypes DEF Depths, DepthBounded
<1>2. QED
  BY <1>1, Invariance, PTL

(* release_human_request_handoff_blocks_tx, on every way back to the       *)
(* moderator.                                                              *)
THEOREM BlocksAreReleased ==
  ASSUME AgentModerator = FALSE
  PROVE  Spec => []HumanBlocksReleased
<1>1. IInv => HumanBlocksReleased
  BY InvStands, TablesFields DEF Blocks, HumanBlocksReleased
<1>2. QED
  BY <1>1, Invariance, PTL

(* ensure_moderator_window_tx and the fallback: an idle moderator without  *)
(* a deadline leaves nothing that could be offered.                        *)
THEOREM NothingWaitsOnIdle ==
  ASSUME AgentModerator = FALSE
  PROVE  Spec => []IdleMeansNothingWaits
<1>1. IInv => IdleMeansNothingWaits
  BY TablesFields DEF IInv, Inv, IdleIsIdle, IdleMeansNothingWaits
<1>2. QED
  BY <1>1, Invariance, PTL

(* Every transaction: epochs only grow, and control comes back at a new    *)
(* control epoch.                                                          *)
THEOREM ControlComesBackFresh ==
  ASSUME AgentModerator = FALSE
  PROVE  Spec => ControlIsFresh
<1>1. IInv /\ [Next]_vars =>
        [ /\ state'.control_epoch >= state.control_epoch
          /\ state'.decision_epoch >= state.decision_epoch
          /\ state.phase \in {"offered", "granted"} /\ state'.phase \in Moderating
               => state'.control_epoch > state.control_epoch ]_vars
  <2> SUFFICES ASSUME IInv, Next
               PROVE  /\ state'.control_epoch >= state.control_epoch
                      /\ state'.decision_epoch >= state.decision_epoch
                      /\ state.phase \in {"offered", "granted"} /\ state'.phase \in Moderating
                           => state'.control_epoch > state.control_epoch
    OBVIOUS
  <2>1. Turns(Tables, Tables')
    BY NextIsGood
  <2>2. Tables.state = state /\ Tables'.state = state'
    BY DEF Tables
  <2>3. QED
    BY <2>1, <2>2 DEF Turns, EpochsGrow
<1>2. QED
  BY <1>1, Invariance, PTL DEF Spec, ControlIsFresh

-----------------------------------------------------------------------------
(***************************************************************************)
(* The decision attempts of a moderator of either kind: the attempt the    *)
(* state row calls active is the one that runs, and what an Agent judged   *)
(* is what is offered.  Neither rests on the floor being whole, which an   *)
(* Agent's invalid answer can break: all that is needed of the tables is   *)
(* that they have their columns and that pending Intents are a sequence.   *)
(***************************************************************************)

RowsOf(s) == {s[i] : i \in DOMAIN s}
IsSeq(s) == s \in Seq(RowsOf(s))

Columns == {"state", "intents", "requests", "handoffs", "offers", "grants", "attempt",
            "fallbacks"}
StateColumns == {"phase", "active_offer", "active_grant", "active_attempt", "depth",
                 "consecutive", "forced_return", "deadline", "control_epoch",
                 "decision_epoch", "decision_attempt", "speech"}
AttemptColumns == {"state", "control_epoch", "decision_epoch", "number", "speech",
                   "snapshot", "late", "tickets"}

StateShaped(s) ==
  /\ StateColumns \subseteq DOMAIN s
  /\ s.active_attempt \in BOOLEAN /\ s.speech \in Nat

Shaped(d) ==
  /\ Columns \subseteq DOMAIN d
  /\ StateShaped(d.state)
  /\ AttemptColumns \subseteq DOMAIN d.attempt
  /\ IsSeq(d.intents)

Accounted(d) == d.state.active_attempt <=> d.attempt.state = "running"

(* Only Human Requests are offered anew.                                   *)
RequestsOnly(d, e) == \A o \in e.offers : o \in d.offers \/ o.source[1] = "request"

(* Nothing happens to the attempt, and nobody but a Human is offered       *)
(* anything.                                                               *)
Quiet(d, e) ==
  /\ Shaped(e)
  /\ e.attempt = d.attempt /\ e.fallbacks = d.fallbacks
  /\ e.state.active_attempt = d.state.active_attempt
  /\ e.state.speech = d.state.speech
  /\ RequestsOnly(d, e)

AInv == Shaped(Tables) /\ Accounted(Tables)

Judged ==
  \A o \in offers' \ offers :
    /\ AgentModerator /\ o.source[1] # "request"
    /\ state'.speech = state.speech /\ fallbacks' = fallbacks
    => /\ attempt.state = "running" /\ o.source \in attempt.snapshot
       /\ attempt.control_epoch = state.control_epoch
       /\ attempt.decision_epoch = state.decision_epoch
       /\ attempt.speech = state.speech

-----------------------------------------------------------------------------
(* Sequences.                                                              *)

LEMMA AnySeq ==
  ASSUME NEW S, NEW s \in Seq(S)
  PROVE  IsSeq(s) /\ Len(s) \in Nat /\ DOMAIN s = 1..Len(s)
<1>1. Len(s) \in Nat /\ DOMAIN s = 1..Len(s) /\ s \in [1..Len(s) -> S]
  OBVIOUS
<1>2. s \in [1..Len(s) -> RowsOf(s)]
  BY <1>1 DEF RowsOf
<1>3. s \in Seq(RowsOf(s))
  BY <1>1, <1>2
<1>4. QED
  BY <1>1, <1>3 DEF IsSeq

LEMMA NoRowsSeq == IsSeq(<< >>)
<1> DEFINE s == << >>
<1>1. s \in Seq(Nat)
  OBVIOUS
<1> HIDE DEF s
<1>2. IsSeq(s)
  BY <1>1, AnySeq
<1>3. QED
  BY <1>2 DEF s

LEMMA SameLength ==
  ASSUME NEW s, IsSeq(s), NEW f, f = [i \in DOMAIN s |-> f[i]]
  PROVE  IsSeq(f)
<1>1. Len(s) \in Nat /\ DOMAIN s = 1..Len(s) /\ DOMAIN f = DOMAIN s
  BY AnySeq DEF IsSeq
<1>2. f \in [1..Len(s) -> RowsOf(f)]
  BY <1>1 DEF RowsOf
<1>3. f \in Seq(RowsOf(f))
  BY <1>1, <1>2
<1>4. QED
  BY <1>3 DEF IsSeq

LEMMA WithoutSeq ==
  ASSUME NEW s, IsSeq(s), NEW at \in SUBSET (DOMAIN s)
  PROVE  IsSeq(Without(s, at))
BY WithoutIs, AnySeq DEF IsSeq

LEMMA AppendSeq ==
  ASSUME NEW s, IsSeq(s), NEW row
  PROVE  IsSeq(Append(s, row))
<1> DEFINE S == RowsOf(s) \cup {row}
<1>1. s \in Seq(RowsOf(s)) /\ RowsOf(s) \subseteq S /\ row \in S
  BY DEF IsSeq
<1> HIDE DEF S
<1>2. s \in Seq(S)
  BY <1>1
<1>3. Append(s, row) \in Seq(S)
  BY <1>1, <1>2, AppendProperties
<1>4. QED
  BY <1>3, AnySeq

-----------------------------------------------------------------------------
(* The steps the transactions are composed of.                             *)

LEMMA QuietIsTransitive ==
  ASSUME NEW c, NEW d, NEW e, Quiet(c, d), Quiet(d, e)
  PROVE  Quiet(c, e)
BY DEF Quiet, RequestsOnly

LEMMA QuietItself ==
  ASSUME NEW d, Shaped(d)
  PROVE  Quiet(d, d)
BY DEF Quiet, RequestsOnly

(* One column other than the state row, the Intents and the Offers.        *)
LEMMA QuietColumns ==
  ASSUME NEW d, Shaped(d), NEW v
  PROVE  /\ Quiet(d, [d EXCEPT !.requests = v]) /\ Quiet(d, [d EXCEPT !.handoffs = v])
         /\ Quiet(d, [d EXCEPT !.grants = v])
<1>1. ASSUME NEW e, Columns \subseteq DOMAIN e, e.state = d.state, e.intents = d.intents,
             e.offers = d.offers, e.attempt = d.attempt, e.fallbacks = d.fallbacks
      PROVE  Quiet(d, e)
  BY <1>1 DEF Quiet, RequestsOnly, Shaped
<1> DEFINE x == [d EXCEPT !.requests = v]
           y == [d EXCEPT !.handoffs = v]
           z == [d EXCEPT !.grants = v]
<1>2. /\ Columns \subseteq DOMAIN x /\ x.state = d.state /\ x.intents = d.intents
      /\ x.offers = d.offers /\ x.attempt = d.attempt /\ x.fallbacks = d.fallbacks
  BY DEF Shaped, Columns
<1>3. /\ Columns \subseteq DOMAIN y /\ y.state = d.state /\ y.intents = d.intents
      /\ y.offers = d.offers /\ y.attempt = d.attempt /\ y.fallbacks = d.fallbacks
  BY DEF Shaped, Columns
<1>4. /\ Columns \subseteq DOMAIN z /\ z.state = d.state /\ z.intents = d.intents
      /\ z.offers = d.offers /\ z.attempt = d.attempt /\ z.fallbacks = d.fallbacks
  BY DEF Shaped, Columns
<1> HIDE DEF x, y, z
<1>5. Quiet(d, x) /\ Quiet(d, y) /\ Quiet(d, z)
  BY <1>1, <1>2, <1>3, <1>4
<1>6. QED
  BY <1>5 DEF x, y, z

LEMMA QuietIntents ==
  ASSUME NEW d, Shaped(d), NEW J, IsSeq(J)
  PROVE  Quiet(d, [d EXCEPT !.intents = J]) /\ [d EXCEPT !.intents = J].state = d.state
<1> DEFINE e == [d EXCEPT !.intents = J]
<1>1. /\ Columns \subseteq DOMAIN e /\ e.state = d.state /\ e.intents = J
      /\ e.offers = d.offers /\ e.attempt = d.attempt /\ e.fallbacks = d.fallbacks
  BY DEF Shaped, Columns
<1> HIDE DEF e
<1>2. Quiet(d, e) /\ e.state = d.state
  BY <1>1 DEF Quiet, RequestsOnly, Shaped
<1>3. QED
  BY <1>2 DEF e

(* Another state row that says the same of the attempt.                    *)
LEMMA QuietState ==
  ASSUME NEW d, Shaped(d), NEW s, StateShaped(s),
         s.active_attempt = d.state.active_attempt, s.speech = d.state.speech
  PROVE  Quiet(d, [d EXCEPT !.state = s])
<1> DEFINE e == [d EXCEPT !.state = s]
<1>1. /\ Columns \subseteq DOMAIN e /\ e.state = s /\ e.intents = d.intents
      /\ e.offers = d.offers /\ e.attempt = d.attempt /\ e.fallbacks = d.fallbacks
  BY DEF Shaped, Columns
<1> HIDE DEF e
<1>2. Quiet(d, e)
  BY <1>1 DEF Quiet, RequestsOnly, Shaped
<1>3. QED
  BY <1>2 DEF e

(* A new Offer.                                                            *)
OfferAdded(d, e, source) ==
  /\ Shaped(e)
  /\ e.attempt = d.attempt /\ e.intents = d.intents /\ e.fallbacks = d.fallbacks
  /\ e.state.active_attempt = d.state.active_attempt
  /\ e.state.speech = d.state.speech
  /\ \A o \in e.offers : o \in d.offers \/ o.source = source

LEMMA OfferMade ==
  ASSUME NEW d, Shaped(d), NEW target, NEW source, NEW mode
  PROVE  OfferAdded(d, MakeOffer(d, target, source, mode), source)
<1> DEFINE e == MakeOffer(d, target, source, mode)
           id == FreshOfferId(d)
           n == [id |-> id, target |-> target, source |-> source, depth_mode |-> mode,
                 previous_depth |-> d.state.depth, basis |-> d.state.speech]
           O == d.offers \cup {n}
           R == [i \in DOMAIN d.requests |->
                   IF source[1] = "request" /\ d.requests[i].who = source[2]
                   THEN [d.requests[i] EXCEPT !.state = "offered", !.offer = id]
                   ELSE d.requests[i]]
           H == {IF source[1] = "handoff" /\ h.id = source[2]
                 THEN [h EXCEPT !.attempts = @ + 1, !.blocked_by = "none",
                                !.suppressed = FALSE]
                 ELSE h : h \in d.handoffs}
           S == [d.state EXCEPT !.phase = "offered", !.active_offer = id,
                                !.active_grant = 0, !.deadline = "none"]
<1>1. e = [d EXCEPT !.offers = O, !.requests = R, !.handoffs = H, !.state = S]
  BY DEF MakeOffer
<1>2. n.source = source
  OBVIOUS
<1> HIDE DEF n
<1>3. \A o \in O : o \in d.offers \/ o.source = source
  BY <1>2
<1>4. StateShaped(d.state)
  BY DEF Shaped
<1>5. /\ StateShaped(S) /\ S.active_attempt = d.state.active_attempt
      /\ S.speech = d.state.speech
  BY <1>4 DEF StateShaped, StateColumns
<1> HIDE DEF e, id, O, R, H, S
<1>6. /\ Columns \subseteq DOMAIN e /\ e.state = S /\ e.offers = O
      /\ e.attempt = d.attempt /\ e.intents = d.intents /\ e.fallbacks = d.fallbacks
  BY <1>1 DEF Shaped, Columns
<1>7. OfferAdded(d, e, source)
  BY <1>3, <1>5, <1>6 DEF OfferAdded, Shaped
<1>8. QED
  BY <1>7 DEF e

LEMMA RequestIsQuiet ==
  ASSUME NEW d, Shaped(d), NEW target, NEW who
  PROVE  Quiet(d, MakeOffer(d, target, <<"request", who, 0>>, "preserve"))
<1> DEFINE source == <<"request", who, 0>>
           e == MakeOffer(d, target, source, "preserve")
<1>1. OfferAdded(d, e, source)
  BY OfferMade
<1>2. source[1] = "request"
  OBVIOUS
<1> HIDE DEF source, e
<1>3. Quiet(d, e)
  BY <1>1, <1>2 DEF OfferAdded, Quiet, RequestsOnly
<1>4. QED
  BY <1>3 DEF e, source

LEMMA QueuedIsQuiet ==
  ASSUME NEW d, Shaped(d)
  PROVE  Quiet(d, OfferHumanRequest(d))
BY RequestIsQuiet DEF OfferHumanRequest

(* Handoffs alone.                                                         *)
LEMMA HandoffsAreQuiet ==
  ASSUME NEW d, Shaped(d), NEW n
  PROVE  /\ Quiet(d, ClearSuppression(d)) /\ Quiet(d, ReleaseHumanRequestBlocks(d))
         /\ Quiet(d, SuppressHandoffCohort(d, n))
<1> DEFINE A == {[h EXCEPT !.suppressed = FALSE] : h \in d.handoffs}
           B == {IF h.blocked_by = "human_request"
                 THEN [h EXCEPT !.blocked_by = "none", !.suppressed = FALSE]
                 ELSE h : h \in d.handoffs}
           C == {IF h.blocked_by = "none" /\ h.eligible <= n
                 THEN [h EXCEPT !.suppressed = TRUE] ELSE h : h \in d.handoffs}
<1>1. ClearSuppression(d) = [d EXCEPT !.handoffs = A]
  BY DEF ClearSuppression
<1>2. \/ ReleaseHumanRequestBlocks(d) = d
      \/ ReleaseHumanRequestBlocks(d) = [d EXCEPT !.handoffs = B]
  BY DEF ReleaseHumanRequestBlocks
<1>3. SuppressHandoffCohort(d, n) = [d EXCEPT !.handoffs = C]
  BY DEF SuppressHandoffCohort
<1> HIDE DEF A, B, C
<1>4. /\ Quiet(d, [d EXCEPT !.handoffs = A]) /\ Quiet(d, [d EXCEPT !.handoffs = B])
      /\ Quiet(d, [d EXCEPT !.handoffs = C]) /\ Quiet(d, d)
  BY QuietColumns, QuietItself
<1>5. Quiet(d, ClearSuppression(d))
  BY <1>1, <1>4
<1>6. Quiet(d, ReleaseHumanRequestBlocks(d))
  BY <1>2, <1>4
<1>7. Quiet(d, SuppressHandoffCohort(d, n))
  BY <1>3, <1>4
<1>8. QED
  BY <1>5, <1>6, <1>7

LEMMA ReturnIsQuiet ==
  ASSUME NEW d, Shaped(d)
  PROVE  Quiet(d, ReturnControl(d))
<1> DEFINE r == ReleaseHumanRequestBlocks(d)
           next == d.state.decision_epoch + 1
           hasIntent == FallbackCandidates(r, next) # {}
           hasHandoff == CohortHandoffs(r, next) # {}
           running == d.state.active_attempt
           deadline == IF hasIntent \/ (hasHandoff /\ running) THEN "window"
                       ELSE IF running THEN "attempt" ELSE "none"
           epoch == IF hasIntent \/ hasHandoff THEN next ELSE d.state.decision_epoch
           c == IF hasIntent THEN ClearSuppression(r) ELSE r
           s == ControlReturned(c.state, hasIntent, epoch, deadline)
<1>1. ReturnControl(d) = [c EXCEPT !.state = s]
  BY DEF ReturnControl
<1>2. Quiet(d, r)
  BY HandoffsAreQuiet
<1>3. Shaped(r)
  BY <1>2 DEF Quiet
<1>4. Quiet(r, c)
  BY <1>3, HandoffsAreQuiet, QuietItself
<1>5. Shaped(c)
  BY <1>4 DEF Quiet
<1> HIDE DEF r, next, hasIntent, hasHandoff, running, deadline, epoch, c
<1>6. StateShaped(s) /\ s.active_attempt = c.state.active_attempt
      /\ s.speech = c.state.speech
  BY <1>5 DEF Shaped, StateShaped, StateColumns, ControlReturned
<1> HIDE DEF s
<1>7. Quiet(c, [c EXCEPT !.state = s])
  BY <1>5, <1>6, QuietState
<1>8. Quiet(d, ReturnControl(d))
  BY <1>1, <1>2, <1>4, <1>7, QuietIsTransitive
<1>9. QED
  BY <1>8

LEMMA NextFloorIsQuiet ==
  ASSUME NEW d, Shaped(d)
  PROVE  Quiet(d, NextFloor(d))
BY QueuedIsQuiet, ReturnIsQuiet DEF NextFloor

LEMMA WindowIsQuiet ==
  ASSUME NEW d, Shaped(d)
  PROVE  Quiet(d, EnsureModeratorWindow(d))
<1> DEFINE s == d.state
           epoch == IF s.phase = "moderator_idle" THEN s.decision_epoch + 1
                    ELSE s.decision_epoch
           candidate == FallbackCandidates(d, epoch) # {}
           c == ClearSuppression(d)
           S == [c.state EXCEPT !.phase = "moderator_control", !.decision_epoch = epoch,
                                !.decision_attempt = 0, !.deadline = "window"]
           T == [d.state EXCEPT !.phase = "moderator_idle", !.deadline = "none"]
<1>1. \/ EnsureModeratorWindow(d) = d
      \/ EnsureModeratorWindow(d) = [c EXCEPT !.state = S]
      \/ EnsureModeratorWindow(d) = [d EXCEPT !.state = T]
  BY DEF EnsureModeratorWindow, Moderating
<1>2. Quiet(d, c)
  BY HandoffsAreQuiet
<1> HIDE DEF epoch, candidate, c
<1>3. Shaped(c)
  BY <1>2 DEF Quiet
<1>4. StateShaped(S) /\ S.active_attempt = c.state.active_attempt
      /\ S.speech = c.state.speech
  BY <1>3 DEF Shaped, StateShaped, StateColumns
<1>5. StateShaped(T) /\ T.active_attempt = d.state.active_attempt
      /\ T.speech = d.state.speech
  BY DEF Shaped, StateShaped, StateColumns
<1> HIDE DEF S, T
<1>6. Quiet(c, [c EXCEPT !.state = S]) /\ Quiet(d, [d EXCEPT !.state = T])
  BY <1>3, <1>4, <1>5, QuietState
<1>7. QED
  BY <1>1, <1>2, <1>6, QuietItself, QuietIsTransitive

(* Offers only go.                                                         *)
LEMMA FewerOffers ==
  ASSUME NEW d, Shaped(d), NEW O \in SUBSET d.offers
  PROVE  /\ Quiet(d, [d EXCEPT !.offers = O])
         /\ [d EXCEPT !.offers = O].intents = d.intents
<1> DEFINE e == [d EXCEPT !.offers = O]
<1>1. /\ Columns \subseteq DOMAIN e /\ e.state = d.state /\ e.intents = d.intents
      /\ e.offers = O /\ e.attempt = d.attempt /\ e.fallbacks = d.fallbacks
  BY DEF Shaped, Columns
<1> HIDE DEF e
<1>2. Quiet(d, e) /\ e.intents = d.intents
  BY <1>1 DEF Quiet, RequestsOnly, Shaped
<1>3. QED
  BY <1>2 DEF e

LEMMA ReleaseIsQuiet ==
  ASSUME NEW d, Shaped(d), NEW offer
  PROVE  Quiet(d, ReleaseDeferrals(d, offer))
<1> DEFINE f == [i \in DOMAIN d.intents |->
                   IF d.intents[i].deferred_by = offer
                   THEN [d.intents[i] EXCEPT !.deferred_by = 0] ELSE d.intents[i]]
<1>1. ReleaseDeferrals(d, offer) = [d EXCEPT !.intents = f]
  BY DEF ReleaseDeferrals
<1>2. f = [i \in DOMAIN d.intents |-> f[i]]
  OBVIOUS
<1> HIDE DEF f
<1>3. IsSeq(f)
  BY <1>2, SameLength DEF Shaped
<1>4. QED
  BY <1>1, <1>3, QuietIntents

LEMMA FailOfferIsQuiet ==
  ASSUME NEW d, Shaped(d), NEW outcome
  PROVE  Quiet(d, FailActiveOffer(d, outcome))
<1> DEFINE o == ActiveOffer(d)
           c == [d EXCEPT !.offers = d.offers \ {o}]
           r == ReleaseDeferrals(c, o.id)
           ends == outcome \in {"declined", "timed_out", "source_withdrawn"}
           left == IF ends THEN Without(r.requests, Mine(r, o))
                   ELSE [i \in DOMAIN r.requests |->
                           IF i \in Mine(r, o)
                           THEN [r.requests[i] EXCEPT !.state = "queued", !.offer = 0]
                           ELSE r.requests[i]]
           q == [r EXCEPT !.requests = left]
<1>1. FailActiveOffer(d, outcome) = NextFloor(q)
  BY DEF FailActiveOffer
<1>2. d.offers \ {o} \in SUBSET d.offers
  OBVIOUS
<1> HIDE DEF o, left
<1>3. Quiet(d, c)
  BY <1>2, FewerOffers
<1> HIDE DEF c
<1>4. Quiet(c, r)
  BY <1>3, ReleaseIsQuiet DEF Quiet
<1> HIDE DEF r
<1>5. Quiet(r, q)
  BY <1>4, QuietColumns DEF Quiet
<1> HIDE DEF q
<1>6. Quiet(q, NextFloor(q))
  BY <1>5, NextFloorIsQuiet DEF Quiet
<1>7. QED
  BY <1>1, <1>3, <1>4, <1>5, <1>6, QuietIsTransitive

LEMMA DepthIsQuiet ==
  ASSUME NEW d, Shaped(d), NEW n
  PROVE  Quiet(d, [d EXCEPT !.state.depth = n])
<1> DEFINE s == [d.state EXCEPT !.depth = n]
<1>1. [d EXCEPT !.state.depth = n] = [d EXCEPT !.state = s]
  OBVIOUS
<1>2. StateShaped(s) /\ s.active_attempt = d.state.active_attempt
      /\ s.speech = d.state.speech
  BY DEF Shaped, StateShaped, StateColumns
<1> HIDE DEF s
<1>3. QED
  BY <1>1, <1>2, QuietState

LEMMA FailGrantIsQuiet ==
  ASSUME NEW d, Shaped(d)
  PROVE  Quiet(d, FailActiveGrant(d))
<1> DEFINE g == ActiveGrant(d)
           G == d.grants \ {g}
           c == [d EXCEPT !.grants = G]
           r == ReleaseDeferrals(c, g.offer)
           n == g.previous_depth
           u == [r EXCEPT !.state.depth = n]
<1>1. FailActiveGrant(d) = NextFloor(u) \/ FailActiveGrant(d) = NextFloor(r)
  BY DEF FailActiveGrant
<1> HIDE DEF g, n, G
<1>2. Quiet(d, c)
  BY QuietColumns
<1> HIDE DEF c
<1>3. Quiet(c, r)
  BY <1>2, ReleaseIsQuiet DEF Quiet
<1> HIDE DEF r
<1>4. Quiet(r, u)
  BY <1>3, DepthIsQuiet DEF Quiet
<1> HIDE DEF u
<1>5. Quiet(u, NextFloor(u)) /\ Quiet(r, NextFloor(r))
  BY <1>3, <1>4, NextFloorIsQuiet DEF Quiet
<1>6. Quiet(d, r)
  BY <1>2, <1>3, QuietIsTransitive
<1>7. Quiet(d, u)
  BY <1>4, <1>6, QuietIsTransitive
<1>8. QED
  BY <1>1, <1>5, <1>6, <1>7, QuietIsTransitive

(* An edit of an Intent; an Offer made from it fails first.                *)
LEMMA EditIsQuiet ==
  ASSUME NEW d, Shaped(d), NEW a, NEW version
  PROVE  Quiet(d, Edited(d, a, version))
<1>1. IsSeq(d.intents) /\ IntentsBy(d, a) \in SUBSET (DOMAIN d.intents)
  BY DEF Shaped, IntentsBy
<1>2. IsSeq(Without(d.intents, IntentsBy(d, a)))
  BY <1>1, WithoutSeq
<1> DEFINE f == [i \in DOMAIN d.intents |->
                   IF d.intents[i].author = a
                   THEN [d.intents[i] EXCEPT !.version = version] ELSE d.intents[i]]
<1>3. f = [i \in DOMAIN d.intents |-> f[i]]
  OBVIOUS
<1> DEFINE w == Without(d.intents, IntentsBy(d, a))
<1>4. \/ Edited(d, a, version) = [d EXCEPT !.intents = w]
      \/ Edited(d, a, version) = [d EXCEPT !.intents = f]
  BY DEF Edited
<1> HIDE DEF f, w
<1>5. IsSeq(f) /\ IsSeq(w)
  BY <1>1, <1>2, <1>3, SameLength DEF w
<1>6. QED
  BY <1>4, <1>5, QuietIntents

LEMMA ChangeIsQuiet ==
  ASSUME Shaped(Tables), NEW a, NEW version
  PROVE  Quiet(Tables, ChangeIntent(a, version))
<1> DEFINE d == Tables
           failed == FailActiveOffer(d, "source_changed")
           e == Edited(d, a, version)
           f == Edited(failed, a, version)
           g == [f EXCEPT !.state = d.state]
<1>1. \/ ChangeIntent(a, version) = EnsureModeratorWindow(e)
      \/ ChangeIntent(a, version) = f
      \/ ChangeIntent(a, version) = ReturnControl(g)
  BY DEF ChangeIntent, Edited
<1> HIDE DEF d
<1>2. Quiet(d, failed)
  BY FailOfferIsQuiet DEF d
<1> HIDE DEF failed
<1>3. Quiet(d, e) /\ Quiet(failed, f)
  BY <1>2, EditIsQuiet DEF Quiet, d
<1> HIDE DEF e, f
<1>4. Quiet(d, f)
  BY <1>2, <1>3, QuietIsTransitive
<1>5. /\ Shaped(f) /\ StateShaped(d.state)
      /\ d.state.active_attempt = f.state.active_attempt
      /\ d.state.speech = f.state.speech
  BY <1>4 DEF Quiet, Shaped, d
<1>6. Quiet(f, g)
  BY <1>5, QuietState
<1> HIDE DEF g
<1>7. Quiet(d, g)
  BY <1>4, <1>6, QuietIsTransitive
<1>8. Quiet(e, EnsureModeratorWindow(e)) /\ Quiet(g, ReturnControl(g))
  BY <1>3, <1>7, WindowIsQuiet, ReturnIsQuiet DEF Quiet
<1>9. Quiet(d, EnsureModeratorWindow(e)) /\ Quiet(d, ReturnControl(g))
  BY <1>3, <1>7, <1>8, QuietIsTransitive
<1>10. QED
  BY <1>1, <1>4, <1>9 DEF d

-----------------------------------------------------------------------------
(* The end of an attempt.  Afterwards none runs and none is called active; *)
(* whoever but a Human is offered the floor, is by fallback.               *)

Closed(d, e) ==
  /\ Shaped(e)
  /\ ~e.state.active_attempt /\ e.attempt.state # "running"
  /\ e.state.speech = d.state.speech
  /\ RequestsOnly(d, e) \/ e.fallbacks # d.fallbacks

Stopped(d, e) ==
  /\ Shaped(e) /\ e.attempt.state # "running"
  /\ e.state = d.state /\ e.offers = d.offers /\ e.fallbacks = d.fallbacks
  /\ e.intents = d.intents

LEMMA AttemptEnded ==
  ASSUME NEW d, Shaped(d), NEW outcome \in {"over", "abandoned"}
  PROVE  Stopped(d, EndAttempt(d, outcome))
<1> DEFINE A == [d.attempt EXCEPT !.state = outcome, !.snapshot = {}, !.tickets = {},
                                  !.speech = 0,
                                  !.number = IF outcome = "abandoned" THEN @ ELSE 0]
           e == EndAttempt(d, outcome)
<1>1. e = [d EXCEPT !.attempt = A]
  BY DEF EndAttempt
<1>2. AttemptColumns \subseteq DOMAIN A /\ A.state = outcome
  BY DEF Shaped, AttemptColumns
<1> HIDE DEF A, e
<1>3. /\ Columns \subseteq DOMAIN e /\ e.attempt = A /\ e.state = d.state
      /\ e.offers = d.offers /\ e.fallbacks = d.fallbacks /\ e.intents = d.intents
  BY <1>1 DEF Shaped, Columns
<1>4. Stopped(d, e)
  BY <1>2, <1>3 DEF Stopped, Shaped
<1>5. QED
  BY <1>4 DEF e

LEMMA ClosedAfter ==
  ASSUME NEW c, NEW d, NEW e, Quiet(c, d) \/ Stopped(c, d), Closed(d, e)
  PROVE  Closed(c, e)
BY DEF Quiet, Stopped, Closed, RequestsOnly

LEMMA ClosedStays ==
  ASSUME NEW c, NEW d, NEW e, Closed(c, d), Quiet(d, e)
  PROVE  Closed(c, e)
BY DEF Quiet, Closed, RequestsOnly

(* A state row that calls no attempt active.                               *)
LEMMA ClosedState ==
  ASSUME NEW d, Shaped(d), d.attempt.state # "running", NEW s, StateShaped(s),
         ~s.active_attempt, s.speech = d.state.speech
  PROVE  Closed(d, [d EXCEPT !.state = s])
<1> DEFINE e == [d EXCEPT !.state = s]
<1>1. /\ Columns \subseteq DOMAIN e /\ e.state = s /\ e.intents = d.intents
      /\ e.offers = d.offers /\ e.attempt = d.attempt
  BY DEF Shaped, Columns
<1> HIDE DEF e
<1>2. Closed(d, e)
  BY <1>1 DEF Closed, RequestsOnly, Shaped
<1>3. QED
  BY <1>2 DEF e

LEMMA LetGo ==
  ASSUME NEW d, Shaped(d), d.attempt.state # "running"
  PROVE  Closed(d, [d EXCEPT !.state.active_attempt = FALSE])
<1> DEFINE s == [d.state EXCEPT !.active_attempt = FALSE]
<1>1. [d EXCEPT !.state.active_attempt = FALSE] = [d EXCEPT !.state = s]
  OBVIOUS
<1>2. StateShaped(s) /\ ~s.active_attempt /\ s.speech = d.state.speech
  BY DEF Shaped, StateShaped, StateColumns
<1> HIDE DEF s
<1>3. QED
  BY <1>1, <1>2, ClosedState

LEMMA CohortClosed ==
  ASSUME NEW d, Shaped(d), d.attempt.state # "running"
  PROVE  Closed(d, NextCohort(d))
<1> DEFINE next == d.state.decision_epoch + 1
           exists == CohortHasCandidates(d, next)
           open == exists /\ CohortIntents(d, next) # {}
           phase == IF open THEN "moderator_control" ELSE "moderator_idle"
           epoch == IF exists THEN next ELSE d.state.decision_epoch
           deadline == IF open THEN "window" ELSE "none"
           s == [d.state EXCEPT !.phase = phase,
                   !.active_offer = 0, !.active_grant = 0,
                   !.active_attempt = FALSE, !.decision_attempt = 0,
                   !.decision_epoch = epoch, !.deadline = deadline]
<1>1. NextCohort(d) = [d EXCEPT !.state = s]
  BY DEF NextCohort
<1> HIDE DEF phase, epoch, deadline
<1>2. StateShaped(s) /\ ~s.active_attempt /\ s.speech = d.state.speech
  BY DEF Shaped, StateShaped, StateColumns
<1> HIDE DEF s
<1>3. QED
  BY <1>1, <1>2, ClosedState

LEMMA CandidateIsNew ==
  ASSUME NEW d, Shaped(d), NEW n, FallbackCandidates(d, n) # {}
  PROVE  <<FallbackCandidate(d, n).author, FallbackCandidate(d, n).version>>
           \notin d.fallbacks
<1> DEFINE C == FallbackCandidates(d, n)
           own == {i \in C : d.intents[i].author = Moderator}
           S == IF own # {} THEN own ELSE C
<1>1. DOMAIN d.intents \subseteq Nat
  BY AnySeq DEF Shaped, IsSeq
<1>2. C \subseteq DOMAIN d.intents
  BY DEF FallbackCandidates, CohortIntents
<1>3. \A i \in C : <<d.intents[i].author, d.intents[i].version>> \notin d.fallbacks
  BY DEF FallbackCandidates
<1>4. FallbackCandidate(d, n) = d.intents[Min(S)]
  BY DEF FallbackCandidate
<1>5. S \subseteq C /\ S # {}
  OBVIOUS
<1> HIDE DEF C
<1> HIDE DEF S
<1>6. Min(S) \in S
  BY <1>1, <1>2, <1>5, MinExists
<1>7. QED
  BY <1>3, <1>4, <1>5, <1>6

LEMMA FallbackClosed ==
  ASSUME NEW d, Shaped(d), d.attempt.state # "running", NEW n
  PROVE  Closed(d, FallbackOrIdle(d, n))
<1>1. CASE FallbackCandidates(d, n) # {}
  <2> DEFINE i == FallbackCandidate(d, n)
             source == <<"intent", i.author, i.version>>
             p == <<i.author, i.version>>
             o == MakeOffer(d, i.author, source, "reset")
             F == o.fallbacks \cup {p}
             s == [o.state EXCEPT !.active_attempt = FALSE]
             e == [o EXCEPT !.fallbacks = F, !.state = s]
  <2>1. FallbackOrIdle(d, n) = e
    BY <1>1 DEF FallbackOrIdle
  <2>2. p \notin d.fallbacks
    BY <1>1, CandidateIsNew
  <2>3. OfferAdded(d, o, source)
    BY OfferMade
  <2> HIDE DEF i, source, p, o
  <2>4. StateShaped(s) /\ ~s.active_attempt /\ s.speech = d.state.speech
    BY <2>3 DEF OfferAdded, Shaped, StateShaped, StateColumns
  <2>5. F # d.fallbacks
    BY <2>2, <2>3 DEF OfferAdded
  <2> HIDE DEF F, s
  <2>6. /\ Columns \subseteq DOMAIN e /\ e.state = s /\ e.intents = o.intents
        /\ e.attempt = o.attempt /\ e.fallbacks = F
    BY <2>3 DEF OfferAdded, Shaped, Columns
  <2> HIDE DEF e
  <2>7. Closed(d, e)
    BY <2>3, <2>4, <2>5, <2>6 DEF Closed, OfferAdded, Shaped
  <2>8. QED
    BY <2>1, <2>7
<1>2. CASE FallbackCandidates(d, n) = {}
  <2> DEFINE s == [d.state EXCEPT !.phase = "moderator_idle", !.deadline = "none",
                                  !.active_attempt = FALSE]
  <2>1. FallbackOrIdle(d, n) = [d EXCEPT !.state = s]
    BY <1>2 DEF FallbackOrIdle
  <2>2. StateShaped(s) /\ ~s.active_attempt /\ s.speech = d.state.speech
    BY DEF Shaped, StateShaped, StateColumns
  <2> HIDE DEF s
  <2>3. QED
    BY <2>1, <2>2, ClosedState
<1>3. QED
  BY <1>1, <1>2

LEMMA RecoveryClosed ==
  ASSUME NEW d, Shaped(d), d.attempt.state # "running"
  PROVE  Closed(d, RecoverInvalidAttempt(d))
<1> DEFINE n == d.attempt.decision_epoch
           o == OfferHumanRequest(d)
           c == SuppressHandoffCohort(d, n)
<1>1. \/ RecoverInvalidAttempt(d) = [o EXCEPT !.state.active_attempt = FALSE]
      \/ RecoverInvalidAttempt(d) = FallbackOrIdle(c, n)
  BY DEF RecoverInvalidAttempt
<1>2. Quiet(d, o) /\ Quiet(d, c)
  BY QueuedIsQuiet, HandoffsAreQuiet
<1> HIDE DEF n, o, c
<1>3. /\ Shaped(o) /\ o.attempt.state # "running"
      /\ Shaped(c) /\ c.attempt.state # "running"
  BY <1>2 DEF Quiet
<1>4. /\ Closed(o, [o EXCEPT !.state.active_attempt = FALSE])
      /\ Closed(c, FallbackOrIdle(c, n))
  BY <1>3, LetGo, FallbackClosed
<1>5. /\ Closed(d, [o EXCEPT !.state.active_attempt = FALSE])
      /\ Closed(d, FallbackOrIdle(c, n))
  BY <1>2, <1>4, ClosedAfter
<1>6. QED
  BY <1>1, <1>5

-----------------------------------------------------------------------------
(* What a commit makes of the tables.                                      *)

LEMMA ShapedCommit ==
  ASSUME NEW e, Shaped(e), Accounted(e), Commit(e)
  PROVE  AInv'
<1> DEFINE t == Tables'
<1>1. /\ t = [state |-> state', intents |-> intents', requests |-> requests',
             handoffs |-> handoffs', offers |-> offers', grants |-> grants',
             attempt |-> attempt', fallbacks |-> fallbacks']
      /\ AInv' = (Shaped(t) /\ Accounted(t))
  BY DEF Tables, AInv
<1> HIDE DEF t
<1>2. /\ Columns \subseteq DOMAIN t /\ t.state = e.state /\ t.intents = e.intents
      /\ t.attempt = e.attempt
  BY <1>1 DEF Commit, Columns
<1>3. Shaped(t) /\ Accounted(t)
  BY <1>2 DEF Shaped, Accounted
<1>4. QED
  BY <1>1, <1>3

LEMMA QuietCommit ==
  ASSUME AInv, NEW e, Quiet(Tables, e), Commit(e)
  PROVE  AInv' /\ Judged
<1>1. Shaped(e) /\ Accounted(e)
  BY DEF AInv, Quiet, Accounted
<1>2. AInv'
  BY <1>1, ShapedCommit
<1>3. Judged
  BY DEF Quiet, RequestsOnly, Commit, Tables, Judged
<1>4. QED
  BY <1>2, <1>3

LEMMA ClosedCommit ==
  ASSUME AInv, NEW e, Closed(Tables, e), Commit(e)
  PROVE  AInv' /\ Judged
<1>1. Shaped(e) /\ Accounted(e)
  BY DEF Closed, Accounted
<1>2. AInv'
  BY <1>1, ShapedCommit
<1>3. Judged
  BY DEF Closed, RequestsOnly, Commit, Tables, Judged
<1>4. QED
  BY <1>2, <1>3

-----------------------------------------------------------------------------
(* The commands.                                                           *)

LEMMA SubmitStep ==
  ASSUME AInv, NEW a, IntentSubmit(a)
  PROVE  AInv' /\ Judged
<1> DEFINE open == /\ state.decision_attempt = 0
                   /\ \/ state.phase = "moderator_control"
                      \/ /\ state.phase = "moderator_idle"
                         /\ CohortHasCandidates(Tables, state.decision_epoch)
           row == [author |-> a, version |-> FreshVersion(Tables, a), deferred_by |-> 0,
                   eligible |-> state.decision_epoch + (IF open THEN 0 ELSE 1)]
           d == Tables
           J == Append(d.intents, row)
           e == [d EXCEPT !.intents = J]
<1>1. Commit(EnsureModeratorWindow(e))
  BY DEF IntentSubmit
<1>2. Shaped(d)
  BY DEF AInv
<1> HIDE DEF row, d
<1>3. IsSeq(J)
  BY <1>2, AppendSeq DEF Shaped
<1> HIDE DEF J
<1>4. Quiet(d, e)
  BY <1>2, <1>3, QuietIntents
<1> HIDE DEF e
<1>5. Quiet(e, EnsureModeratorWindow(e))
  BY <1>4, WindowIsQuiet DEF Quiet
<1>6. Quiet(d, EnsureModeratorWindow(e))
  BY <1>4, <1>5, QuietIsTransitive
<1>7. QED
  BY <1>1, <1>6, QuietCommit DEF d

LEMMA ChangeStep ==
  ASSUME AInv, NEW a, IntentRefresh(a) \/ IntentWithdraw(a) \/ ModeratorReject(a)
  PROVE  AInv' /\ Judged
<1>1. PICK version : Commit(ChangeIntent(a, version))
  BY DEF IntentRefresh, IntentWithdraw, ModeratorReject
<1>2. Quiet(Tables, ChangeIntent(a, version))
  BY ChangeIsQuiet DEF AInv
<1>3. QED
  BY <1>1, <1>2, QuietCommit

LEMMA SelectStep ==
  ASSUME AInv, NEW source, NEW D, ModeratorSelect(source, D)
  PROVE  AInv' /\ Judged
<1> DEFINE d == Tables
           o == MakeOffer(d, SelectTarget(source), source, "reset")
           J == [i \in DOMAIN o.intents |->
                   IF o.intents[i].author \in D
                   THEN [o.intents[i] EXCEPT !.deferred_by = o.state.active_offer]
                   ELSE o.intents[i]]
           e == [o EXCEPT !.intents = J]
           x == EndAttempt(e, "over")
           y == [x EXCEPT !.state.active_attempt = FALSE]
<1>1. /\ Commit(IF AgentModerator THEN y ELSE e)
      /\ Authorized
      /\ AgentModerator => source \in attempt.snapshot
  BY DEF ModeratorSelect
<1>2. Shaped(d) /\ Accounted(d)
  BY DEF AInv
<1>3. d.offers = offers /\ d.state = state
  BY DEF Tables
<1>4. OfferAdded(d, o, source)
  BY <1>2, OfferMade
<1>5. J = [i \in DOMAIN o.intents |-> J[i]]
  OBVIOUS
<1> HIDE DEF d, o, J
<1>6. Shaped(o) /\ IsSeq(J)
  BY <1>4, <1>5, SameLength DEF OfferAdded, Shaped
<1>7. Quiet(o, e)
  BY <1>6, QuietIntents
<1> HIDE DEF e
<1>8. /\ Shaped(e) /\ Accounted(e)
      /\ \A p \in e.offers : p \in d.offers \/ p.source = source \/ p.source[1] = "request"
  BY <1>2, <1>4, <1>7 DEF Quiet, RequestsOnly, OfferAdded, Accounted
<1>9. CASE ~AgentModerator
  <2>1. Commit(e)
    BY <1>1, <1>9
  <2>2. AInv'
    BY <2>1, <1>8, ShapedCommit
  <2>3. Judged
    BY <1>9 DEF Judged
  <2>4. QED
    BY <2>2, <2>3
<1>10. CASE AgentModerator
  <2>1. Commit(y)
    BY <1>1, <1>10
  <2>2. Stopped(e, x)
    BY <1>8, AttemptEnded
  <2> HIDE DEF x
  <2>3. Closed(x, y)
    BY <2>2, LetGo DEF Stopped
  <2>4. y.offers = e.offers
    BY <2>2 DEF Stopped, Shaped, Columns
  <2> HIDE DEF y
  <2>5. Shaped(y) /\ Accounted(y)
    BY <2>3 DEF Closed, Accounted
  <2>6. AInv'
    BY <2>1, <2>5, ShapedCommit
  <2>7. offers' = y.offers
    BY <2>1 DEF Commit
  <2>8. Judged
    BY <1>1, <1>3, <1>8, <1>10, <2>4, <2>7 DEF Judged, Authorized
  <2>9. QED
    BY <2>6, <2>8
<1>11. QED
  BY <1>9, <1>10, ModeratorAssumption

(* A ticket changes neither the state of the attempt nor the Offers.       *)
LEMMA RefusedStep ==
  ASSUME AInv, NEW source, SelectRefused(source)
  PROVE  AInv' /\ Judged
<1> DEFINE d == Tables
           A == [d.attempt EXCEPT !.tickets = @ \cup {source}]
           e == [d EXCEPT !.attempt = A]
<1>1. Commit(e)
  BY DEF SelectRefused
<1>2. Shaped(d) /\ Accounted(d) /\ d.offers = offers
  BY DEF AInv, Tables
<1> HIDE DEF d
<1>3. AttemptColumns \subseteq DOMAIN A /\ A.state = d.attempt.state
  BY <1>2 DEF Shaped, AttemptColumns
<1> HIDE DEF A
<1>4. /\ Columns \subseteq DOMAIN e /\ e.attempt = A /\ e.state = d.state
      /\ e.offers = d.offers /\ e.intents = d.intents
  BY <1>2 DEF Shaped, Columns
<1> HIDE DEF e
<1>5. Shaped(e) /\ Accounted(e)
  BY <1>2, <1>3, <1>4 DEF Shaped, Accounted
<1>6. AInv'
  BY <1>1, <1>5, ShapedCommit
<1>7. offers' = offers
  BY <1>1, <1>2, <1>4 DEF Commit
<1>8. QED
  BY <1>6, <1>7 DEF Judged

LEMMA DismissStep ==
  ASSUME AInv, NEW h, ModeratorDismissHandoff(h)
  PROVE  AInv' /\ Judged
<1> DEFINE d == Tables
           H == d.handoffs \ {h}
           e == [d EXCEPT !.handoffs = H]
<1>1. Commit(e)
  BY DEF ModeratorDismissHandoff
<1>2. Shaped(d)
  BY DEF AInv
<1> HIDE DEF H
<1>3. Quiet(d, e)
  BY <1>2, QuietColumns
<1>4. QED
  BY <1>1, <1>3, QuietCommit

LEMMA RecallStep ==
  ASSUME AInv, ModeratorRecall
  PROVE  AInv' /\ Judged
<1> DEFINE d == Tables
           s == [d.state EXCEPT !.forced_return = TRUE]
<1>1. Commit(FailActiveOffer(d, "recalled")) \/ Commit([d EXCEPT !.state = s])
  BY DEF ModeratorRecall
<1>2. Shaped(d)
  BY DEF AInv
<1>3. Quiet(d, FailActiveOffer(d, "recalled"))
  BY <1>2, FailOfferIsQuiet
<1> HIDE DEF d
<1>4. StateShaped(s) /\ s.active_attempt = d.state.active_attempt
      /\ s.speech = d.state.speech
  BY <1>2 DEF Shaped, StateShaped, StateColumns
<1> HIDE DEF s
<1>5. Quiet(d, [d EXCEPT !.state = s])
  BY <1>2, <1>4, QuietState
<1>6. QED
  BY <1>1, <1>3, <1>5, QuietCommit DEF d

LEMMA RequestStep ==
  ASSUME AInv, NEW h, HumanRequest(h)
  PROVE  AInv' /\ Judged
<1> DEFINE row == [who |-> h, state |-> "queued", offer |-> 0]
           t == Tables
           R == Append(t.requests, row)
           d == [t EXCEPT !.requests = R]
<1>1. \/ Commit(MakeOffer(d, h, <<"request", h, 0>>, "preserve"))
      \/ Commit(FailActiveOffer(d, "preempted"))
      \/ Commit(d)
  BY DEF HumanRequest, Moderating
<1>2. Shaped(t)
  BY DEF AInv
<1> HIDE DEF R, t
<1>3. Quiet(t, d)
  BY <1>2, QuietColumns
<1> HIDE DEF d
<1>4. Shaped(d)
  BY <1>3 DEF Quiet
<1>5. /\ Quiet(t, MakeOffer(d, h, <<"request", h, 0>>, "preserve"))
      /\ Quiet(t, FailActiveOffer(d, "preempted"))
  BY <1>3, <1>4, RequestIsQuiet, FailOfferIsQuiet, QuietIsTransitive
<1>6. QED
  BY <1>1, <1>3, <1>5, QuietCommit DEF t

LEMMA WithdrawStep ==
  ASSUME AInv, NEW i, HumanWithdraw(i)
  PROVE  AInv' /\ Judged
<1> DEFINE d == Tables
           R == RemoveAt(d.requests, i)
<1>1. \/ Commit(FailActiveOffer(d, "source_withdrawn"))
      \/ Commit([d EXCEPT !.requests = R])
  BY DEF HumanWithdraw
<1>2. Shaped(d)
  BY DEF AInv
<1> HIDE DEF R
<1>3. /\ Quiet(d, FailActiveOffer(d, "source_withdrawn"))
      /\ Quiet(d, [d EXCEPT !.requests = R])
  BY <1>2, FailOfferIsQuiet, QuietColumns
<1>4. QED
  BY <1>1, <1>3, QuietCommit

LEMMA AckStep ==
  ASSUME AInv, OfferAck
  PROVE  AInv' /\ Judged
<1> DEFINE d == Tables
           o == ActiveOffer(d)
           depth == CASE o.depth_mode = "reset" -> 0
                      [] o.depth_mode = "preserve" -> o.previous_depth
                      [] OTHER -> o.previous_depth + 1
           O == d.offers \ {o}
           G == d.grants \cup
                  {[offer |-> o.id, holder |-> o.target, source |-> o.source,
                    depth_mode |-> o.depth_mode, previous_depth |-> o.previous_depth,
                    depth |-> depth, basis |-> o.basis, age |-> 0,
                    lease |-> Min({SoftLease, HardDeadline})]}
           J == Without(d.intents, Answered(d, o))
           R == Without(d.requests, Mine(d, o))
           s == [d.state EXCEPT !.phase = "granted", !.active_offer = 0,
                                !.active_grant = o.id, !.depth = depth,
                                !.deadline = "none"]
           e == [d EXCEPT !.offers = O, !.grants = G, !.intents = J, !.requests = R,
                          !.state = s]
<1>1. Commit(e)
  BY DEF OfferAck
<1>2. Shaped(d)
  BY DEF AInv
<1>3. O \subseteq d.offers
  OBVIOUS
<1> HIDE DEF d, depth, G, R
<1>4. Answered(d, o) \in SUBSET (DOMAIN d.intents)
  BY DEF Answered, IntentsBy
<1>5. IsSeq(J)
  BY <1>2, <1>4, WithoutSeq DEF Shaped
<1>6. StateShaped(s) /\ s.active_attempt = d.state.active_attempt
      /\ s.speech = d.state.speech
  BY <1>2 DEF Shaped, StateShaped, StateColumns
<1> HIDE DEF o, O, J, s
<1>7. /\ Columns \subseteq DOMAIN e /\ e.state = s /\ e.intents = J /\ e.offers = O
      /\ e.attempt = d.attempt /\ e.fallbacks = d.fallbacks
  BY <1>2 DEF Shaped, Columns
<1> HIDE DEF e
<1>8. Quiet(d, e)
  BY <1>2, <1>3, <1>5, <1>6, <1>7 DEF Quiet, RequestsOnly, Shaped
<1>9. QED
  BY <1>1, <1>8, QuietCommit DEF d

LEMMA DeclineStep ==
  ASSUME AInv, OfferDecline
  PROVE  AInv' /\ Judged
<1>1. Commit(FailActiveOffer(Tables, "declined")) /\ Shaped(Tables)
  BY DEF OfferDecline, AInv
<1>2. QED
  BY <1>1, FailOfferIsQuiet, QuietCommit

LEMMA ProgressStep ==
  ASSUME AInv, GrantProgress
  PROVE  AInv' /\ Judged
<1> DEFINE d == Tables
           g == ActiveGrant(d)
           lease == Min({g.age + SoftLease, HardDeadline})
           G == (d.grants \ {g}) \cup {[g EXCEPT !.lease = lease]}
           e == [d EXCEPT !.grants = G]
<1>1. Commit(e)
  BY DEF GrantProgress
<1>2. Shaped(d)
  BY DEF AInv
<1> HIDE DEF G
<1>3. Quiet(d, e)
  BY <1>2, QuietColumns
<1>4. QED
  BY <1>1, <1>3, QuietCommit

LEMMA YieldStep ==
  ASSUME AInv, GrantYield
  PROVE  AInv' /\ Judged
<1>1. Commit(FailActiveGrant(Tables)) /\ Shaped(Tables)
  BY DEF GrantYield, AInv
<1>2. QED
  BY <1>1, FailGrantIsQuiet, QuietCommit

(* A speech moves the revision: its own Handoff may be offered at once.    *)
Held(d, e) ==
  /\ Shaped(e) /\ e.attempt = d.attempt
  /\ e.state.active_attempt = d.state.active_attempt
  /\ e.state.speech = d.state.speech

LEMMA HeldSteps ==
  ASSUME NEW c, NEW d, NEW e, Held(c, d),
         Quiet(d, e) \/ \E source : OfferAdded(d, e, source)
  PROVE  Held(c, e)
BY DEF Held, Quiet, OfferAdded

LEMMA SpokenIs ==
  ASSUME NEW d, Shaped(d), NEW g
  PROVE  /\ Shaped(Spoken(d, g)) /\ Spoken(d, g).attempt = d.attempt
         /\ Spoken(d, g).state.active_attempt = d.state.active_attempt
         /\ Spoken(d, g).state.speech = d.state.speech + 1
<1> DEFINE G == d.grants \ {g}
           c == [d EXCEPT !.grants = G]
           r == ReleaseDeferrals(c, g.offer)
           H == {h \in r.handoffs : ~(g.source[1] = "handoff" /\ h.id = g.source[2])}
           n == d.state.speech + 1
           m == g.depth
           k == IF ByModerator(g) THEN d.state.consecutive + 1 ELSE 0
           s == [d.state EXCEPT !.speech = n, !.depth = m, !.consecutive = k]
           e == [r EXCEPT !.handoffs = H, !.fallbacks = {}, !.state = s]
<1>1. Spoken(d, g) = e
  BY DEF Spoken
<1>2. n \in Nat
  BY DEF Shaped, StateShaped
<1> HIDE DEF G, H, n, m, k
<1>3. Quiet(d, c)
  BY QuietColumns
<1> HIDE DEF c
<1>4. Quiet(c, r)
  BY <1>3, ReleaseIsQuiet DEF Quiet
<1> HIDE DEF r
<1>5. Shaped(r) /\ r.attempt = d.attempt
  BY <1>3, <1>4 DEF Quiet
<1>6. StateShaped(s) /\ s.active_attempt = d.state.active_attempt /\ s.speech = n
  BY <1>2 DEF Shaped, StateShaped, StateColumns
<1> HIDE DEF s
<1>7. /\ Columns \subseteq DOMAIN e /\ e.state = s /\ e.intents = r.intents
      /\ e.attempt = r.attempt
  BY <1>5 DEF Shaped, Columns
<1> HIDE DEF e
<1>8. Shaped(e)
  BY <1>5, <1>6, <1>7 DEF Shaped
<1>9. QED
  BY <1>1, <1>5, <1>6, <1>7, <1>8 DEF n

LEMMA SpeechStep ==
  ASSUME AInv, NEW to, Speech(to)
  PROVE  AInv' /\ Judged
<1> DEFINE g == ActiveGrant(Tables)
           d == Spoken(Tables, g)
           opens == to # g.holder /\ Cardinality(d.handoffs) < MaxOpenHandoffs
           h == [id |-> d.state.speech, to |-> to, blocked_by |-> HandoffBlock(d, g),
                 suppressed |-> FALSE, attempts |-> 0,
                 eligible |-> d.state.decision_epoch + 1]
           H == d.handoffs \cup {h}
           t == IF opens THEN [d EXCEPT !.handoffs = H] ELSE d
           z == [t EXCEPT !.state.depth = 0]
           a == <<"handoff", h.id, 0>>
<1>1. \/ Commit(OfferHumanRequest(t))
      \/ Commit(MakeOffer(z, to, a, "reset"))
      \/ Commit(MakeOffer(t, to, a, "increment_provisional"))
      \/ Commit(ReturnControl(t))
  BY DEF Speech
<1>2. Shaped(Tables) /\ Accounted(Tables)
  BY DEF AInv
<1> HIDE DEF g
<1>3. /\ Shaped(d) /\ d.attempt = Tables.attempt
      /\ d.state.active_attempt = Tables.state.active_attempt
      /\ d.state.speech = Tables.state.speech + 1
  BY <1>2, SpokenIs
<1> HIDE DEF d, h, H, opens
<1>4. Quiet(d, t)
  BY <1>3, QuietColumns, QuietItself
<1> HIDE DEF t
<1>5. Held(d, t)
  BY <1>4 DEF Quiet, Held
<1>6. Quiet(t, OfferHumanRequest(t)) /\ Quiet(t, ReturnControl(t)) /\ Quiet(t, z)
  BY <1>5, QueuedIsQuiet, ReturnIsQuiet, DepthIsQuiet DEF Held
<1> HIDE DEF z, a
<1>7. Held(d, OfferHumanRequest(t)) /\ Held(d, ReturnControl(t)) /\ Held(d, z)
  BY <1>5, <1>6, HeldSteps
<1>8. OfferAdded(t, MakeOffer(t, to, a, "increment_provisional"), a)
  BY <1>5, OfferMade DEF Held
<1>9. OfferAdded(z, MakeOffer(z, to, a, "reset"), a)
  BY <1>7, OfferMade DEF Held
<1>10. /\ Held(d, MakeOffer(t, to, a, "increment_provisional"))
       /\ Held(d, MakeOffer(z, to, a, "reset"))
  BY <1>5, <1>7, <1>8, <1>9, HeldSteps
<1>11. PICK e : Commit(e) /\ Held(d, e)
  BY <1>1, <1>7, <1>10
<1>12. Shaped(e) /\ Accounted(e)
  BY <1>2, <1>3, <1>11 DEF Held, Accounted
<1>13. AInv'
  BY <1>11, <1>12, ShapedCommit
<1>14. state.speech \in Nat /\ Tables.state = state
  BY <1>2 DEF Shaped, StateShaped, Tables
<1>15. state'.speech # state.speech
  BY <1>3, <1>11, <1>14 DEF Commit, Held
<1>16. QED
  BY <1>13, <1>15 DEF Judged

-----------------------------------------------------------------------------
(* The decision attempts.                                                  *)

(* A new attempt runs and is called active; nothing is offered.            *)
NewIs(d, e) ==
  /\ Shaped(e)
  /\ e.state.active_attempt /\ e.attempt.state = "running" /\ e.offers = d.offers

LEMMA AttemptMade ==
  ASSUME NEW d, Shaped(d), NEW number, NEW epoch
  PROVE  NewIs(d, NewAttempt(d, number, epoch))
<1> DEFINE A == [state |-> "running", control_epoch |-> d.state.control_epoch,
                 decision_epoch |-> epoch, number |-> number,
                 speech |-> d.state.speech,
                 snapshot |-> CandidateSnapshot(d, epoch), late |-> FALSE,
                 tickets |-> {}]
           s == [d.state EXCEPT !.decision_epoch = epoch, !.decision_attempt = number,
                                !.active_attempt = TRUE, !.deadline = "attempt"]
           e == [d EXCEPT !.attempt = A, !.state = s]
<1>1. NewAttempt(d, number, epoch) = e
  BY DEF NewAttempt
<1>2. AttemptColumns \subseteq DOMAIN A /\ A.state = "running"
  BY DEF AttemptColumns
<1>3. StateShaped(s) /\ s.active_attempt
  BY DEF Shaped, StateShaped, StateColumns
<1> HIDE DEF A, s
<1>4. /\ Columns \subseteq DOMAIN e /\ e.attempt = A /\ e.state = s
      /\ e.offers = d.offers /\ e.intents = d.intents
  BY DEF Shaped, Columns
<1> HIDE DEF e
<1>5. NewIs(d, e)
  BY <1>2, <1>3, <1>4 DEF NewIs, Shaped
<1>6. QED
  BY <1>1, <1>5

LEMMA NewInControl ==
  ASSUME NEW d, NEW e, NewIs(d, e)
  PROVE  NewIs(d, [e EXCEPT !.state.phase = "moderator_control"])
<1> DEFINE s == [e.state EXCEPT !.phase = "moderator_control"]
           f == [e EXCEPT !.state = s]
<1>1. [e EXCEPT !.state.phase = "moderator_control"] = f
  OBVIOUS
<1>2. StateShaped(s) /\ s.active_attempt
  BY DEF NewIs, Shaped, StateShaped, StateColumns
<1> HIDE DEF s
<1>3. /\ Columns \subseteq DOMAIN f /\ f.attempt = e.attempt /\ f.state = s
      /\ f.offers = e.offers /\ f.intents = e.intents
  BY DEF NewIs, Shaped, Columns
<1> HIDE DEF f
<1>4. NewIs(d, f)
  BY <1>2, <1>3 DEF NewIs, Shaped
<1>5. QED
  BY <1>1, <1>4

LEMMA StartStep ==
  ASSUME AInv, NEW replaces, AttemptStart(replaces)
  PROVE  AInv' /\ Judged
<1> DEFINE d == Tables
           epoch == IF /\ state.phase = "moderator_idle"
                       /\ ~CohortHasCandidates(d, state.decision_epoch)
                    THEN state.decision_epoch + 1 ELSE state.decision_epoch
           number == IF replaces THEN attempt.number + 1 ELSE 1
           n == NewAttempt(d, number, epoch)
<1>1. Commit(n) \/ Commit([n EXCEPT !.state.phase = "moderator_control"])
  BY DEF AttemptStart
<1>2. Shaped(d) /\ d.offers = offers
  BY DEF AInv, Tables
<1> HIDE DEF d, epoch, number
<1>3. NewIs(d, n)
  BY <1>2, AttemptMade
<1>4. NewIs(d, [n EXCEPT !.state.phase = "moderator_control"])
  BY <1>3, NewInControl
<1>5. PICK e : Commit(e) /\ NewIs(d, e)
  BY <1>1, <1>3, <1>4
<1>6. Shaped(e) /\ Accounted(e)
  BY <1>5 DEF NewIs, Accounted
<1>7. AInv'
  BY <1>5, <1>6, ShapedCommit
<1>8. offers' = offers
  BY <1>2, <1>5 DEF Commit, NewIs
<1>9. QED
  BY <1>7, <1>8 DEF Judged

LEMMA FinishStep ==
  ASSUME AInv, (\E invalid \in BOOLEAN : AttemptFinish(invalid)) \/ AttemptAbandon
  PROVE  AInv' /\ Judged
<1> DEFINE d == EndAttempt(Tables, "over")
           b == EndAttempt(Tables, "abandoned")
<1>1. \/ Commit(RecoverInvalidAttempt(d))
      \/ Commit([d EXCEPT !.state.active_attempt = FALSE])
      \/ Commit([b EXCEPT !.state.active_attempt = FALSE])
  BY DEF AttemptFinish, AttemptAbandon
<1>2. Stopped(Tables, d) /\ Stopped(Tables, b)
  BY AttemptEnded DEF AInv
<1> HIDE DEF d, b
<1>3. /\ Closed(d, RecoverInvalidAttempt(d))
      /\ Closed(d, [d EXCEPT !.state.active_attempt = FALSE])
      /\ Closed(b, [b EXCEPT !.state.active_attempt = FALSE])
  BY <1>2, RecoveryClosed, LetGo DEF Stopped
<1>4. /\ Closed(Tables, RecoverInvalidAttempt(d))
      /\ Closed(Tables, [d EXCEPT !.state.active_attempt = FALSE])
      /\ Closed(Tables, [b EXCEPT !.state.active_attempt = FALSE])
  BY <1>2, <1>3, ClosedAfter
<1>5. QED
  BY <1>1, <1>4, ClosedCommit

LEMMA CohortStep ==
  ASSUME AInv, CompleteCohort
  PROVE  AInv' /\ Judged
<1> DEFINE d == EndAttempt(Tables, "over")
<1>1. Commit(NextCohort(d))
  BY DEF CompleteCohort
<1>2. Stopped(Tables, d)
  BY AttemptEnded DEF AInv
<1> HIDE DEF d
<1>3. Closed(d, NextCohort(d))
  BY <1>2, CohortClosed DEF Stopped
<1>4. QED
  BY <1>1, <1>2, <1>3, ClosedAfter, ClosedCommit

LEMMA RetryStep ==
  ASSUME AInv, NEW source, DecisionRetry(source)
  PROVE  AInv' /\ Judged
<1> DEFINE d == EndAttempt(Tables, "over")
           epoch == state.decision_epoch
           number == attempt.number + 1
           f == FallbackOrIdle(d, epoch)
           n == NewAttempt(d, number, epoch)
<1>1. \/ Commit(NextCohort(d)) \/ Commit(f)
      \/ Commit(SuppressHandoffCohort(f, epoch)) \/ Commit(n)
  BY DEF DecisionRetry
<1>2. Stopped(Tables, d)
  BY AttemptEnded DEF AInv
<1> HIDE DEF d, epoch, number
<1>3. Closed(d, NextCohort(d)) /\ Closed(d, f)
  BY <1>2, CohortClosed, FallbackClosed DEF Stopped
<1> HIDE DEF f
<1>4. Quiet(f, SuppressHandoffCohort(f, epoch))
  BY <1>3, HandoffsAreQuiet DEF Closed
<1>5. Closed(d, SuppressHandoffCohort(f, epoch))
  BY <1>3, <1>4, ClosedStays
<1>6. /\ Closed(Tables, NextCohort(d)) /\ Closed(Tables, f)
      /\ Closed(Tables, SuppressHandoffCohort(f, epoch))
  BY <1>2, <1>3, <1>5, ClosedAfter
<1>7. CASE Commit(n)
  <2>1. NewIs(d, n)
    BY <1>2, AttemptMade DEF Stopped
  <2> HIDE DEF n
  <2>2. Shaped(n) /\ Accounted(n)
    BY <2>1 DEF NewIs, Accounted
  <2>3. AInv'
    BY <1>7, <2>2, ShapedCommit
  <2>4. offers' = offers
    BY <1>2, <1>7, <2>1 DEF Commit, NewIs, Stopped, Tables
  <2>5. QED
    BY <2>3, <2>4 DEF Judged
<1>8. QED
  BY <1>1, <1>6, <1>7, ClosedCommit

LEMMA WithdrawSelfStep ==
  ASSUME AInv, WithdrawSelf
  PROVE  AInv' /\ Judged
<1> DEFINE d == Tables
           J == Without(d.intents, IntentsBy(d, Moderator))
           e == [d EXCEPT !.intents = J]
<1>1. Commit(e)
  BY DEF WithdrawSelf
<1>2. Shaped(d)
  BY DEF AInv
<1> HIDE DEF d
<1>3. IntentsBy(d, Moderator) \in SUBSET (DOMAIN d.intents)
  BY DEF IntentsBy
<1>4. IsSeq(J)
  BY <1>2, <1>3, WithoutSeq DEF Shaped
<1> HIDE DEF J
<1>5. Quiet(d, e)
  BY <1>2, <1>4, QuietIntents
<1>6. QED
  BY <1>1, <1>5, QuietCommit DEF d

-----------------------------------------------------------------------------
(* Time, recovery and End.                                                 *)

(* A step that at most marks the attempt as late.                          *)
LEMMA OnlyLater ==
  ASSUME AInv, state' = state, intents' = intents, offers' = offers,
         attempt' = attempt \/ attempt' = [attempt EXCEPT !.late = TRUE]
  PROVE  AInv' /\ Judged
<1> DEFINE t == Tables'
<1>1. /\ t = [state |-> state', intents |-> intents', requests |-> requests',
             handoffs |-> handoffs', offers |-> offers', grants |-> grants',
             attempt |-> attempt', fallbacks |-> fallbacks']
      /\ AInv' = (Shaped(t) /\ Accounted(t))
  BY DEF Tables, AInv
<1>2. Shaped(Tables) /\ Accounted(Tables)
  BY DEF AInv
<1>3. /\ AttemptColumns \subseteq DOMAIN attempt /\ StateShaped(state) /\ IsSeq(intents)
      /\ state.active_attempt <=> attempt.state = "running"
  BY <1>2 DEF Shaped, Accounted, Tables
<1>4. AttemptColumns \subseteq DOMAIN attempt' /\ attempt'.state = attempt.state
  BY <1>3 DEF AttemptColumns
<1> HIDE DEF t
<1>5. /\ Columns \subseteq DOMAIN t /\ t.state = state /\ t.intents = intents
      /\ t.attempt = attempt'
  BY <1>1 DEF Columns
<1>6. Shaped(t) /\ Accounted(t)
  BY <1>3, <1>4, <1>5 DEF Shaped, Accounted
<1>7. QED
  BY <1>1, <1>6 DEF Judged

LEMMA DueStep ==
  ASSUME AInv, AdvanceDue
  PROVE  AInv' /\ Judged
<1> DEFINE d == Tables
           n == state.decision_epoch
           x == EndAttempt(d, "over")
           y == SuppressHandoffCohort(x, n)
           expired == state.active_attempt /\ attempt.state = "running"
<1>1. \/ Commit(FailActiveOffer(d, "timed_out")) \/ Commit(FailActiveGrant(d))
      \/ Commit(FallbackOrIdle(x, n)) \/ Commit(FallbackOrIdle(y, n))
      \/ ~expired /\ Commit(FallbackOrIdle(d, n))
  BY DEF AdvanceDue
<1>2. Shaped(d) /\ Accounted(d) /\ d.state = state /\ d.attempt = attempt
  BY DEF AInv, Tables
<1>3. ~expired => d.attempt.state # "running"
  BY <1>2 DEF Accounted
<1> HIDE DEF d, n, expired
<1>4. Stopped(d, x)
  BY <1>2, AttemptEnded
<1> HIDE DEF x
<1>5. Quiet(x, y)
  BY <1>4, HandoffsAreQuiet DEF Stopped
<1> HIDE DEF y
<1>6. Shaped(y) /\ y.attempt.state # "running"
  BY <1>4, <1>5 DEF Stopped, Quiet
<1>7. Closed(x, FallbackOrIdle(x, n)) /\ Closed(y, FallbackOrIdle(y, n))
  BY <1>4, <1>6, FallbackClosed DEF Stopped
<1>8. Closed(x, FallbackOrIdle(y, n))
  BY <1>5, <1>7, ClosedAfter
<1>9. Closed(d, FallbackOrIdle(x, n)) /\ Closed(d, FallbackOrIdle(y, n))
  BY <1>4, <1>7, <1>8, ClosedAfter
<1>10. ~expired => Closed(d, FallbackOrIdle(d, n))
  BY <1>2, <1>3, FallbackClosed
<1>11. Quiet(d, FailActiveOffer(d, "timed_out")) /\ Quiet(d, FailActiveGrant(d))
  BY <1>2, FailOfferIsQuiet, FailGrantIsQuiet
<1>12. QED
  BY <1>1, <1>9, <1>10, <1>11, QuietCommit, ClosedCommit DEF d

LEMMA EndStep ==
  ASSUME AInv, End
  PROVE  AInv' /\ Judged
<1> DEFINE d == Tables
           x == EndAttempt(d, "over")
           A == IF d.attempt.state = "running" THEN x.attempt ELSE d.attempt
           s == [d.state EXCEPT !.phase = "ended", !.active_offer = 0,
                                !.active_grant = 0, !.active_attempt = FALSE,
                                !.depth = 0, !.consecutive = 0,
                                !.forced_return = FALSE, !.deadline = "none"]
           e == [d EXCEPT !.intents = << >>, !.requests = << >>, !.handoffs = {},
                          !.offers = {}, !.grants = {}, !.attempt = A, !.state = s]
<1>1. Commit(e)
  BY DEF End
<1>2. Shaped(d)
  BY DEF AInv
<1> HIDE DEF d
<1>3. Stopped(d, x)
  BY <1>2, AttemptEnded
<1> HIDE DEF x
<1>4. AttemptColumns \subseteq DOMAIN A /\ A.state # "running"
  BY <1>2, <1>3 DEF Stopped, Shaped
<1>5. StateShaped(s) /\ ~s.active_attempt
  BY <1>2 DEF Shaped, StateShaped, StateColumns
<1> HIDE DEF A, s
<1>6. /\ Columns \subseteq DOMAIN e /\ e.attempt = A /\ e.state = s
      /\ e.offers = {} /\ e.intents = << >>
  BY <1>2 DEF Shaped, Columns
<1> HIDE DEF e
<1>7. IsSeq(<< >>)
  BY NoRowsSeq
<1>8. Shaped(e) /\ Accounted(e)
  BY <1>4, <1>5, <1>6, <1>7 DEF Shaped, Accounted
<1>9. AInv'
  BY <1>1, <1>8, ShapedCommit
<1>10. offers' = {}
  BY <1>1, <1>6 DEF Commit
<1>11. QED
  BY <1>9, <1>10 DEF Judged

-----------------------------------------------------------------------------
(* The theorems.                                                           *)

LEMMA Started == Init => AInv
<1> SUFFICES ASSUME Init
             PROVE  AInv
  OBVIOUS
<1>1. IsSeq(<< >>)
  BY NoRowsSeq
<1>2. StateShaped(state) /\ ~state.active_attempt
  BY DEF Init, StateShaped, StateColumns
<1>3. AttemptColumns \subseteq DOMAIN attempt /\ attempt.state # "running"
  BY DEF Init, NoAttempt, AttemptColumns
<1>4. intents = << >>
  BY DEF Init
<1>5. Columns \subseteq DOMAIN Tables /\ Tables.state = state /\ Tables.attempt = attempt
      /\ Tables.intents = intents
  BY DEF Tables, Columns
<1>6. QED
  BY <1>1, <1>2, <1>3, <1>4, <1>5 DEF AInv, Shaped, Accounted

LEMMA EveryStep == AInv /\ [Next]_vars => AInv' /\ [Judged]_vars
<1> SUFFICES ASSUME AInv, [Next]_vars
             PROVE  AInv' /\ [Judged]_vars
  OBVIOUS
<1>1. ASSUME NEW a \in Participants,
             IntentSubmit(a) \/ IntentRefresh(a) \/ IntentWithdraw(a) \/ ModeratorReject(a)
      PROVE  AInv' /\ Judged
  BY <1>1, SubmitStep, ChangeStep
<1>2. ASSUME NEW source, NEW D, ModeratorSelect(source, D)
      PROVE  AInv' /\ Judged
  BY <1>2, SelectStep
<1>3. ASSUME NEW source, SelectRefused(source) \/ DecisionRetry(source)
      PROVE  AInv' /\ Judged
  BY <1>3, RefusedStep, RetryStep
<1>4. ASSUME NEW h, ModeratorDismissHandoff(h)
      PROVE  AInv' /\ Judged
  BY <1>4, DismissStep
<1>5. CASE ModeratorRecall
  BY <1>5, RecallStep
<1>6. ASSUME NEW h, HumanRequest(h) \/ HumanWithdraw(h)
      PROVE  AInv' /\ Judged
  BY <1>6, RequestStep, WithdrawStep
<1>7. CASE OfferAck \/ OfferDecline \/ GrantProgress \/ GrantYield
  BY <1>7, AckStep, DeclineStep, ProgressStep, YieldStep
<1>8. ASSUME NEW to, Speech(to)
      PROVE  AInv' /\ Judged
  BY <1>8, SpeechStep
<1>9. ASSUME NEW replaces, AttemptStart(replaces)
      PROVE  AInv' /\ Judged
  BY <1>9, StartStep
<1>10. CASE (\E invalid \in BOOLEAN : AttemptFinish(invalid)) \/ AttemptAbandon
  BY <1>10, FinishStep
<1>11. CASE CompleteCohort \/ WithdrawSelf
  BY <1>11, CohortStep, WithdrawSelfStep
<1>12. CASE Tick \/ AttemptDeadline
  BY <1>12, OnlyLater DEF Tick, AttemptDeadline
<1>13. CASE AdvanceDue \/ End
  BY <1>13, DueStep, EndStep
<1>14. CASE UNCHANGED vars
  BY <1>14, OnlyLater DEF vars
<1>15. QED
  BY <1>1, <1>2, <1>3, <1>4, <1>5, <1>6, <1>7, <1>8, <1>9, <1>10, <1>11, <1>12, <1>13,
     <1>14 DEF Next

LEMMA AlwaysShaped == Spec => []AInv
<1>1. Init => AInv
  BY Started
<1>2. AInv /\ [Next]_vars => AInv'
  BY EveryStep
<1>3. QED
  BY <1>1, <1>2, PTL DEF Spec

(* Whoever moderates: in every reachable state the state row calls an      *)
(* attempt active exactly when the latest attempt is running, whatever     *)
(* command, deadline, recovery, retry or End came in between, even where a *)
(* transaction restarts from a state row it read earlier (ChangeIntent).   *)
THEOREM AttemptsAccounted == Spec => []AttemptAccounted
<1>1. AInv => AttemptAccounted
  BY DEF AInv, Accounted, AttemptAccounted, Tables
<1>2. QED
  BY <1>1, AlwaysShaped, PTL

(* Whoever moderates: an Offer that a judgment makes is made for a source  *)
(* version its attempt froze, while that attempt runs, at the control      *)
(* epoch, decision epoch and speech revision it was started at.            *)
THEOREM JudgedIsFrozen == Spec => JudgedAsFrozen
<1>1. AInv /\ [Next]_vars => [Judged]_vars
  BY EveryStep
<1>2. [][Judged]_vars <=> JudgedAsFrozen
  BY DEF Judged, JudgedAsFrozen
<1>3. QED
  BY <1>1, <1>2, AlwaysShaped, PTL DEF Spec
=============================================================================
