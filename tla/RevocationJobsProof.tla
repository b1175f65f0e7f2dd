------------------------ MODULE RevocationJobsProof ------------------------
(***************************************************************************)
(* That no revocation job leaves a Meeting behind and none ends a Meeting  *)
(* without cause, for every number of people, workers, Meetings, jobs and  *)
(* faults, and for every size of a claim and of a listing.                 *)
(***************************************************************************)
EXTENDS RevocationJobs, WellFoundedInduction, SequenceTheorems, FiniteSetTheorems, TLAPS

Types ==
    /\ sessions \in [Id -> Session]
    /\ restricted \subseteq People
    /\ order \in Nat
    /\ jobs \in Seq(Job)
    /\ worker \in [Workers -> Worker]

(* The security order is drawn for every Create and every revocation.      *)
OrderIsLatest ==
    /\ \A s \in Id : sessions[s].order <= order
    /\ \A i \in DOMAIN jobs : jobs[i].order <= order

(* A restricted member of an active Meeting was restricted after its       *)
(* Create, by a command that left a job.                                   *)
RestrictionLeftJob ==
    \A s \in Id : \A p \in restricted \cap sessions[s].roster :
        sessions[s].status = "active" =>
            \E i \in DOMAIN jobs : jobs[i].pubkey = p /\ jobs[i].order > sessions[s].order

(* What a job still has to end lies beyond the cursor of every claim of    *)
(* it, however old the claim is.                                           *)
ClaimIsSound(c) ==
    /\ c.job \in DOMAIN jobs
    /\ \A s \in Reach(jobs[c.job]) : s > c.cursor

Held(w) == worker[w].claims \cup worker[w].hand

(* While a batch is ended: it is of one job; what that job still has to    *)
(* end is in the rest of the batch, or beyond a batch that was full; and   *)
(* it has a cause to end all of it.                                        *)
Cause(j, s) == /\ sessions[s].status # "none"
               /\ j.pubkey \in sessions[s].roster
               /\ j.order > sessions[s].order

Remains(j, batch, ending) ==
    \A s \in Reach(j) : \/ s \in ending
                        \/ /\ \A r \in batch : s > r
                           /\ ~revocation_batch_is_complete(batch)

BatchIsSound(w) ==
    /\ worker[w].phase \in {"end", "release"} =>
         \E c \in worker[w].hand : worker[w].hand = {c}
    /\ worker[w].phase = "end" =>
         /\ worker[w].ending \subseteq worker[w].batch
         /\ \A c \in worker[w].hand :
              /\ Remains(jobs[c.job], worker[w].batch, worker[w].ending)
              /\ \A s \in worker[w].batch : Cause(jobs[c.job], s)

WorkersAreSound ==
    \A w \in Workers : BatchIsSound(w) /\ \A c \in Held(w) : ClaimIsSound(c)

IInv ==
    /\ Types
    /\ OrderIsLatest
    /\ RestrictionLeftJob
    /\ WorkersAreSound
    /\ NoMeetingLeftBehind
    /\ RevokedForCause

(* What every step leaves alone: the target and the order of a job, and    *)
(* the order and the roster of a Meeting that exists.  A Meeting that is   *)
(* over stays over, and a new one draws a new order.                       *)
JobsKept ==
    \A i \in DOMAIN jobs : /\ i \in DOMAIN jobs'
                           /\ jobs'[i].pubkey = jobs[i].pubkey
                           /\ jobs'[i].order = jobs[i].order

SessionsKept ==
    \A s \in Id :
        \/ sessions'[s] = sessions[s]
        \/ /\ sessions[s].status = "active"
           /\ sessions'[s].status \in {"ended", "revoked"}
           /\ sessions'[s].order = sessions[s].order
           /\ sessions'[s].roster = sessions[s].roster
        \/ /\ sessions[s].status = "none"
           /\ sessions'[s].status = "active"
           /\ sessions'[s].order > order

(* So the reach of a job only shrinks, and what was sound for it stays so. *)
LEMMA ReachShrinks ==
    ASSUME IInv, Types', JobsKept, SessionsKept
    PROVE  /\ \A i \in DOMAIN jobs : Reach(jobs[i])' \subseteq Reach(jobs[i])
           /\ \A i \in DOMAIN jobs : \A s \in Id : Cause(jobs[i], s) => Cause(jobs[i], s)'
           /\ \A c : ClaimIsSound(c) => ClaimIsSound(c)'
           /\ \A v \in Workers : worker'[v] = worker[v] =>
                BatchIsSound(v)' /\ \A c \in Held(v)' : ClaimIsSound(c)'
           /\ \A s \in Id : sessions[s].status = "revoked" =>
                \E i \in DOMAIN jobs' : /\ jobs'[i].pubkey \in sessions'[s].roster
                                        /\ jobs'[i].order > sessions'[s].order
<1>1. /\ \A i \in DOMAIN jobs : jobs[i].order \in Nat /\ jobs[i].order <= order
      /\ \A s \in Id : sessions[s].order \in Nat /\ sessions'[s].order \in Nat
      /\ order \in Nat
  <2>1. \A i \in DOMAIN jobs : jobs[i] \in Job
    BY DEF IInv, Types
  <2>2. \A s \in Id : sessions[s] \in Session /\ sessions'[s] \in Session
    BY DEF IInv, Types
  <2>3. QED
    BY <2>1, <2>2 DEF Job, Session, IInv, Types, OrderIsLatest
<1>2. ASSUME NEW i \in DOMAIN jobs
      PROVE  Reach(jobs[i])' \subseteq Reach(jobs[i])
  <2>1. ASSUME NEW s \in Reach(jobs[i])' PROVE s \in Reach(jobs[i])
    <3>1. /\ s \in Id /\ sessions'[s].status = "active"
          /\ jobs'[i].pubkey \in sessions'[s].roster /\ sessions'[s].order < jobs'[i].order
      BY <2>1 DEF Reach
    <3>2. jobs'[i].pubkey = jobs[i].pubkey /\ jobs'[i].order = jobs[i].order
      BY DEF JobsKept
    <3>3. sessions'[s] = sessions[s]
      BY <1>1, <3>1, <3>2 DEF SessionsKept
    <3>4. QED
      BY <3>1, <3>2, <3>3 DEF Reach
  <2>2. QED
    BY <2>1
<1>3. ASSUME NEW i \in DOMAIN jobs, NEW s \in Id, Cause(jobs[i], s)
      PROVE  Cause(jobs[i], s)'
  BY <1>3 DEF Cause, JobsKept, SessionsKept
<1>4. ASSUME NEW c, ClaimIsSound(c) PROVE ClaimIsSound(c)'
  <2>1. c.job \in DOMAIN jobs /\ c.job \in DOMAIN jobs'
    BY <1>4 DEF ClaimIsSound, JobsKept
  <2>2. Reach(jobs[c.job])' \subseteq Reach(jobs[c.job])
    BY <1>2, <2>1
  <2>3. QED
    BY <1>4, <2>1, <2>2 DEF ClaimIsSound
<1>5. ASSUME NEW v \in Workers, worker'[v] = worker[v]
      PROVE  BatchIsSound(v)' /\ \A c \in Held(v)' : ClaimIsSound(c)'
  <2>1. Held(v)' = Held(v) /\ \A c \in Held(v) : ClaimIsSound(c)
    BY <1>5 DEF Held, IInv, WorkersAreSound
  <2>2. \A c \in Held(v)' : ClaimIsSound(c)'
    BY <1>4, <2>1
  <2>3. \A c \in worker[v].hand : c.job \in DOMAIN jobs
    BY <2>1 DEF Held, ClaimIsSound
  <2>4. ASSUME worker[v].phase = "end", NEW c \in worker[v].hand
        PROVE  /\ Remains(jobs[c.job], worker[v].batch, worker[v].ending)'
               /\ \A s \in worker[v].batch : Cause(jobs[c.job], s)'
    <3>1. /\ Remains(jobs[c.job], worker[v].batch, worker[v].ending)
          /\ \A s \in worker[v].batch : Cause(jobs[c.job], s)
      BY <2>4 DEF IInv, WorkersAreSound, BatchIsSound
    <3>2. Reach(jobs[c.job])' \subseteq Reach(jobs[c.job])
      BY <1>2, <2>3
    <3>3. worker[v].batch \subseteq Id
      BY DEF IInv, Types, Worker
    <3>4. \A s \in worker[v].batch : Cause(jobs[c.job], s)'
      BY <1>3, <2>3, <3>1, <3>3
    <3>5. Remains(jobs[c.job], worker[v].batch, worker[v].ending)'
      BY <1>5, <3>1, <3>2 DEF Remains, revocation_batch_is_complete
    <3>6. QED
      BY <3>4, <3>5
  <2>5. BatchIsSound(v)'
    <3>1. BatchIsSound(v)
      BY DEF IInv, WorkersAreSound
    <3>2. worker'[v].phase \in {"end", "release"} =>
            \E c \in worker'[v].hand : worker'[v].hand = {c}
      BY <1>5, <3>1 DEF BatchIsSound
    <3>3. worker'[v].phase = "end" => worker'[v].ending \subseteq worker'[v].batch
      BY <1>5, <3>1 DEF BatchIsSound
    <3>4. ASSUME worker'[v].phase = "end", NEW c \in worker'[v].hand
          PROVE  /\ Remains(jobs[c.job], worker[v].batch, worker[v].ending)'
                 /\ \A s \in worker'[v].batch : Cause(jobs[c.job], s)'
      BY <1>5, <2>4, <3>4
    <3>5. QED
      BY <3>2, <3>3, <3>4 DEF BatchIsSound
  <2>6. QED
    BY <2>2, <2>5
<1>6. ASSUME NEW s \in Id, sessions[s].status = "revoked"
      PROVE  \E i \in DOMAIN jobs' : /\ jobs'[i].pubkey \in sessions'[s].roster
                                     /\ jobs'[i].order > sessions'[s].order
  <2>1. PICK i \in DOMAIN jobs : /\ jobs[i].pubkey \in sessions[s].roster
                                 /\ jobs[i].order > sessions[s].order
    BY <1>6 DEF IInv, RevokedForCause
  <2>2. sessions'[s] = sessions[s]
    BY <1>6 DEF SessionsKept
  <2>3. QED
    BY <2>1, <2>2 DEF JobsKept
<1>7. QED
  BY <1>2, <1>3, <1>4, <1>5, <1>6

(* A listing is a prefix of what it lists, in the order of the ids, and    *)
(* only a full one leaves something out.                                   *)
LEMMA ListingIsPrefix ==
    ASSUME NEW S \in SUBSET Id
    PROVE  /\ FirstOf(S) \subseteq S
           /\ \A s \in S \ FirstOf(S) : \A r \in FirstOf(S) : s > r
           /\ S # FirstOf(S) => ~revocation_batch_is_complete(FirstOf(S))
<1> DEFINE Before(s) == {r \in S : r < s}
           Less == {ss \in Nat \X Nat : ss[1] < ss[2]}
<1>1. S \subseteq Nat /\ IsFiniteSet(S) /\ SessionLimit \in Nat
  <2>1. IsFiniteSet(Id)
    BY FS_Interval, JobsAssumption DEF Id
  <2>2. IsFiniteSet(S)
    BY <2>1, FS_Subset
  <2>3. Id \subseteq Nat /\ SessionLimit \in Nat
    BY JobsAssumption DEF Id
  <2>4. QED
    BY <2>2, <2>3
<1>2. \A s \in S : IsFiniteSet(Before(s)) /\ Cardinality(Before(s)) \in Nat
  BY <1>1, FS_Subset, FS_CardinalityType
<1>3. FirstOf(S) \subseteq S /\ \A s \in S : s \in FirstOf(S) <=> Cardinality(Before(s)) < SessionLimit
  BY DEF FirstOf
<1>4. ASSUME NEW s \in S \ FirstOf(S), NEW r \in FirstOf(S) PROVE s > r
  <2>1. s \in Nat /\ r \in Nat /\ r \in S /\ s # r
    BY <1>1, <1>3
  <2>2. ASSUME s < r PROVE FALSE
    <3>1. Before(s) \subseteq Before(r)
      <4>1. ASSUME NEW q \in S, q < s PROVE q < r
        <5>1. q \in Nat
          BY <1>1
        <5>2. QED
          BY <2>1, <2>2, <4>1, <5>1
      <4>2. QED
        BY <4>1
    <3>2. Cardinality(Before(s)) <= Cardinality(Before(r))
      BY <1>2, <2>1, <3>1, FS_Subset
    <3>3. QED
      BY <1>1, <1>2, <1>3, <2>1, <3>2
  <2>3. QED
    BY <2>1, <2>2
<1>5. ASSUME S # FirstOf(S) PROVE ~revocation_batch_is_complete(FirstOf(S))
  <2> DEFINE R == S \ FirstOf(S)
  <2>1. R # {} /\ R \subseteq Nat
    BY <1>1, <1>3, <1>5
  <2>2. IsWellFoundedOn(Less, Nat)
    BY NatLessThanWellFounded DEF OpToRel
  <2>3. PICK s \in R : \A y \in R : ~(<<y, s>> \in Less)
    BY <2>1, <2>2, WFMin
  <2>4. \A y \in R : ~(y < s)
    BY <2>1, <2>3
  <2>5. Before(s) \subseteq FirstOf(S)
    BY <2>4
  <2>6. IsFiniteSet(FirstOf(S))
    BY <1>1, <1>3, FS_Subset
  <2>7. Cardinality(Before(s)) <= Cardinality(FirstOf(S)) /\ Cardinality(FirstOf(S)) \in Nat
    BY <2>5, <2>6, FS_Subset, FS_CardinalityType
  <2>8. ~(Cardinality(Before(s)) < SessionLimit)
    BY <1>3
  <2>9. QED
    BY <1>1, <1>2, <2>7, <2>8 DEF revocation_batch_is_complete
<1>6. QED
  BY <1>3, <1>4, <1>5

(* An update of one row of the jobs.                                       *)
LEMMA RowUpdate ==
    ASSUME Types, NEW i \in DOMAIN jobs, NEW r \in Job,
           r.pubkey = jobs[i].pubkey, r.order = jobs[i].order,
           jobs' = [jobs EXCEPT ![i] = r]
    PROVE  /\ jobs' \in Seq(Job) /\ DOMAIN jobs' = DOMAIN jobs
           /\ JobsKept
           /\ jobs'[i] = r /\ \A k \in DOMAIN jobs \ {i} : jobs'[k] = jobs[k]
<1>1. jobs \in Seq(Job) /\ DOMAIN jobs = 1..Len(jobs)
  BY DEF Types
<1>2. jobs' \in Seq(Job)
  BY <1>1, ExceptSeq
<1>3. QED
  BY <1>1, <1>2 DEF JobsKept

(* A claim marks the rows it takes and leaves their cursors.               *)
LEMMA MarkingKeeps ==
    ASSUME Types, NEW S \in SUBSET DueJobs, MarkClaimed(S)
    PROVE  /\ jobs' \in Seq(Job) /\ DOMAIN jobs' = DOMAIN jobs
           /\ JobsKept
           /\ \A i \in DOMAIN jobs : /\ jobs'[i].cursor = jobs[i].cursor
                                     /\ jobs'[i].state = "completed" =>
                                          jobs[i].state = "completed"
<1>1. jobs \in Seq(Job) /\ DOMAIN jobs = 1..Len(jobs) /\ Len(jobs) \in Nat
      /\ \A i \in DOMAIN jobs : jobs[i] \in Job
  BY DEF Types
<1>2. \A i \in DOMAIN jobs :
        jobs'[i] = IF i \in S THEN [jobs[i] EXCEPT !.state = "running",
                                               !.attempts = @ + 1,
                                               !.due = FALSE]
                          ELSE jobs[i]
  BY DEF MarkClaimed
<1>3. ASSUME NEW i \in DOMAIN jobs
      PROVE  /\ jobs'[i] \in Job
             /\ jobs'[i].pubkey = jobs[i].pubkey
             /\ jobs'[i].order = jobs[i].order
             /\ jobs'[i].cursor = jobs[i].cursor
             /\ jobs'[i].state = "completed" => jobs[i].state = "completed"
  <2>1. jobs[i] \in Job /\ jobs[i].attempts + 1 \in Nat
    BY <1>1 DEF Job
  <2>2. CASE i \in S
    <3>1. jobs'[i] = [jobs[i] EXCEPT !.state = "running",
                                     !.attempts = jobs[i].attempts + 1,
                                     !.due = FALSE]
      BY <1>2, <2>2
    <3>2. QED
      BY <2>1, <3>1 DEF Job
  <2>3. CASE i \notin S
    BY <1>2, <2>1, <2>3
  <2>4. QED
    BY <2>2, <2>3
<1>4. jobs' \in [1..Len(jobs) -> Job]
  BY <1>1, <1>3 DEF MarkClaimed
<1>5. jobs' \in Seq(Job)
  BY <1>1, <1>4, SeqDef
<1>6. QED
  BY <1>1, <1>3, <1>4, <1>5 DEF JobsKept

(* A step that creates nothing keeps the facts about the order.            *)
LEMMA NothingCreated ==
    ASSUME IInv, Types', JobsKept, DOMAIN jobs' = DOMAIN jobs, SessionsKept,
           \A s \in Id : sessions'[s].status = "active" => sessions'[s] = sessions[s],
           order' = order, restricted' \subseteq restricted
    PROVE  OrderIsLatest' /\ RestrictionLeftJob'
<1>1. \A s \in Id : sessions'[s].order = sessions[s].order
  BY DEF SessionsKept
<1>2. OrderIsLatest'
  BY <1>1 DEF IInv, OrderIsLatest, JobsKept
<1>3. RestrictionLeftJob'
  BY DEF IInv, RestrictionLeftJob, JobsKept
<1>4. QED
  BY <1>2, <1>3

(* A step that records no progress, or only what was done, leaves nothing  *)
(* behind.                                                                 *)
LEMMA ProgressIsSound ==
    ASSUME IInv, Types', JobsKept, SessionsKept,
           \A i \in DOMAIN jobs' :
             \/ /\ i \in DOMAIN jobs
                /\ jobs'[i].cursor = jobs[i].cursor
                /\ jobs'[i].state = "completed" => jobs[i].state = "completed"
             \/ /\ \A s \in Reach(jobs[i])' : s > jobs'[i].cursor
                /\ jobs'[i].state = "completed" => Reach(jobs[i])' = {}
    PROVE  NoMeetingLeftBehind'
<1>1. SUFFICES ASSUME NEW i \in DOMAIN jobs'
               PROVE  /\ \A s \in Reach(jobs[i])' : s > jobs'[i].cursor
                      /\ jobs'[i].state = "completed" => Reach(jobs[i])' = {}
  BY DEF NoMeetingLeftBehind
<1>2. CASE /\ i \in DOMAIN jobs
           /\ jobs'[i].cursor = jobs[i].cursor
           /\ jobs'[i].state = "completed" => jobs[i].state = "completed"
  <2>1. Reach(jobs[i])' \subseteq Reach(jobs[i])
    BY <1>2, ReachShrinks
  <2>2. /\ \A s \in Reach(jobs[i]) : s > jobs[i].cursor
        /\ jobs[i].state = "completed" => Reach(jobs[i]) = {}
    BY <1>2 DEF IInv, NoMeetingLeftBehind
  <2>3. QED
    BY <1>2, <2>1, <2>2
<1>3. QED
  BY <1>2

(* The invariant after a step, from what the step changed.                 *)
LEMMA StepIsSound ==
    ASSUME IInv, Types', JobsKept, SessionsKept,
           OrderIsLatest', RestrictionLeftJob', NoMeetingLeftBehind',
           \A w \in Workers : worker'[w] # worker[w] =>
             BatchIsSound(w)' /\ \A c \in Held(w)' : ClaimIsSound(c)',
           \A s \in Id : sessions'[s].status = "revoked" /\ sessions[s].status # "revoked" =>
             \E i \in DOMAIN jobs' : /\ jobs'[i].pubkey \in sessions'[s].roster
                                     /\ jobs'[i].order > sessions'[s].order
    PROVE  IInv'
<1>1. WorkersAreSound'
  <2>1. \A w \in Workers : BatchIsSound(w)' /\ \A c \in Held(w)' : ClaimIsSound(c)'
    BY ReachShrinks
  <2>2. QED
    BY <2>1 DEF WorkersAreSound
<1>2. RevokedForCause'
  <2>1. \A s \in Id : sessions[s].status = "revoked" =>
          \E i \in DOMAIN jobs' : /\ jobs'[i].pubkey \in sessions'[s].roster
                                  /\ jobs'[i].order > sessions'[s].order
    BY ReachShrinks
  <2>2. QED
    BY <2>1 DEF RevokedForCause
<1>3. QED
  BY <1>1, <1>2 DEF IInv

(* The types of what a step reads.                                         *)
LEMMA Typed ==
    ASSUME IInv
    PROVE  /\ sessions \in [Id -> Session] /\ restricted \subseteq People /\ order \in Nat
           /\ jobs \in Seq(Job) /\ worker \in [Workers -> Worker]
           /\ Types
           /\ \A i \in DOMAIN jobs : jobs[i] \in Job /\ jobs[i].order \in Nat
           /\ \A s \in Id : sessions[s].order \in Nat
<1>1. /\ sessions \in [Id -> Session] /\ restricted \subseteq People /\ order \in Nat
      /\ jobs \in Seq(Job) /\ worker \in [Workers -> Worker]
      /\ Types
  BY DEF IInv, Types
<1>2. \A i \in DOMAIN jobs : jobs[i] \in Job
  BY <1>1
<1>3. \A s \in Id : sessions[s] \in Session
  BY <1>1
<1>4. QED
  BY <1>1, <1>2, <1>3 DEF Job, Session

(* A Meeting ends.                                                         *)
LEMMA EndingKeeps ==
    ASSUME Types, NEW s \in Id, sessions[s].status = "active",
           NEW st \in {"ended", "revoked"},
           sessions' = [sessions EXCEPT ![s].status = st]
    PROVE  /\ sessions' \in [Id -> Session]
           /\ SessionsKept
           /\ \A r \in Id : sessions'[r].status = "active" => sessions'[r] = sessions[r]
           /\ \A r \in Id \ {s} : sessions'[r] = sessions[r]
           /\ sessions'[s].order = sessions[s].order
           /\ sessions'[s].roster = sessions[s].roster
           /\ sessions'[s].status = st
<1>1. sessions \in [Id -> Session] /\ sessions[s] \in Session
  BY DEF Types
<1>2. /\ sessions' \in [Id -> Session]
      /\ \A r \in Id \ {s} : sessions'[r] = sessions[r]
      /\ sessions'[s].order = sessions[s].order
      /\ sessions'[s].roster = sessions[s].roster
      /\ sessions'[s].status = st
  BY <1>1 DEF Session
<1>3. QED
  BY <1>2 DEF SessionsKept

(* The commands of people: a Create, an End, the recovery of a revoked     *)
(* Meeting, and a reinstatement.                                           *)
LEMMA MeetingStepSound ==
    ASSUME IInv,
           \/ \E s \in Id, roster \in SUBSET People : create_meeting(s, roster)
           \/ \E s \in Id : end_meeting(s) \/ recover_revoked_roster(s)
           \/ \E p \in People : reinstate(p)
    PROVE  IInv'
<1>0. /\ sessions \in [Id -> Session] /\ restricted \subseteq People /\ order \in Nat
      /\ jobs \in Seq(Job) /\ worker \in [Workers -> Worker]
      /\ Types
      /\ \A i \in DOMAIN jobs : jobs[i] \in Job /\ jobs[i].order \in Nat
      /\ \A s \in Id : sessions[s].order \in Nat
  BY Typed
<1>1. jobs' = jobs /\ worker' = worker
  BY DEF create_meeting, end_meeting, recover_revoked_roster, reinstate
<1>2. JobsKept /\ DOMAIN jobs' = DOMAIN jobs
      /\ \A w \in Workers : worker'[w] = worker[w]
  BY <1>1 DEF JobsKept
<1>3. ASSUME Types', SessionsKept PROVE NoMeetingLeftBehind'
  <2>1. \A i \in DOMAIN jobs' :
          /\ i \in DOMAIN jobs
          /\ jobs'[i].cursor = jobs[i].cursor
          /\ jobs'[i].state = "completed" => jobs[i].state = "completed"
    BY <1>1
  <2>2. QED
    BY <1>2, <1>3, <2>1, ProgressIsSound
<1>4. ASSUME NEW s \in Id, NEW roster \in SUBSET People, create_meeting(s, roster)
      PROVE  IInv'
  <2> DEFINE new == [status |-> "active", order |-> order + 1, roster |-> roster]
  <2>1. /\ sessions[s].status = "none" /\ roster \cap restricted = {}
        /\ order' = order + 1 /\ restricted' = restricted
        /\ sessions' = [sessions EXCEPT ![s] = new]
    BY <1>4 DEF create_meeting
  <2>2. new \in Session
    BY <1>0 DEF Session
  <2>3. /\ sessions' \in [Id -> Session] /\ sessions'[s] = new
        /\ \A r \in Id \ {s} : sessions'[r] = sessions[r]
    BY <1>0, <2>1, <2>2
  <2>4. Types'
    BY <1>0, <1>1, <2>1, <2>3 DEF Types
  <2>5. SessionsKept
    BY <1>0, <2>1, <2>3 DEF SessionsKept
  <2>6. OrderIsLatest'
    BY <1>0, <1>1, <2>1, <2>3 DEF IInv, OrderIsLatest
  <2>7. RestrictionLeftJob'
    BY <1>1, <2>1, <2>3 DEF IInv, RestrictionLeftJob
  <2>8. \A r \in Id : ~(sessions'[r].status = "revoked" /\ sessions[r].status # "revoked")
    BY <2>3
  <2>9. NoMeetingLeftBehind'
    BY <1>3, <2>4, <2>5
  <2>10. QED
    BY <1>2, <2>4, <2>5, <2>6, <2>7, <2>8, <2>9, StepIsSound
<1>5. ASSUME NEW s \in Id, end_meeting(s) \/ recover_revoked_roster(s)
      PROVE  IInv'
  <2>1. /\ sessions[s].status = "active" /\ order' = order /\ restricted' = restricted
        /\ \/ sessions' = [sessions EXCEPT ![s].status = "ended"]
           \/ Revoked(s) /\ sessions' = [sessions EXCEPT ![s].status = "revoked"]
    BY <1>5 DEF end_meeting, recover_revoked_roster
  <2>2. /\ sessions' \in [Id -> Session]
        /\ SessionsKept
        /\ \A r \in Id : sessions'[r].status = "active" => sessions'[r] = sessions[r]
        /\ \A r \in Id \ {s} : sessions'[r] = sessions[r]
        /\ sessions'[s].order = sessions[s].order
        /\ sessions'[s].roster = sessions[s].roster
        /\ sessions'[s].status = "revoked" => Revoked(s)
    <3>1. CASE sessions' = [sessions EXCEPT ![s].status = "ended"]
      BY <1>0, <2>1, <3>1, EndingKeeps
    <3>2. CASE Revoked(s) /\ sessions' = [sessions EXCEPT ![s].status = "revoked"]
      BY <1>0, <2>1, <3>2, EndingKeeps
    <3>3. QED
      BY <2>1, <3>1, <3>2
  <2>3. Types'
    BY <1>0, <1>1, <2>1, <2>2 DEF Types
  <2>4. OrderIsLatest' /\ RestrictionLeftJob'
    BY <1>2, <2>1, <2>2, <2>3, NothingCreated
  <2>5. NoMeetingLeftBehind'
    BY <1>3, <2>2, <2>3
  <2>6. Revoked(s) => \E i \in DOMAIN jobs : /\ jobs[i].pubkey \in sessions[s].roster
                                            /\ jobs[i].order > sessions[s].order
    BY <2>1 DEF Revoked, IInv, RestrictionLeftJob
  <2>7. \A r \in Id : sessions'[r].status = "revoked" /\ sessions[r].status # "revoked" =>
          \E i \in DOMAIN jobs' : /\ jobs'[i].pubkey \in sessions'[r].roster
                                  /\ jobs'[i].order > sessions'[r].order
    BY <1>1, <2>2, <2>6
  <2>8. QED
    BY <1>2, <2>2, <2>3, <2>4, <2>5, <2>7, StepIsSound
<1>6. ASSUME NEW p \in People, reinstate(p) PROVE IInv'
  <2>1. restricted' = restricted \ {p} /\ sessions' = sessions /\ order' = order
    BY <1>6 DEF reinstate
  <2>2. Types' /\ SessionsKept
    BY <1>0, <1>1, <2>1 DEF Types, SessionsKept
  <2>3. OrderIsLatest' /\ RestrictionLeftJob'
    BY <1>2, <2>1, <2>2, NothingCreated
  <2>4. NoMeetingLeftBehind'
    BY <1>3, <2>2
  <2>5. QED
    BY <1>2, <2>1, <2>2, <2>3, <2>4, StepIsSound
<1>7. QED
  BY <1>4, <1>5, <1>6

(* The steps that change only the jobs: a restriction, the clock, and a    *)
(* claim whose answer is lost.                                             *)
LEMMA JobStepSound ==
    ASSUME IInv,
           \/ \E p \in People : enqueue_revocation_job(p)
           \/ \E i \in 1..MaxJobs : becomes_due(i)
           \/ \E w \in Workers : claim_error(w)
    PROVE  IInv'
<1>0. /\ sessions \in [Id -> Session] /\ restricted \subseteq People /\ order \in Nat
      /\ jobs \in Seq(Job) /\ worker \in [Workers -> Worker]
      /\ Types
      /\ \A i \in DOMAIN jobs : jobs[i] \in Job /\ jobs[i].order \in Nat
      /\ \A s \in Id : sessions[s].order \in Nat
  BY Typed
<1>1. sessions' = sessions /\ worker' = worker
  BY DEF enqueue_revocation_job, becomes_due, claim_error
<1>2. SessionsKept /\ \A w \in Workers : worker'[w] = worker[w]
  BY <1>1 DEF SessionsKept
<1>3. ASSUME jobs' \in Seq(Job), JobsKept, DOMAIN jobs' = DOMAIN jobs,
             order' = order, restricted' = restricted,
             \A i \in DOMAIN jobs : /\ jobs'[i].cursor = jobs[i].cursor
                                    /\ jobs'[i].state = "completed" =>
                                         jobs[i].state = "completed"
      PROVE  IInv'
  <2>1. Types'
    BY <1>0, <1>1, <1>3 DEF Types
  <2>2. OrderIsLatest' /\ RestrictionLeftJob'
    BY <1>1, <1>2, <1>3, <2>1, NothingCreated
  <2>3. NoMeetingLeftBehind'
    BY <1>2, <1>3, <2>1, ProgressIsSound
  <2>4. QED
    BY <1>1, <1>2, <1>3, <2>1, <2>2, <2>3, StepIsSound
<1>4. ASSUME NEW p \in People, enqueue_revocation_job(p) PROVE IInv'
  <2> DEFINE new == [pubkey |-> p, order |-> order + 1, state |-> "pending",
                     attempts |-> 0, cursor |-> 0, due |-> TRUE]
  <2>1. /\ order' = order + 1 /\ restricted' = restricted \cup {p}
        /\ jobs' = Append(jobs, new)
    BY <1>4 DEF enqueue_revocation_job
  <2>2. new \in Job
    BY <1>0, JobsAssumption DEF Job
  <2> HIDE DEF new
  <2>3. /\ jobs' \in Seq(Job) /\ DOMAIN jobs' = 1..Len(jobs)+1 /\ DOMAIN jobs = 1..Len(jobs)
        /\ Len(jobs) \in Nat
        /\ jobs'[Len(jobs) + 1] = new
        /\ \A i \in DOMAIN jobs : jobs'[i] = jobs[i]
    BY <1>0, <2>1, <2>2
  <2>4. \A i \in DOMAIN jobs' : i \in DOMAIN jobs \/ i = Len(jobs) + 1
    BY <2>3
  <2>5. /\ new.pubkey = p /\ new.order = order + 1 /\ new.state = "pending" /\ new.cursor = 0
    BY DEF new
  <2>6. JobsKept
    BY <2>3 DEF JobsKept
  <2>7. Types'
    BY <1>0, <1>1, <2>1, <2>3 DEF Types
  <2>8. OrderIsLatest'
    <3>1. \A s \in Id : sessions'[s].order <= order'
      BY <1>0, <1>1, <2>1 DEF IInv, OrderIsLatest
    <3>2. \A i \in DOMAIN jobs' : jobs'[i].order <= order'
      BY <1>0, <2>1, <2>3, <2>4, <2>5 DEF IInv, OrderIsLatest
    <3>3. QED
      BY <3>1, <3>2 DEF OrderIsLatest
  <2>9. RestrictionLeftJob'
    <3>1. ASSUME NEW s \in Id, NEW q \in restricted' \cap sessions'[s].roster,
                 sessions'[s].status = "active"
          PROVE  \E i \in DOMAIN jobs' : /\ jobs'[i].pubkey = q
                                         /\ jobs'[i].order > sessions'[s].order
      <4>1. CASE q = p
        <5>1. new.order > sessions[s].order
          BY <1>0, <2>5 DEF IInv, OrderIsLatest
        <5>2. QED
          BY <1>1, <2>3, <2>5, <4>1, <5>1
      <4>2. CASE q # p
        <5>1. PICK i \in DOMAIN jobs : jobs[i].pubkey = q /\ jobs[i].order > sessions[s].order
          BY <1>1, <2>1, <3>1, <4>2 DEF IInv, RestrictionLeftJob
        <5>2. QED
          BY <1>1, <2>3, <5>1
      <4>3. QED
        BY <4>1, <4>2
    <3>2. QED
      BY <3>1 DEF RestrictionLeftJob
  <2>10. NoMeetingLeftBehind'
    <3>1. \A s \in Id : s > 0
      BY JobsAssumption DEF Id
    <3>2. \A s \in Reach(jobs[Len(jobs) + 1])' : s > jobs'[Len(jobs) + 1].cursor
      <4>1. Reach(jobs[Len(jobs) + 1])' \subseteq Id
        BY DEF Reach
      <4>2. QED
        BY <2>3, <2>5, <3>1, <4>1
    <3>3. \A i \in DOMAIN jobs' :
             \/ /\ i \in DOMAIN jobs
                /\ jobs'[i].cursor = jobs[i].cursor
                /\ jobs'[i].state = "completed" => jobs[i].state = "completed"
             \/ /\ \A s \in Reach(jobs[i])' : s > jobs'[i].cursor
                /\ jobs'[i].state = "completed" => Reach(jobs[i])' = {}
      BY <2>3, <2>4, <2>5, <3>1 DEF Reach
    <3>4. QED
      BY <1>2, <2>6, <2>7, <3>3, ProgressIsSound
  <2>11. QED
    BY <1>1, <1>2, <2>6, <2>7, <2>8, <2>9, <2>10, StepIsSound
<1>5. ASSUME NEW i \in 1..MaxJobs, becomes_due(i) PROVE IInv'
  <2> DEFINE r == [jobs[i] EXCEPT !.due = TRUE]
  <2>1. /\ i \in DOMAIN jobs /\ jobs' = [jobs EXCEPT ![i] = r]
        /\ order' = order /\ restricted' = restricted
    BY <1>5 DEF becomes_due
  <2>2. /\ r \in Job /\ r.pubkey = jobs[i].pubkey /\ r.order = jobs[i].order
        /\ r.cursor = jobs[i].cursor /\ r.state = jobs[i].state
    <3>1. jobs[i] \in Job
      BY <1>0, <2>1
    <3>2. QED
      BY <3>1 DEF Job
  <2> HIDE DEF r
  <2>3. /\ jobs' \in Seq(Job) /\ DOMAIN jobs' = DOMAIN jobs
        /\ JobsKept
        /\ jobs'[i] = r /\ \A k \in DOMAIN jobs \ {i} : jobs'[k] = jobs[k]
    BY <1>0, <2>1, <2>2, RowUpdate
  <2>4. QED
    BY <1>3, <2>1, <2>2, <2>3
<1>6. ASSUME NEW w \in Workers, claim_error(w) PROVE IInv'
  <2>1. PICK S \in Claimable : MarkClaimed(S)
    BY <1>6 DEF claim_error
  <2>2. S \in SUBSET DueJobs /\ order' = order /\ restricted' = restricted
    BY <1>6, <2>1 DEF Claimable, claim_error
  <2>3. QED
    BY <1>0, <1>3, <2>1, <2>2, MarkingKeeps
<1>7. QED
  BY <1>4, <1>5, <1>6

(* A worker ends one Meeting of its batch.                                 *)
LEMMA EndOneKeeps ==
    ASSUME IInv, NEW w \in Workers, worker[w].phase = "end",
           NEW s \in worker[w].ending, EndOne(w, s)
    PROVE  /\ sessions' \in [Id -> Session]
           /\ SessionsKept
           /\ \A r \in Id : sessions'[r].status = "active" => sessions'[r] = sessions[r]
           /\ s \in Id /\ sessions'[s].status # "active"
           /\ \A r \in Id : sessions'[r].status = "revoked" /\ sessions[r].status # "revoked" =>
                \E i \in DOMAIN jobs : /\ jobs[i].pubkey \in sessions'[r].roster
                                       /\ jobs[i].order > sessions'[r].order
<1>0. Types /\ sessions \in [Id -> Session]
  BY Typed
<1>1. worker[w] \in Worker
  BY DEF IInv, Types
<1>2. s \in Id /\ s \in worker[w].batch
  BY <1>1 DEF IInv, WorkersAreSound, BatchIsSound, Worker
<1>3. CASE sessions[s].status = "active"
  <2>1. sessions' = [sessions EXCEPT ![s].status = "revoked"]
    BY <1>3 DEF EndOne
  <2>2. /\ sessions' \in [Id -> Session]
        /\ SessionsKept
        /\ \A r \in Id : sessions'[r].status = "active" => sessions'[r] = sessions[r]
        /\ \A r \in Id \ {s} : sessions'[r] = sessions[r]
        /\ sessions'[s].order = sessions[s].order
        /\ sessions'[s].roster = sessions[s].roster
        /\ sessions'[s].status = "revoked"
    BY <1>0, <1>2, <1>3, <2>1, EndingKeeps
  <2>3. PICK c \in worker[w].hand : Cause(jobs[c.job], s)
    BY <1>2 DEF IInv, WorkersAreSound, BatchIsSound
  <2>4. c.job \in DOMAIN jobs
    BY DEF IInv, WorkersAreSound, Held, ClaimIsSound
  <2>5. QED
    BY <1>2, <2>2, <2>3, <2>4 DEF Cause
<1>4. CASE sessions[s].status # "active"
  <2>1. sessions' = sessions
    BY <1>4 DEF EndOne
  <2>2. QED
    BY <1>0, <1>2, <1>4, <2>1 DEF SessionsKept
<1>5. QED
  BY <1>3, <1>4

(* The outcome of a batch is recorded: the job is done when nothing is     *)
(* left of its reach, and otherwise what is left lies beyond the batch.    *)
LEMMA RecordKeeps ==
    ASSUME IInv, NEW w \in Workers, worker[w].phase = "end",
           worker[w].ending = {}, RecordProgress(w)
    PROVE  /\ jobs' \in Seq(Job) /\ DOMAIN jobs' = DOMAIN jobs /\ JobsKept
           /\ \A i \in DOMAIN jobs :
                \/ /\ jobs'[i].cursor = jobs[i].cursor
                   /\ jobs'[i].state = "completed" => jobs[i].state = "completed"
                \/ /\ \A s \in Reach(jobs[i]) : s > jobs'[i].cursor
                   /\ jobs'[i].state = "completed" => Reach(jobs[i]) = {}
<1> DEFINE batch == worker[w].batch
<1>0. Types /\ jobs \in Seq(Job) /\ \A i \in DOMAIN jobs : jobs[i] \in Job
  BY Typed
<1>1. PICK c \in worker[w].hand : worker[w].hand = {c}
  BY DEF IInv, WorkersAreSound, BatchIsSound
<1>2. /\ c.job \in DOMAIN jobs /\ jobs[c.job] \in Job
      /\ Remains(jobs[c.job], batch, {})
      /\ \A s \in Reach(jobs[c.job]) : s > jobs[c.job].cursor
  BY <1>0 DEF IInv, WorkersAreSound, BatchIsSound, Held, ClaimIsSound, NoMeetingLeftBehind
<1>3. batch \subseteq Id
  BY DEF IInv, Types, Worker
<1>4. CASE jobs' = jobs
  BY <1>0, <1>4 DEF JobsKept
<1>5. CASE /\ revocation_batch_is_complete(batch)
           /\ jobs' = [jobs EXCEPT ![c.job].state = "completed"]
  <2> DEFINE r == [jobs[c.job] EXCEPT !.state = "completed"]
  <2>1. jobs' = [jobs EXCEPT ![c.job] = r]
    BY <1>5
  <2>2. /\ r \in Job /\ r.pubkey = jobs[c.job].pubkey /\ r.order = jobs[c.job].order
        /\ r.cursor = jobs[c.job].cursor
    BY <1>2 DEF Job
  <2> HIDE DEF r
  <2>3. /\ jobs' \in Seq(Job) /\ DOMAIN jobs' = DOMAIN jobs
        /\ JobsKept
        /\ jobs'[c.job] = r /\ \A k \in DOMAIN jobs \ {c.job} : jobs'[k] = jobs[k]
    BY <1>0, <1>2, <2>1, <2>2, RowUpdate
  <2>4. Reach(jobs[c.job]) = {}
    BY <1>2, <1>5 DEF Remains
  <2>5. QED
    BY <1>2, <2>2, <2>3, <2>4
<1>6. ASSUME NEW s \in batch, \A q \in batch : q <= s,
             jobs' = [jobs EXCEPT ![c.job].state = "pending", ![c.job].due = FALSE,
                                  ![c.job].cursor = s]
      PROVE  /\ jobs' \in Seq(Job) /\ DOMAIN jobs' = DOMAIN jobs /\ JobsKept
             /\ \A i \in DOMAIN jobs :
                  \/ /\ jobs'[i].cursor = jobs[i].cursor
                     /\ jobs'[i].state = "completed" => jobs[i].state = "completed"
                  \/ /\ \A q \in Reach(jobs[i]) : q > jobs'[i].cursor
                     /\ jobs'[i].state = "completed" => Reach(jobs[i]) = {}
  <2> DEFINE r == [jobs[c.job] EXCEPT !.state = "pending", !.due = FALSE, !.cursor = s]
  <2>1. jobs' = [jobs EXCEPT ![c.job] = r]
    BY <1>0, <1>2, <1>6
  <2>2. s \in 0..MaxSession
    BY <1>3, JobsAssumption DEF Id
  <2>3. /\ r \in Job /\ r.pubkey = jobs[c.job].pubkey /\ r.order = jobs[c.job].order
        /\ r.cursor = s /\ r.state = "pending"
    BY <1>2, <2>2 DEF Job
  <2> HIDE DEF r
  <2>4. /\ jobs' \in Seq(Job) /\ DOMAIN jobs' = DOMAIN jobs
        /\ JobsKept
        /\ jobs'[c.job] = r /\ \A k \in DOMAIN jobs \ {c.job} : jobs'[k] = jobs[k]
    BY <1>0, <1>2, <2>1, <2>3, RowUpdate
  <2>5. \A q \in Reach(jobs[c.job]) : q > s
    BY <1>2 DEF Remains
  <2>6. QED
    BY <2>3, <2>4, <2>5
<1>7. \/ jobs' = jobs
      \/ /\ revocation_batch_is_complete(batch)
         /\ jobs' = [jobs EXCEPT ![c.job].state = "completed"]
      \/ \E s \in batch : /\ \A q \in batch : q <= s
                          /\ jobs' = [jobs EXCEPT ![c.job].state = "pending",
                                                  ![c.job].due = FALSE, ![c.job].cursor = s]
  <2>1. IF revocation_batch_is_complete(batch)
        THEN complete_revocation_job(c)
        ELSE \E s \in batch : /\ \A q \in batch : q <= s
                              /\ advance_revocation_job(c, s)
    BY <1>1 DEF RecordProgress
  <2>2. QED
    BY <2>1 DEF complete_revocation_job, advance_revocation_job
<1>8. QED
  BY <1>4, <1>5, <1>6, <1>7

(* A worker that takes up its next job, or nothing.                        *)
LEMMA NextJobSound ==
    ASSUME IInv, NEW w \in Workers,
           \/ NextJob(w)
           \/ worker' = [worker EXCEPT ![w] = Idle]
    PROVE  /\ worker' \in [Workers -> Worker]
           /\ \A v \in Workers \ {w} : worker'[v] = worker[v]
           /\ BatchIsSound(w)'
           /\ Held(w)' \subseteq Held(w)
<1>1. worker \in [Workers -> Worker] /\ worker[w] \in Worker
  BY DEF IInv, Types
<1>2. PICK r \in Worker : /\ r.phase \in {"idle", "list"} /\ r.hand = {}
                          /\ r.claims \subseteq worker[w].claims
                          /\ worker' = [worker EXCEPT ![w] = r]
  <2>1. CASE NextJob(w)
    <3> DEFINE ph == IF worker[w].claims = {} THEN "idle" ELSE "list"
               q == [Idle EXCEPT !.phase = ph, !.claims = worker[w].claims]
    <3>1. ph \in {"idle", "list"}
      OBVIOUS
    <3>2. worker' = [worker EXCEPT ![w] = q]
      <4>1. CASE worker[w].claims = {}
        <5>1. ph = "idle"
          BY <4>1
        <5>2. worker' = [worker EXCEPT ![w] = [Idle EXCEPT !.phase = "idle",
                                                           !.claims = worker[w].claims]]
          BY <2>1, <4>1 DEF NextJob
        <5>3. QED
          BY <5>1, <5>2
      <4>2. CASE worker[w].claims # {}
        <5>1. ph = "list"
          BY <4>2
        <5>2. worker' = [worker EXCEPT ![w] = [Idle EXCEPT !.phase = "list",
                                                           !.claims = worker[w].claims]]
          BY <2>1, <4>2 DEF NextJob
        <5>3. QED
          BY <5>1, <5>2
      <4>3. QED
        BY <4>1, <4>2
    <3> HIDE DEF ph
    <3>3. Idle \in Worker /\ Idle.hand = {}
      BY DEF Idle, Worker
    <3>4. /\ q \in Worker
          /\ q.phase \in {"idle", "list"} /\ q.hand = {} /\ q.claims = worker[w].claims
      BY <1>1, <3>1, <3>3 DEF Worker
    <3> HIDE DEF q
    <3>5. QED
      BY <3>2, <3>4
  <2>2. CASE worker' = [worker EXCEPT ![w] = Idle]
    <3>1. Idle \in Worker /\ Idle.phase = "idle" /\ Idle.hand = {} /\ Idle.claims = {}
      BY DEF Idle, Worker
    <3>2. QED
      BY <2>2, <3>1
  <2>3. QED
    BY <2>1, <2>2
<1>3. /\ worker' \in [Workers -> Worker] /\ worker'[w] = r
      /\ \A v \in Workers \ {w} : worker'[v] = worker[v]
  BY <1>1, <1>2
<1>4. QED
  BY <1>2, <1>3 DEF BatchIsSound, Held

(* Every step of a worker keeps the invariant.                             *)
LEMMA WorkerStepSound ==
    ASSUME IInv, NEW w \in Workers,
           \/ WorkerStep(w) \/ process_error(w) \/ abandon(w)
    PROVE  IInv'
<1>0. /\ sessions \in [Id -> Session] /\ restricted \subseteq People /\ order \in Nat
      /\ jobs \in Seq(Job) /\ worker \in [Workers -> Worker]
      /\ Types
      /\ \A i \in DOMAIN jobs : jobs[i] \in Job /\ jobs[i].order \in Nat
      /\ worker[w] \in Worker
  <2>1. worker \in [Workers -> Worker]
    BY Typed
  <2>2. QED
    BY <2>1, Typed
<1>1. restricted' = restricted /\ order' = order
  BY DEF WorkerStep, claim_revocation_jobs, list_revoked_participant_sessions,
         end_meeting_for_revocation, finish_batch, release, process_error, abandon
<1>2. \A c \in Held(w) : ClaimIsSound(c)
  BY DEF IInv, WorkersAreSound
(* It is enough to look at the rows and at the worker that stepped.        *)
<1>3. ASSUME sessions' \in [Id -> Session], SessionsKept,
             \A s \in Id : sessions'[s].status = "active" => sessions'[s] = sessions[s],
             \A s \in Id : sessions'[s].status = "revoked" /\ sessions[s].status # "revoked" =>
               \E i \in DOMAIN jobs : /\ jobs[i].pubkey \in sessions'[s].roster
                                      /\ jobs[i].order > sessions'[s].order,
             jobs' \in Seq(Job), DOMAIN jobs' = DOMAIN jobs, JobsKept,
             \A i \in DOMAIN jobs :
               \/ /\ jobs'[i].cursor = jobs[i].cursor
                  /\ jobs'[i].state = "completed" => jobs[i].state = "completed"
               \/ /\ \A s \in Reach(jobs[i]) : s > jobs'[i].cursor
                  /\ jobs'[i].state = "completed" => Reach(jobs[i]) = {},
             worker' \in [Workers -> Worker],
             \A v \in Workers \ {w} : worker'[v] = worker[v],
             BatchIsSound(w)',
             \A c \in Held(w)' : ClaimIsSound(c)'
      PROVE  IInv'
  <2>1. Types'
    BY <1>0, <1>1, <1>3 DEF Types
  <2>2. OrderIsLatest' /\ RestrictionLeftJob'
    BY <1>1, <1>3, <2>1, NothingCreated
  <2>3. \A i \in DOMAIN jobs : Reach(jobs[i])' \subseteq Reach(jobs[i])
    BY <1>3, <2>1, ReachShrinks
  <2>4. \A i \in DOMAIN jobs' :
             \/ /\ i \in DOMAIN jobs
                /\ jobs'[i].cursor = jobs[i].cursor
                /\ jobs'[i].state = "completed" => jobs[i].state = "completed"
             \/ /\ \A s \in Reach(jobs[i])' : s > jobs'[i].cursor
                /\ jobs'[i].state = "completed" => Reach(jobs[i])' = {}
    BY <1>3, <2>3
  <2>5. NoMeetingLeftBehind'
    BY <1>3, <2>1, <2>4, ProgressIsSound
  <2>6. \A s \in Id : sessions'[s].status = "revoked" /\ sessions[s].status # "revoked" =>
             \E i \in DOMAIN jobs' : /\ jobs'[i].pubkey \in sessions'[s].roster
                                     /\ jobs'[i].order > sessions'[s].order
    BY <1>3 DEF JobsKept
  <2>7. \A v \in Workers : worker'[v] # worker[v] =>
             BatchIsSound(v)' /\ \A c \in Held(v)' : ClaimIsSound(c)'
    BY <1>3
  <2>8. QED
    BY <1>3, <2>1, <2>2, <2>5, <2>6, <2>7, StepIsSound
<1>4. ASSUME UNCHANGED sessions
      PROVE  /\ sessions' \in [Id -> Session] /\ SessionsKept
             /\ \A s \in Id : sessions'[s].status = "active" => sessions'[s] = sessions[s]
             /\ \A s \in Id : ~(sessions'[s].status = "revoked" /\ sessions[s].status # "revoked")
  BY <1>0, <1>4 DEF SessionsKept
<1>5. ASSUME UNCHANGED jobs
      PROVE  /\ jobs' \in Seq(Job) /\ DOMAIN jobs' = DOMAIN jobs /\ JobsKept
             /\ \A i \in DOMAIN jobs : jobs'[i] = jobs[i]
  BY <1>0, <1>5 DEF JobsKept
<1>6. ASSUME Types', JobsKept, SessionsKept
      PROVE  \A c \in Held(w) : ClaimIsSound(c)'
  BY <1>2, <1>6, ReachShrinks
<1>7. CASE claim_revocation_jobs(w)
  <2> DEFINE Taken(S) == {[job |-> i, token |-> jobs[i].attempts + 1,
                           cursor |-> jobs[i].cursor] : i \in S}
  <2>1. PICK S \in Claimable :
          /\ MarkClaimed(S)
          /\ worker' = [worker EXCEPT ![w].phase = "list", ![w].claims = Taken(S)]
    BY <1>7 DEF claim_revocation_jobs
  <2>2. S \in SUBSET DueJobs /\ S \subseteq DOMAIN jobs /\ UNCHANGED sessions
    BY <1>7, <2>1 DEF Claimable, DueJobs, claim_revocation_jobs
  <2>3. /\ jobs' \in Seq(Job) /\ DOMAIN jobs' = DOMAIN jobs
        /\ JobsKept
        /\ \A i \in DOMAIN jobs : /\ jobs'[i].cursor = jobs[i].cursor
                                  /\ jobs'[i].state = "completed" =>
                                       jobs[i].state = "completed"
    BY <1>0, <2>1, <2>2, MarkingKeeps
  <2>4. Taken(S) \subseteq Claim
    <3>1. \A i \in S : i \in Nat /\ jobs[i].attempts + 1 \in Nat /\ jobs[i].cursor \in 0..MaxSession
      BY <1>0, <2>2 DEF Job
    <3>2. QED
      BY <3>1 DEF Claim
  <2> DEFINE r == [worker[w] EXCEPT !.phase = "list", !.claims = Taken(S)]
  <2>5. worker' = [worker EXCEPT ![w] = r]
    BY <1>0, <2>1
  <2>6. /\ worker' \in [Workers -> Worker]
        /\ \A v \in Workers \ {w} : worker'[v] = worker[v]
        /\ worker'[w].phase = "list" /\ worker'[w].claims = Taken(S)
        /\ worker'[w].hand = worker[w].hand
    <3>1. /\ r \in Worker /\ r.phase = "list" /\ r.claims = Taken(S)
          /\ r.hand = worker[w].hand
      BY <1>0, <2>4 DEF Worker
    <3> HIDE DEF r
    <3>2. QED
      BY <1>0, <2>5, <3>1
  <2>7. BatchIsSound(w)'
    BY <2>6 DEF BatchIsSound
  <2>8. Types'
    BY <1>0, <1>1, <1>4, <2>2, <2>3, <2>6 DEF Types
  <2>9. \A c \in Held(w)' : ClaimIsSound(c)'
    <3>1. \A c \in worker[w].hand : ClaimIsSound(c)'
      BY <1>4, <1>6, <2>2, <2>3, <2>8 DEF Held
    <3>2. ASSUME NEW c \in Taken(S) PROVE ClaimIsSound(c)
      <4>1. PICK i \in S : c = [job |-> i, token |-> jobs[i].attempts + 1,
                                cursor |-> jobs[i].cursor]
        BY <3>2
      <4>2. c.job = i /\ c.cursor = jobs[i].cursor /\ i \in DOMAIN jobs
        BY <2>2, <4>1
      <4>3. QED
        BY <4>2 DEF ClaimIsSound, IInv, NoMeetingLeftBehind
    <3>3. \A c \in Taken(S) : ClaimIsSound(c)'
      BY <1>4, <2>2, <2>3, <2>8, <3>2, ReachShrinks
    <3>4. QED
      BY <2>6, <3>1, <3>3 DEF Held
  <2>10. QED
    BY <1>3, <1>4, <2>2, <2>3, <2>6, <2>7, <2>9
<1>8. CASE list_revoked_participant_sessions(w)
  <2>1. PICK c \in worker[w].claims :
          worker' = [worker EXCEPT ![w].phase = "end", ![w].hand = {c},
                                   ![w].claims = @ \ {c},
                                   ![w].batch = FirstOf(Listed(c)),
                                   ![w].ending = FirstOf(Listed(c))]
    BY <1>8 DEF list_revoked_participant_sessions
  <2>2. UNCHANGED <<sessions, jobs>>
    BY <1>8 DEF list_revoked_participant_sessions
  <2>3. ClaimIsSound(c) /\ c \in Claim
    BY <1>0, <1>2 DEF Held, Worker
  <2>4. Listed(c) = Reach(jobs[c.job]) /\ Reach(jobs[c.job]) \in SUBSET Id
    BY <2>3 DEF ClaimIsSound, Listed, Reach
  <2> DEFINE L == FirstOf(Reach(jobs[c.job]))
  <2>5. /\ L \subseteq Reach(jobs[c.job])
        /\ \A s \in Reach(jobs[c.job]) \ L : \A r \in L : s > r
        /\ Reach(jobs[c.job]) # L => ~revocation_batch_is_complete(L)
    BY <2>4, ListingIsPrefix
  <2>6. worker' = [worker EXCEPT ![w] =
                     [phase |-> "end", claims |-> worker[w].claims \ {c}, hand |-> {c},
                      batch |-> L, ending |-> L]]
    BY <1>0, <2>1, <2>4 DEF Worker
  <2> HIDE DEF L
  <2>7. /\ worker' \in [Workers -> Worker]
        /\ \A v \in Workers \ {w} : worker'[v] = worker[v]
        /\ worker'[w].phase = "end" /\ worker'[w].claims = worker[w].claims \ {c}
        /\ worker'[w].hand = {c} /\ worker'[w].batch = L /\ worker'[w].ending = L
    BY <1>0, <2>3, <2>4, <2>5, <2>6 DEF Worker
  <2>8. Remains(jobs[c.job], L, L)
    BY <2>5 DEF Remains
  <2>9. \A s \in L : Cause(jobs[c.job], s)
    <3>1. \A s \in L : s \in Reach(jobs[c.job])
      BY <2>5
    <3>2. ASSUME NEW s \in L PROVE Cause(jobs[c.job], s)
      <4>1. /\ s \in Id /\ sessions[s].status = "active"
            /\ jobs[c.job].pubkey \in sessions[s].roster
            /\ sessions[s].order < jobs[c.job].order
        BY <3>1 DEF Reach
      <4>2. sessions[s].order \in Nat /\ jobs[c.job].order \in Nat
        BY <1>0, <2>3, <4>1, Typed DEF ClaimIsSound
      <4>3. QED
        BY <4>1, <4>2 DEF Cause
    <3>3. QED
      BY <3>2
  <2>10. /\ \A b, e : Remains(jobs[c.job], b, e) => Remains(jobs[c.job], b, e)'
         /\ \A s : Cause(jobs[c.job], s) => Cause(jobs[c.job], s)'
         /\ \A d : ClaimIsSound(d) => ClaimIsSound(d)'
    BY <2>2 DEF Remains, Cause, ClaimIsSound, Reach, revocation_batch_is_complete
  <2>11. BatchIsSound(w)'
    <3>1. \A s \in L : Cause(jobs[c.job], s)'
      BY <2>9, <2>10
    <3>2. Remains(jobs[c.job], worker[w].batch, worker[w].ending)'
      BY <2>2, <2>7, <2>8 DEF Remains, Reach, revocation_batch_is_complete
    <3>3. QED
      BY <2>7, <3>1, <3>2 DEF BatchIsSound
  <2>12. \A d \in Held(w)' : ClaimIsSound(d)'
    <3>1. \A d \in Held(w)' : d \in Held(w)
      BY <2>7 DEF Held
    <3>2. QED
      BY <1>2, <2>10, <3>1
  <2>13. QED
    BY <1>3, <1>4, <1>5, <2>2, <2>7, <2>11, <2>12
<1>9. CASE end_meeting_for_revocation(w)
  <2>1. PICK s \in worker[w].ending :
          EndOne(w, s) /\ worker' = [worker EXCEPT ![w].ending = @ \ {s}]
    BY <1>9 DEF end_meeting_for_revocation
  <2>2. worker[w].phase = "end" /\ UNCHANGED jobs
    BY <1>9 DEF end_meeting_for_revocation
  <2>3. /\ sessions' \in [Id -> Session]
        /\ SessionsKept
        /\ \A r \in Id : sessions'[r].status = "active" => sessions'[r] = sessions[r]
        /\ s \in Id /\ sessions'[s].status # "active"
        /\ \A r \in Id : sessions'[r].status = "revoked" /\ sessions[r].status # "revoked" =>
             \E i \in DOMAIN jobs : /\ jobs[i].pubkey \in sessions'[r].roster
                                    /\ jobs[i].order > sessions'[r].order
    BY <2>1, <2>2, EndOneKeeps
  <2> DEFINE q == [worker[w] EXCEPT !.ending = worker[w].ending \ {s}]
  <2>4. worker' = [worker EXCEPT ![w] = q]
    BY <1>0, <2>1
  <2>5. /\ worker' \in [Workers -> Worker]
        /\ \A v \in Workers \ {w} : worker'[v] = worker[v]
        /\ worker'[w].phase = "end" /\ worker'[w].claims = worker[w].claims
        /\ worker'[w].hand = worker[w].hand /\ worker'[w].batch = worker[w].batch
        /\ worker'[w].ending = worker[w].ending \ {s}
    <3>1. /\ q \in Worker /\ q.phase = "end" /\ q.claims = worker[w].claims
          /\ q.hand = worker[w].hand /\ q.batch = worker[w].batch
          /\ q.ending = worker[w].ending \ {s}
      BY <1>0, <2>2 DEF Worker
    <3> HIDE DEF q
    <3>2. QED
      BY <1>0, <2>4, <3>1
  <2>6. Types' /\ JobsKept
    BY <1>0, <1>1, <1>5, <2>2, <2>3, <2>5 DEF Types
  <2>7. \A c \in Held(w)' : ClaimIsSound(c)'
    BY <1>6, <2>3, <2>5, <2>6 DEF Held
  <2>8. BatchIsSound(w)'
    <3>1. BatchIsSound(w)
      BY DEF IInv, WorkersAreSound
    <3>2. ASSUME NEW c \in worker[w].hand
          PROVE  /\ Remains(jobs[c.job], worker[w].batch, worker[w].ending)'
                 /\ \A r \in worker[w].batch : Cause(jobs[c.job], r)'
      <4>1. /\ Remains(jobs[c.job], worker[w].batch, worker[w].ending)
            /\ \A r \in worker[w].batch : Cause(jobs[c.job], r)
            /\ c.job \in DOMAIN jobs /\ worker[w].batch \subseteq Id
        BY <1>0, <1>2, <2>2, <3>1 DEF BatchIsSound, Held, ClaimIsSound, Worker
      <4>2. /\ Reach(jobs[c.job])' \subseteq Reach(jobs[c.job])
            /\ \A r \in Id : Cause(jobs[c.job], r) => Cause(jobs[c.job], r)'
        BY <2>3, <2>6, <4>1, ReachShrinks
      <4>3. s \notin Reach(jobs[c.job])'
        BY <2>3 DEF Reach
      <4>4. \A r \in Reach(jobs[c.job])' :
              \/ r \in worker[w].ending \ {s}
              \/ /\ \A x \in worker[w].batch : r > x
                 /\ ~revocation_batch_is_complete(worker[w].batch)
        BY <4>1, <4>2, <4>3 DEF Remains
      <4>5. revocation_batch_is_complete(worker[w].batch)'
              = revocation_batch_is_complete(worker[w].batch)
        BY <2>5 DEF revocation_batch_is_complete
      <4>6. Remains(jobs[c.job], worker[w].batch, worker[w].ending)'
        BY <2>5, <4>4, <4>5 DEF Remains
      <4>7. QED
        BY <4>1, <4>2, <4>6
    <3>3. QED
      BY <2>2, <2>5, <3>1, <3>2 DEF BatchIsSound
  <2>9. QED
    BY <1>3, <1>5, <2>2, <2>3, <2>5, <2>7, <2>8
<1>10. CASE finish_batch(w)
  <2>1. /\ worker[w].phase = "end" /\ worker[w].ending = {} /\ RecordProgress(w)
        /\ NextJob(w) /\ UNCHANGED sessions
    BY <1>10 DEF finish_batch
  <2>2. /\ jobs' \in Seq(Job) /\ DOMAIN jobs' = DOMAIN jobs /\ JobsKept
        /\ \A i \in DOMAIN jobs :
             \/ /\ jobs'[i].cursor = jobs[i].cursor
                /\ jobs'[i].state = "completed" => jobs[i].state = "completed"
             \/ /\ \A s \in Reach(jobs[i]) : s > jobs'[i].cursor
                /\ jobs'[i].state = "completed" => Reach(jobs[i]) = {}
    BY <2>1, RecordKeeps
  <2>3. /\ worker' \in [Workers -> Worker]
        /\ \A v \in Workers \ {w} : worker'[v] = worker[v]
        /\ BatchIsSound(w)'
        /\ Held(w)' \subseteq Held(w)
    BY <2>1, NextJobSound
  <2>4. Types'
    BY <1>0, <1>1, <1>4, <2>1, <2>2, <2>3 DEF Types
  <2>5. \A c \in Held(w)' : ClaimIsSound(c)'
    BY <1>4, <1>6, <2>1, <2>2, <2>3, <2>4
  <2>6. QED
    BY <1>3, <1>4, <2>1, <2>2, <2>3, <2>5
<1>11. CASE release(w)
  <2>1. /\ worker[w].phase = "release" /\ \A c \in worker[w].hand : release_revocation_job(c)
        /\ NextJob(w) /\ UNCHANGED sessions
    BY <1>11 DEF release
  <2>2. PICK c \in worker[w].hand : worker[w].hand = {c}
    BY <2>1 DEF IInv, WorkersAreSound, BatchIsSound
  <2>3. c.job \in DOMAIN jobs /\ jobs[c.job] \in Job
    BY <1>0, <1>2 DEF Held, ClaimIsSound
  <2>4. /\ jobs' \in Seq(Job) /\ DOMAIN jobs' = DOMAIN jobs /\ JobsKept
        /\ \A i \in DOMAIN jobs :
             /\ jobs'[i].cursor = jobs[i].cursor
             /\ jobs'[i].state = "completed" => jobs[i].state = "completed"
    <3>1. CASE UNCHANGED jobs
      BY <1>5, <3>1
    <3>2. CASE jobs' = [jobs EXCEPT ![c.job].state = "pending", ![c.job].due = FALSE]
      <4> DEFINE r == [jobs[c.job] EXCEPT !.state = "pending", !.due = FALSE]
      <4>1. jobs' = [jobs EXCEPT ![c.job] = r]
        BY <1>0, <2>3, <3>2
      <4>2. /\ r \in Job /\ r.pubkey = jobs[c.job].pubkey /\ r.order = jobs[c.job].order
            /\ r.cursor = jobs[c.job].cursor /\ r.state = "pending"
        BY <2>3 DEF Job
      <4> HIDE DEF r
      <4>3. /\ jobs' \in Seq(Job) /\ DOMAIN jobs' = DOMAIN jobs
            /\ JobsKept
            /\ jobs'[c.job] = r /\ \A k \in DOMAIN jobs \ {c.job} : jobs'[k] = jobs[k]
        BY <1>0, <2>3, <4>1, <4>2, RowUpdate
      <4>4. QED
        BY <4>2, <4>3
    <3>3. QED
      BY <2>1, <2>2, <3>1, <3>2 DEF release_revocation_job
  <2>5. /\ worker' \in [Workers -> Worker]
        /\ \A v \in Workers \ {w} : worker'[v] = worker[v]
        /\ BatchIsSound(w)'
        /\ Held(w)' \subseteq Held(w)
    BY <2>1, NextJobSound
  <2>6. Types'
    BY <1>0, <1>1, <1>4, <2>1, <2>4, <2>5 DEF Types
  <2>7. \A d \in Held(w)' : ClaimIsSound(d)'
    BY <1>4, <1>6, <2>1, <2>4, <2>5, <2>6
  <2>8. QED
    BY <1>3, <1>4, <2>1, <2>4, <2>5, <2>7
<1>12. CASE abandon(w)
  <2>1. worker' = [worker EXCEPT ![w] = Idle] /\ UNCHANGED <<sessions, jobs>>
    BY <1>12 DEF abandon
  <2>2. /\ worker' \in [Workers -> Worker]
        /\ \A v \in Workers \ {w} : worker'[v] = worker[v]
        /\ BatchIsSound(w)'
        /\ Held(w)' \subseteq Held(w)
    BY <2>1, NextJobSound
  <2>3. Types'
    BY <1>0, <1>1, <2>1, <2>2 DEF Types
  <2>4. \A c \in Held(w)' : ClaimIsSound(c)'
    BY <1>4, <1>5, <1>6, <2>1, <2>2, <2>3
  <2>5. QED
    BY <1>3, <1>4, <1>5, <2>1, <2>2, <2>4
<1>13. CASE process_error(w)
  (* The batch of a worker that releases its job no longer matters.        *)
  <2>1. ASSUME NEW r \in Worker, r.phase = "release",
               \E c \in r.hand : r.hand = {c},
               r.claims \cup r.hand \subseteq Held(w),
               worker' = [worker EXCEPT ![w] = r]
        PROVE  /\ worker' \in [Workers -> Worker]
               /\ \A v \in Workers \ {w} : worker'[v] = worker[v]
               /\ BatchIsSound(w)'
               /\ Held(w)' \subseteq Held(w)
    <3>1. /\ worker' \in [Workers -> Worker] /\ worker'[w] = r
          /\ \A v \in Workers \ {w} : worker'[v] = worker[v]
      BY <1>0, <2>1
    <3>2. QED
      BY <2>1, <3>1 DEF BatchIsSound, Held
  <2>2. CASE /\ worker[w].phase = "list"
             /\ \E c \in worker[w].claims :
                  worker' = [worker EXCEPT ![w].phase = "release", ![w].hand = {c},
                                           ![w].claims = @ \ {c}]
             /\ UNCHANGED <<sessions, jobs>>
    <3>1. PICK c \in worker[w].claims :
            worker' = [worker EXCEPT ![w].phase = "release", ![w].hand = {c},
                                     ![w].claims = @ \ {c}]
      BY <2>2
    <3> DEFINE r == [phase |-> "release", claims |-> worker[w].claims \ {c}, hand |-> {c},
                     batch |-> worker[w].batch, ending |-> worker[w].ending]
    <3>2. worker' = [worker EXCEPT ![w] = r]
      BY <1>0, <3>1 DEF Worker
    <3>3. r \in Worker
      BY <1>0 DEF Worker
    <3>4. r.phase = "release" /\ r.hand = {c} /\ r.claims \cup r.hand \subseteq Held(w)
      BY DEF Held
    <3> HIDE DEF r
    <3>5. /\ worker' \in [Workers -> Worker]
          /\ \A v \in Workers \ {w} : worker'[v] = worker[v]
          /\ BatchIsSound(w)'
          /\ Held(w)' \subseteq Held(w)
      BY <2>1, <3>2, <3>3, <3>4
    <3>6. Types'
      BY <1>0, <1>1, <2>2, <3>5 DEF Types
    <3>7. \A d \in Held(w)' : ClaimIsSound(d)'
      BY <1>4, <1>5, <1>6, <2>2, <3>5, <3>6
    <3>8. QED
      BY <1>3, <1>4, <1>5, <2>2, <3>5, <3>7
  <2>3. CASE /\ worker[w].phase = "end"
             /\ worker' = [worker EXCEPT ![w].phase = "release"]
             /\ \/ UNCHANGED <<sessions, jobs>>
                \/ /\ \E s \in worker[w].ending : EndOne(w, s)
                   /\ UNCHANGED jobs
                \/ /\ worker[w].ending = {}
                   /\ RecordProgress(w)
                   /\ UNCHANGED sessions
    <3> DEFINE r == [worker[w] EXCEPT !.phase = "release"]
    <3>1. worker' = [worker EXCEPT ![w] = r]
      BY <1>0, <2>3
    <3>2. r \in Worker
      BY <1>0 DEF Worker
    <3>3. r.phase = "release" /\ r.hand = worker[w].hand /\ r.claims = worker[w].claims
      BY <1>0 DEF Worker
    <3>4. \E c \in r.hand : r.hand = {c}
      BY <2>3, <3>3 DEF IInv, WorkersAreSound, BatchIsSound
    <3> HIDE DEF r
    <3>5. /\ worker' \in [Workers -> Worker]
          /\ \A v \in Workers \ {w} : worker'[v] = worker[v]
          /\ BatchIsSound(w)'
          /\ Held(w)' \subseteq Held(w)
      BY <2>1, <3>1, <3>2, <3>3, <3>4 DEF Held
    <3>6. /\ sessions' \in [Id -> Session]
          /\ SessionsKept
          /\ \A s \in Id : sessions'[s].status = "active" => sessions'[s] = sessions[s]
          /\ \A s \in Id : sessions'[s].status = "revoked" /\ sessions[s].status # "revoked" =>
               \E i \in DOMAIN jobs : /\ jobs[i].pubkey \in sessions'[s].roster
                                      /\ jobs[i].order > sessions'[s].order
      <4>1. CASE UNCHANGED sessions
        BY <1>4, <4>1
      <4>2. CASE \E s \in worker[w].ending : EndOne(w, s)
        BY <2>3, <4>2, EndOneKeeps
      <4>3. QED
        BY <2>3, <4>1, <4>2
    <3>7. /\ jobs' \in Seq(Job) /\ DOMAIN jobs' = DOMAIN jobs /\ JobsKept
          /\ \A i \in DOMAIN jobs :
               \/ /\ jobs'[i].cursor = jobs[i].cursor
                  /\ jobs'[i].state = "completed" => jobs[i].state = "completed"
               \/ /\ \A s \in Reach(jobs[i]) : s > jobs'[i].cursor
                  /\ jobs'[i].state = "completed" => Reach(jobs[i]) = {}
      <4>1. CASE UNCHANGED jobs
        BY <1>5, <4>1
      <4>2. CASE worker[w].ending = {} /\ RecordProgress(w)
        BY <2>3, <4>2, RecordKeeps
      <4>3. QED
        BY <2>3, <4>1, <4>2
    <3>8. Types'
      BY <1>0, <1>1, <3>5, <3>6, <3>7 DEF Types
    <3>9. \A d \in Held(w)' : ClaimIsSound(d)'
      BY <1>6, <3>5, <3>6, <3>7, <3>8
    <3>10. QED
      BY <1>3, <3>5, <3>6, <3>7, <3>9
  <2>4. QED
    BY <1>13, <2>2, <2>3 DEF process_error
<1>14. QED
  BY <1>7, <1>8, <1>9, <1>10, <1>11, <1>12, <1>13 DEF WorkerStep

(* IInv is an inductive invariant.                                         *)
LEMMA Invariance == Spec => []IInv
<1>1. Init => IInv
  <2> SUFFICES ASSUME Init PROVE IInv
    OBVIOUS
  <2>1. jobs = <<>> /\ jobs \in Seq(Job) /\ DOMAIN jobs = {}
    BY DEF Init
  <2>2. Idle \in Worker /\ Idle.phase = "idle" /\ Idle.claims = {} /\ Idle.hand = {}
    BY DEF Idle, Worker
  <2>3. \A s \in Id : /\ sessions[s] \in Session /\ sessions[s].order = 0
                      /\ sessions[s].roster = {} /\ sessions[s].status = "none"
    BY DEF Init, Session
  <2>4. Types
    BY <2>1, <2>2, <2>3 DEF Init, Types
  <2>5. WorkersAreSound
    BY <2>2 DEF Init, WorkersAreSound, BatchIsSound, Held
  <2>6. OrderIsLatest /\ RestrictionLeftJob /\ NoMeetingLeftBehind /\ RevokedForCause
    BY <2>1, <2>3 DEF Init, OrderIsLatest, RestrictionLeftJob, NoMeetingLeftBehind,
                      RevokedForCause
  <2>7. QED
    BY <2>4, <2>5, <2>6 DEF IInv
<1>2. IInv /\ [Next]_vars => IInv'
  <2> SUFFICES ASSUME IInv, [Next]_vars PROVE IInv'
    OBVIOUS
  <2>1. CASE Next
    BY <2>1, MeetingStepSound, JobStepSound, WorkerStepSound DEF Next, WorkerFault
  <2>2. CASE UNCHANGED vars
    BY <2>2 DEF vars, IInv, Types, OrderIsLatest, RestrictionLeftJob, WorkersAreSound,
                BatchIsSound, Held, ClaimIsSound, Reach, Cause, Remains,
                revocation_batch_is_complete, NoMeetingLeftBehind, RevokedForCause
  <2>3. QED
    BY <2>1, <2>2
<1>3. QED
  BY <1>1, <1>2, PTL DEF Spec

(* process_revocation_job (meeting_runtime.rs): whatever fails, repeats or *)
(* is late, the Meetings a job still has to end lie beyond its cursor, and *)
(* a completed job has none left.                                          *)
THEOREM NothingLeftBehind == Spec => []NoMeetingLeftBehind
<1>1. IInv => NoMeetingLeftBehind
  BY DEF IInv
<1>2. QED
  BY <1>1, Invariance, PTL

(* list_revoked_participant_sessions and end_meeting_for_revocation        *)
(* (meeting_revocation.rs): a Meeting is ended as revoked only for a       *)
(* revocation that came after its Create.                                  *)
THEOREM RevokedHaveCause == Spec => []RevokedForCause
<1>1. IInv => RevokedForCause
  BY DEF IInv
<1>2. QED
  BY <1>1, Invariance, PTL
=============================================================================
