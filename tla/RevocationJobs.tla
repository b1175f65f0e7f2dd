--------------------------- MODULE RevocationJobs ---------------------------
(***************************************************************************)
(* The jobs that end the Meetings of a revoked participant: the table      *)
(* meeting_revocation_jobs (crates/buzz-db/src/meeting_baton.rs), the      *)
(* listing and the end of a Meeting (meeting_revocation.rs) and the worker *)
(* of every relay process (crates/buzz-relay/src/meeting_runtime.rs).      *)
(*                                                                         *)
(* A statement, or a transaction that begins by locking its Meeting, is    *)
(* one step, and workers interleave between them.  The Create of a Meeting *)
(* and the restriction of a person are atomic here: MeetingAdmission shows *)
(* how the row locks make them so.  Session ids are random, so a Meeting   *)
(* takes any unused id.  Time is abstracted to whether next_attempt_at has *)
(* passed.                                                                 *)
(***************************************************************************)
EXTENDS Integers, Sequences, FiniteSets

CONSTANTS
    People,        \* who may sit in a roster and be revoked
    Workers,       \* relay processes
    JobLimit,      \* jobs of one claim
    SessionLimit,  \* Meetings of one listing
    MaxSession,    \* bound: the Meetings of a behaviour
    MaxJobs,       \* bound: the revocations of a behaviour
    MaxFaults      \* bound: crashes, stalls and database errors

ASSUME JobsAssumption ==
    /\ JobLimit \in Nat \ {0} /\ SessionLimit \in Nat \ {0}
    /\ MaxSession \in Nat /\ MaxJobs \in Nat /\ MaxFaults \in Nat

VARIABLES
    sessions,    \* meeting_sessions, by id
    restricted,  \* who is banned or removed
    order,       \* meeting_security_order_seq
    jobs,        \* meeting_revocation_jobs
    worker,      \* what every worker is doing
    faults

vars == <<sessions, restricted, order, jobs, worker, faults>>

Id == 1..MaxSession

Session == [status : {"none", "active", "ended", "revoked"},
            order : Nat, roster : SUBSET People]

Job == [pubkey : People, order : Nat, state : {"pending", "running", "completed"},
        attempts : Nat, cursor : 0..MaxSession, due : BOOLEAN]

(* MeetingRevocationJob: the row as the claim returned it.                 *)
Claim == [job : Nat, token : Nat, cursor : 0..MaxSession]

(* claims are the jobs still to process, batch the Meetings listed for the *)
(* one in hand and ending those of them still to end.                      *)
Worker == [phase : {"idle", "list", "end", "release"}, claims : SUBSET Claim,
           hand : SUBSET Claim, batch : SUBSET Id, ending : SUBSET Id]

Idle == [phase |-> "idle", claims |-> {}, hand |-> {}, batch |-> {}, ending |-> {}]

Fault == faults < MaxFaults /\ faults' = faults + 1
-----------------------------------------------------------------------------
(* Mutant: a job whose worker is gone is not claimed again.                *)
DuePending == {i \in DOMAIN jobs : jobs[i].due /\ jobs[i].state = "pending"}

DueJobs == {i \in DOMAIN jobs : jobs[i].due /\ jobs[i].state \in {"pending", "running"}}

(* Mutant: the claim ignores its limit.                                    *)
ClaimAll == {DueJobs}

Claimable ==
    {S \in SUBSET DueJobs :
        IF Cardinality(DueJobs) <= JobLimit THEN S = DueJobs
                                            ELSE Cardinality(S) = JobLimit}

MarkClaimed(S) ==
    jobs' = [i \in DOMAIN jobs |->
               IF i \in S THEN [jobs[i] EXCEPT !.state = "running",
                                               !.attempts = @ + 1,
                                               !.due = FALSE]
                          ELSE jobs[i]]

claim_revocation_jobs(w) ==
    /\ worker[w].phase = "idle"
    /\ DueJobs # {}
    /\ \E S \in Claimable :
         /\ MarkClaimed(S)
         /\ worker' = [worker EXCEPT ![w].phase = "list",
                         ![w].claims = {[job |-> i, token |-> jobs[i].attempts + 1,
                                         cursor |-> jobs[i].cursor] : i \in S}]
    /\ UNCHANGED <<sessions, restricted, order, faults>>

(* The claim commits and its answer is lost.                               *)
claim_error(w) ==
    /\ Fault
    /\ worker[w].phase = "idle"
    /\ \E S \in Claimable : S # {} /\ MarkClaimed(S)
    /\ UNCHANGED <<sessions, restricted, order, worker>>
-----------------------------------------------------------------------------
(* The active Meetings before the cutoff of job j that seat its target.    *)
Reach(j) == {s \in Id : /\ sessions[s].status = "active"
                        /\ j.pubkey \in sessions[s].roster
                        /\ sessions[s].order < j.order}

(* Mutant: the listing is not fenced by the security order.                *)
ListUnfenced(c) ==
    {s \in Id : /\ sessions[s].status = "active"
                /\ jobs[c.job].pubkey \in sessions[s].roster
                /\ s > c.cursor}

Listed(c) == {s \in Reach(jobs[c.job]) : s > c.cursor}

(* The first SessionLimit of them, in the order of their ids.              *)
FirstOf(S) == {s \in S : Cardinality({r \in S : r < s}) < SessionLimit}

list_revoked_participant_sessions(w) ==
    /\ worker[w].phase = "list"
    /\ \E c \in worker[w].claims :
         worker' = [worker EXCEPT ![w].phase = "end", ![w].hand = {c},
                                  ![w].claims = @ \ {c},
                                  ![w].batch = FirstOf(Listed(c)),
                                  ![w].ending = FirstOf(Listed(c))]
    /\ UNCHANGED <<sessions, restricted, order, jobs, faults>>

EndOne(w, s) ==
    /\ s \in worker[w].ending
    /\ \A r \in worker[w].ending : s <= r
    /\ sessions' = IF sessions[s].status = "active"
                   THEN [sessions EXCEPT ![s].status = "revoked"] ELSE sessions

(* One Meeting of the batch; AlreadyEnded is a success.                    *)
end_meeting_for_revocation(w) ==
    /\ worker[w].phase = "end"
    /\ \E s \in worker[w].ending :
         /\ EndOne(w, s)
         /\ worker' = [worker EXCEPT ![w].ending = @ \ {s}]
    /\ UNCHANGED <<restricted, order, jobs, faults>>

OwnsClaim(c) == /\ jobs[c.job].state = "running"
                /\ jobs[c.job].attempts = c.token

advance_revocation_job(c, cursor) ==
    jobs' = IF OwnsClaim(c)
            THEN [jobs EXCEPT ![c.job].state = "pending", ![c.job].due = FALSE,
                              ![c.job].cursor = cursor]
            ELSE jobs

complete_revocation_job(c) ==
    jobs' = IF OwnsClaim(c) THEN [jobs EXCEPT ![c.job].state = "completed"]
                            ELSE jobs

release_revocation_job(c) ==
    jobs' = IF OwnsClaim(c)
            THEN [jobs EXCEPT ![c.job].state = "pending", ![c.job].due = FALSE]
            ELSE jobs

NextJob(w) ==
    worker' = [worker EXCEPT ![w] = [Idle EXCEPT
                 !.phase = IF worker[w].claims = {} THEN "idle" ELSE "list",
                 !.claims = worker[w].claims]]

(* Mutant: a full batch counts as the last one.                            *)
FullBatchIsComplete(batch) == Cardinality(batch) <= SessionLimit

revocation_batch_is_complete(batch) == Cardinality(batch) < SessionLimit

(* The outcome of a batch that was ended to the last Meeting.              *)
RecordProgress(w) ==
    LET batch == worker[w].batch IN
    \A c \in worker[w].hand :
        IF revocation_batch_is_complete(batch)
        THEN complete_revocation_job(c)
        ELSE \E s \in batch : /\ \A r \in batch : r <= s
                              /\ advance_revocation_job(c, s)

finish_batch(w) ==
    /\ worker[w].phase = "end"
    /\ worker[w].ending = {}
    /\ RecordProgress(w)
    /\ NextJob(w)
    /\ UNCHANGED <<sessions, restricted, order, faults>>

(* An error of any statement of process_revocation_job, the statement done *)
(* or not.                                                                 *)
process_error(w) ==
    /\ Fault
    /\ \/ /\ worker[w].phase = "list"
          /\ \E c \in worker[w].claims :
               worker' = [worker EXCEPT ![w].phase = "release", ![w].hand = {c},
                                        ![w].claims = @ \ {c}]
          /\ UNCHANGED <<sessions, jobs>>
       \/ /\ worker[w].phase = "end"
          /\ worker' = [worker EXCEPT ![w].phase = "release"]
          /\ \/ UNCHANGED <<sessions, jobs>>
             \/ /\ \E s \in worker[w].ending : EndOne(w, s)
                /\ UNCHANGED jobs
             \/ /\ worker[w].ending = {}
                /\ RecordProgress(w)
                /\ UNCHANGED sessions
    /\ UNCHANGED <<restricted, order>>

release(w) ==
    /\ worker[w].phase = "release"
    /\ \A c \in worker[w].hand : release_revocation_job(c)
    /\ NextJob(w)
    /\ UNCHANGED <<sessions, restricted, order, faults>>

(* The release fails too, or the process dies: the rest of the claims is   *)
(* left to its lease.                                                      *)
abandon(w) ==
    /\ Fault
    /\ worker[w] # Idle
    /\ worker' = [worker EXCEPT ![w] = Idle]
    /\ UNCHANGED <<sessions, restricted, order, jobs>>
-----------------------------------------------------------------------------
(* A running job some worker still holds under its current token.          *)
InHand(i) == \E w \in Workers : \E c \in worker[w].claims \cup worker[w].hand :
                 c.job = i /\ OwnsClaim(c)

(* The lease of a job runs out, or its retry time comes.                   *)
becomes_due(i) ==
    /\ i \in DOMAIN jobs
    /\ jobs[i].state # "completed" /\ ~jobs[i].due
    /\ IF InHand(i) THEN Fault ELSE UNCHANGED faults
    /\ jobs' = [jobs EXCEPT ![i].due = TRUE]
    /\ UNCHANGED <<sessions, restricted, order, worker>>
-----------------------------------------------------------------------------
create_meeting(s, roster) ==
    /\ sessions[s].status = "none"
    /\ roster # {} /\ roster \cap restricted = {}
    /\ order' = order + 1
    /\ sessions' = [sessions EXCEPT ![s] = [status |-> "active", order |-> order',
                                            roster |-> roster]]
    /\ UNCHANGED <<restricted, jobs, worker, faults>>

(* A ban or a removal, with its job; a ban may be repeated.                *)
enqueue_revocation_job(p) ==
    /\ Len(jobs) < MaxJobs
    /\ order' = order + 1
    /\ restricted' = restricted \cup {p}
    /\ jobs' = Append(jobs, [pubkey |-> p, order |-> order', state |-> "pending",
                             attempts |-> 0, cursor |-> 0, due |-> TRUE])
    /\ UNCHANGED <<sessions, worker, faults>>

(* A ban is lifted, or the member is added again.                          *)
reinstate(p) ==
    /\ p \in restricted
    /\ restricted' = restricted \ {p}
    /\ UNCHANGED <<sessions, order, jobs, worker, faults>>

(* The host ends a Meeting no member of which was revoked since.           *)
Revoked(s) == \E p \in sessions[s].roster :
    \/ p \in restricted
    \/ \E i \in DOMAIN jobs : jobs[i].pubkey = p /\ jobs[i].order > sessions[s].order

end_meeting(s) ==
    /\ sessions[s].status = "active"
    /\ ~Revoked(s)
    /\ sessions' = [sessions EXCEPT ![s].status = "ended"]
    /\ UNCHANGED <<restricted, order, jobs, worker, faults>>

(* Any command on a Meeting that has one ends it instead.                  *)
recover_revoked_roster(s) ==
    /\ sessions[s].status = "active"
    /\ Revoked(s)
    /\ sessions' = [sessions EXCEPT ![s].status = "revoked"]
    /\ UNCHANGED <<restricted, order, jobs, worker, faults>>
-----------------------------------------------------------------------------
Init ==
    /\ sessions = [s \in Id |-> [status |-> "none", order |-> 0, roster |-> {}]]
    /\ restricted = {}
    /\ order = 0
    /\ jobs = << >>
    /\ worker = [w \in Workers |-> Idle]
    /\ faults = 0

WorkerStep(w) ==
    \/ claim_revocation_jobs(w) \/ list_revoked_participant_sessions(w)
    \/ end_meeting_for_revocation(w) \/ finish_batch(w) \/ release(w)

WorkerFault(w) == claim_error(w) \/ process_error(w) \/ abandon(w)

Next ==
    \/ \E w \in Workers : WorkerStep(w) \/ WorkerFault(w)
    \/ \E i \in 1..MaxJobs : becomes_due(i)
    \/ \E s \in Id, roster \in SUBSET People : create_meeting(s, roster)
    \/ \E s \in Id : end_meeting(s) \/ recover_revoked_roster(s)
    \/ \E p \in People : enqueue_revocation_job(p) \/ reinstate(p)

Spec == Init /\ [][Next]_vars

(* Every worker loops for ever, and the clock moves on.                    *)
FairSpec == /\ Spec
            /\ \A w \in Workers : WF_vars(WorkerStep(w))
            /\ \A i \in 1..MaxJobs : WF_vars(becomes_due(i) /\ ~InHand(i))
-----------------------------------------------------------------------------
(* Type invariant.                                                         *)
TypeOK ==
    /\ sessions \in [Id -> Session]
    /\ restricted \subseteq People
    /\ order \in Nat
    /\ jobs \in Seq(Job)
    /\ worker \in [Workers -> Worker]
    /\ \A w \in Workers :
         /\ Cardinality(worker[w].claims \cup worker[w].hand) <= JobLimit
         /\ \A c \in worker[w].claims \cup worker[w].hand : c.job \in DOMAIN jobs
    /\ faults \in 0..MaxFaults

(* Whatever fails, repeats or is late, a job never leaves a Meeting        *)
(* behind: what it still has to end lies beyond its cursor, and when it is *)
(* completed nothing is left.                                              *)
NoMeetingLeftBehind ==
    \A i \in DOMAIN jobs :
        /\ \A s \in Reach(jobs[i]) : s > jobs[i].cursor
        /\ jobs[i].state = "completed" => Reach(jobs[i]) = {}

(* A Meeting is ended as revoked only for a revocation after its Create: a *)
(* reinstated member keeps the Meetings of its second life, whatever old   *)
(* jobs are still under way.                                               *)
RevokedForCause ==
    \A s \in Id : sessions[s].status = "revoked" =>
        \E i \in DOMAIN jobs : /\ jobs[i].pubkey \in sessions[s].roster
                               /\ jobs[i].order > sessions[s].order

(* A Meeting with a participant revoked since its Create ends, even if no  *)
(* command ever reaches it.                                                *)
EveryRevokedMeetingEnds ==
    \A s \in Id : (sessions[s].status = "active" /\ Revoked(s))
                      ~> (sessions[s].status = "revoked")
=============================================================================
