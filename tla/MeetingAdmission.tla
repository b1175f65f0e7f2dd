-------------------------- MODULE MeetingAdmission --------------------------
(***************************************************************************)
(* The race between the Create of a Meeting, which freezes a roster of     *)
(* authorised members, and the commands that take an authorisation away:   *)
(* create_meeting_tx (crates/buzz-db/src/meeting.rs) and its counterpart   *)
(* for moderated Meetings, V1 and V2, create_moderated_meeting_base_tx     *)
(* (meeting_baton.rs),                                                     *)
(* ban_member_with_revocation (moderation.rs), remove_relay_member_with_   *)
(* revocation (relay_members.rs) and enqueue_revocation_job_tx             *)
(* (meeting_baton.rs).                                                     *)
(*                                                                         *)
(* Every SQL statement that locks, reads or writes a row another of these  *)
(* transactions writes is one step.  Statements read what is committed     *)
(* (READ COMMITTED); row locks last until the end of the transaction, and  *)
(* a transaction that must wait for one simply cannot step.  A sequence    *)
(* value is drawn when the row is inserted and is never given back.        *)
(*                                                                         *)
(* A Create that finds a participant not eligible can only roll back, so   *)
(* the early returns are the guards of the steps and the action rollback.  *)
(* Roles, archival and the add policy of agents decide only whether a      *)
(* Create is rejected, which rollback covers at every step.                *)
(***************************************************************************)
EXTENDS Integers, Sequences

CONSTANTS
    People,         \* pubkeys of one community
    Meetings,       \* Create commands, one for each Meeting
    Roster,         \* the participants of each, in the order of its event
    Bans,           \* Ban commands
    Removals,       \* Remove and Leave commands
    Target,         \* whom each of them concerns
    Null,
    MaxDeliveries,  \* how often a Ban or Remove command may arrive
    MaxOrder        \* bound on meeting_security_order_seq

Commands == Bans \cup Removals
Tx == Meetings \cup Commands

ASSUME AdmissionAssumption ==
    /\ Meetings \cap Commands = {} /\ Bans \cap Removals = {}
    /\ Null \notin People
    /\ Roster \in [Meetings -> Seq(People)]
    /\ \A m \in Meetings : Roster[m] # << >>
    /\ Target \in [Commands -> People]
    /\ MaxDeliveries \in Nat \ {0} /\ MaxOrder \in Nat

VARIABLES
    members,     \* relay_members
    users,       \* the rows of users
    owner,       \* users.agent_owner_pubkey
    bans,        \* active rows of community_bans
    order,       \* last value of meeting_security_order_seq
    sessions,    \* committed Meetings, with what their Create saw
    jobs,        \* committed rows of meeting_revocation_jobs
    locks,       \* locks held
    tx,          \* progress of every transaction
    deliveries   \* how often each command arrived

identity == <<members, users, owner, bans>>
vars == <<identity, order, sessions, jobs, locks, tx, deliveries>>

(* meeting_sessions row and, of the agents of the roster, who owned them.  *)
Session == [meeting : Meetings, order : Nat, owners : SUBSET (People \X People)]

(* event is the revocation_event_id: the command for its target, a digest  *)
(* of the command and the agent for an agent of the target.                *)
Job == [event : Commands \X People, pubkey : People, order : Nat]

Community == <<"community", Null>>
Member(p) == <<"relay_members", p>>
User(p) == <<"users", p>>
Row == {Community} \cup ({"relay_members", "users"} \X People)

Step == {"idle", "community", "member", "ban", "user", "owner", "owner_ban",
         "insert", "enqueue", "enqueue_agents", "commit"}

Idle == [step |-> "idle", moderated |-> FALSE, n |-> 1, order |-> 0, owners |-> {}, jobs |-> {}]
-----------------------------------------------------------------------------
(* Locks: KEY SHARE and SHARE exclude FOR UPDATE and DELETE.               *)
Holders(t, row, mode) ==
    {l.tx : l \in {l \in locks : /\ l.row = row
                                 /\ l.tx # t
                                 /\ "exclusive" \in {mode, l.mode}}}

Lock(t, row, mode) ==
    /\ Holders(t, row, mode) = {}
    /\ locks' = locks \cup {[tx |-> t, row |-> row, mode |-> mode]}

(* A locking SELECT locks the row it finds.                                *)
LockIfPresent(t, present, row, mode) ==
    IF present THEN Lock(t, row, mode) ELSE UNCHANGED locks

At(t, step) == tx[t].step = step
Goto(t, step) == tx' = [tx EXCEPT ![t].step = step]

Finish(t) ==
    /\ tx' = [tx EXCEPT ![t] = Idle]
    /\ locks' = {l \in locks : l.tx # t}

(* A transaction that is refused, loses its connection or is the victim of *)
(* deadlock detection.                                                     *)
rollback(t) ==
    /\ ~At(t, "idle")
    /\ Finish(t)
    /\ UNCHANGED <<identity, order, sessions, jobs, deliveries>>
-----------------------------------------------------------------------------
(* create_meeting_tx, participant by participant.                          *)
Participant(m) == Roster[m][tx[m].n]

(* Mutant: the end of the roster is missed.                                *)
AdmitPastTheEnd(m) ==
    tx' = IF tx[m].n <= Len(Roster[m])
          THEN [tx EXCEPT ![m].n = @ + 1, ![m].step = "member"]
          ELSE [tx EXCEPT ![m].step = "insert"]

Admit(m) ==
    tx' = IF tx[m].n < Len(Roster[m])
          THEN [tx EXCEPT ![m].n = @ + 1, ![m].step = "member"]
          ELSE [tx EXCEPT ![m].step = "insert"]

create_meeting(m) ==
    /\ At(m, "idle")
    /\ ~\E s \in sessions : s.meeting = m
    /\ Goto(m, "member")
    /\ UNCHANGED <<identity, order, sessions, jobs, locks, deliveries>>

(* A V1 or V2 Meeting: resolve_participants_tx takes the same statements,  *)
(* but wants a users row of every participant.                             *)
create_moderated_meeting(m) ==
    /\ At(m, "idle")
    /\ ~\E s \in sessions : s.meeting = m
    /\ tx' = [tx EXCEPT ![m].step = "member", ![m].moderated = TRUE]
    /\ UNCHANGED <<identity, order, sessions, jobs, locks, deliveries>>

lock_member(m) ==
    /\ At(m, "member")
    /\ Participant(m) \in members
    /\ Lock(m, Member(Participant(m)), "share")
    /\ Goto(m, "ban")
    /\ UNCHANGED <<identity, order, sessions, jobs, deliveries>>

has_active_ban(m) ==
    /\ At(m, "ban")
    /\ Participant(m) \notin bans
    /\ Goto(m, "user")
    /\ UNCHANGED <<identity, order, sessions, jobs, locks, deliveries>>

(* A V0 participant without a users row is admitted as a human.            *)
lock_identity(m) ==
    LET p == Participant(m) IN
    /\ At(m, "user") /\ ~tx[m].moderated
    /\ LockIfPresent(m, p \in users, User(p), "share")
    /\ IF p \in users /\ owner[p] # Null THEN Goto(m, "owner") ELSE Admit(m)
    /\ UNCHANGED <<identity, order, sessions, jobs, deliveries>>

lock_typed_identity(m) ==
    LET p == Participant(m) IN
    /\ At(m, "user") /\ tx[m].moderated
    /\ p \in users
    /\ Lock(m, User(p), "share")
    /\ IF owner[p] # Null THEN Goto(m, "owner") ELSE Admit(m)
    /\ UNCHANGED <<identity, order, sessions, jobs, deliveries>>

(* Mutant: the owner of an agent is read without a lock.                   *)
ReadOwner(m) ==
    /\ At(m, "owner")
    /\ owner[Participant(m)] \in users
    /\ tx' = [tx EXCEPT ![m].step = "owner_ban",
                        ![m].owners = @ \cup {<<Participant(m), owner[Participant(m)]>>}]
    /\ UNCHANGED <<identity, order, sessions, jobs, locks, deliveries>>

lock_owner(m) ==
    LET p == Participant(m) IN
    /\ At(m, "owner")
    /\ owner[p] \in users
    /\ Lock(m, User(owner[p]), "share")
    /\ tx' = [tx EXCEPT ![m].step = "owner_ban",
                        ![m].owners = @ \cup {<<p, owner[p]>>}]
    /\ UNCHANGED <<identity, order, sessions, jobs, deliveries>>

has_active_owner_ban(m) ==
    /\ At(m, "owner_ban")
    /\ owner[Participant(m)] \notin bans
    /\ Admit(m)
    /\ UNCHANGED <<identity, order, sessions, jobs, locks, deliveries>>

insert_session(m) ==
    /\ At(m, "insert")
    /\ order < MaxOrder
    /\ order' = order + 1
    /\ tx' = [tx EXCEPT ![m].step = "commit", ![m].order = order']
    /\ UNCHANGED <<identity, sessions, jobs, locks, deliveries>>

commit_create(m) ==
    /\ m \in Meetings
    /\ At(m, "commit")
    /\ sessions' = sessions \cup
         {[meeting |-> m, order |-> tx[m].order, owners |-> tx[m].owners]}
    /\ Finish(m)
    /\ UNCHANGED <<identity, order, jobs, deliveries>>
-----------------------------------------------------------------------------
(* A Ban, Remove or Leave command arrives.  These commands are not stored: *)
(* nothing recognises one that arrived before.                             *)
deliver(c) ==
    /\ At(c, "idle")
    /\ deliveries[c] < MaxDeliveries
    /\ deliveries' = [deliveries EXCEPT ![c] = @ + 1]
    /\ Goto(c, "community")
    /\ UNCHANGED <<identity, order, sessions, jobs, locks>>

acquire_membership_write_lock(c) ==
    /\ At(c, "community")
    /\ Lock(c, Community, "exclusive")
    /\ Goto(c, "member")
    /\ UNCHANGED <<identity, order, sessions, jobs, deliveries>>

ban_lock_member(c) ==
    /\ c \in Bans
    /\ At(c, "member")
    /\ LockIfPresent(c, Target[c] \in members, Member(Target[c]), "exclusive")
    /\ Goto(c, "user")
    /\ UNCHANGED <<identity, order, sessions, jobs, deliveries>>

ban_lock_user(c) ==
    /\ c \in Bans
    /\ At(c, "user")
    /\ LockIfPresent(c, Target[c] \in users, User(Target[c]), "exclusive")
    /\ Goto(c, "enqueue")
    /\ UNCHANGED <<identity, order, sessions, jobs, deliveries>>

(* DELETE; a target that is no member leaves only the rollback.            *)
delete_member(c) ==
    /\ c \in Removals
    /\ At(c, "member")
    /\ Target[c] \in members
    /\ Lock(c, Member(Target[c]), "exclusive")
    /\ Goto(c, "enqueue")
    /\ UNCHANGED <<identity, order, sessions, jobs, deliveries>>

(* ON CONFLICT (community_id, revocation_event_id) DO NOTHING.             *)
enqueue_revocation_job(c, p) ==
    LET job == [event |-> <<c, p>>, pubkey |-> p, order |-> order + 1]
        new == ~\E j \in jobs : j.event = job.event
    IN  IF new THEN tx[c].jobs \cup {job} ELSE tx[c].jobs

OwnedAgents(p) == {a \in users : owner[a] = p}

Enqueued(c, p) == \E j \in tx[c].jobs \cup jobs : j.event = <<c, p>>

enqueue_target(c) ==
    /\ At(c, "enqueue")
    /\ order < MaxOrder
    /\ order' = order + 1
    /\ tx' = [tx EXCEPT ![c].jobs = enqueue_revocation_job(c, Target[c]),
                        ![c].step = IF c \in Bans THEN "enqueue_agents"
                                                  ELSE "commit"]
    /\ UNCHANGED <<identity, sessions, jobs, locks, deliveries>>

(* Mutant: a Ban enqueues no job for the agents of its target.             *)
ForgetAgents(c) ==
    /\ At(c, "enqueue_agents")
    /\ Goto(c, "commit")
    /\ UNCHANGED <<identity, order, sessions, jobs, locks, deliveries>>

(* One job for every agent the target of a Ban owns.                       *)
enqueue_agents(c) ==
    /\ At(c, "enqueue_agents")
    /\ LET rest == {a \in OwnedAgents(Target[c]) : ~Enqueued(c, a)} IN
       IF rest = {}
       THEN Goto(c, "commit") /\ UNCHANGED order
       ELSE /\ order < MaxOrder
            /\ order' = order + 1
            /\ \E a \in rest :
                 tx' = [tx EXCEPT ![c].jobs = enqueue_revocation_job(c, a)]
    /\ UNCHANGED <<identity, sessions, jobs, locks, deliveries>>

commit_restriction(c) ==
    /\ c \in Commands
    /\ At(c, "commit")
    /\ jobs' = jobs \cup tx[c].jobs
    /\ bans' = IF c \in Bans THEN bans \cup {Target[c]} ELSE bans
    /\ members' = IF c \in Removals THEN members \ {Target[c]} ELSE members
    /\ Finish(c)
    /\ UNCHANGED <<users, owner, order, sessions, deliveries>>
-----------------------------------------------------------------------------
(* Writers that hold the community lock for one short transaction.         *)
CommunityIsFree == \A l \in locks : l.row # Community

add_relay_member(p) ==
    /\ CommunityIsFree
    /\ p \notin members
    /\ members' = members \cup {p}
    /\ UNCHANGED <<users, owner, bans, order, sessions, jobs, locks, tx, deliveries>>

(* The first owner stays; both rows were created before.                   *)
set_agent_owner(a, o) ==
    /\ CommunityIsFree
    /\ a # o /\ a \in users /\ o \in users
    /\ owner[a] = Null
    /\ \A l \in locks : l.row # User(a)
    /\ owner' = [owner EXCEPT ![a] = o]
    /\ UNCHANGED <<members, users, bans, order, sessions, jobs, locks, tx, deliveries>>

ensure_user(p) ==
    /\ p \notin users
    /\ users' = users \cup {p}
    /\ UNCHANGED <<members, owner, bans, order, sessions, jobs, locks, tx, deliveries>>

(* unban_member, or the end of a temporary ban.                            *)
lift_ban(p) ==
    /\ p \in bans
    /\ bans' = bans \ {p}
    /\ UNCHANGED <<members, users, owner, order, sessions, jobs, locks, tx, deliveries>>
-----------------------------------------------------------------------------
Init ==
    /\ members = People
    /\ users \in SUBSET People
    /\ owner = [p \in People |-> Null]
    /\ bans = {}
    /\ order = 0
    /\ sessions = {} /\ jobs = {} /\ locks = {}
    /\ tx = [t \in Tx |-> Idle]
    /\ deliveries = [c \in Commands |-> 0]

Create(m) ==
    \/ create_meeting(m) \/ create_moderated_meeting(m)
    \/ lock_member(m) \/ has_active_ban(m)
    \/ lock_identity(m) \/ lock_typed_identity(m) \/ lock_owner(m) \/ has_active_owner_ban(m)
    \/ insert_session(m) \/ commit_create(m)

Restrict(c) ==
    \/ deliver(c) \/ acquire_membership_write_lock(c)
    \/ ban_lock_member(c) \/ ban_lock_user(c) \/ delete_member(c)
    \/ enqueue_target(c) \/ enqueue_agents(c) \/ commit_restriction(c)

Identity(p) ==
    \/ add_relay_member(p) \/ ensure_user(p) \/ lift_ban(p)
    \/ \E o \in People : set_agent_owner(p, o)

Next ==
    \/ \E m \in Meetings : Create(m)
    \/ \E c \in Commands : Restrict(c)
    \/ \E t \in Tx : rollback(t)
    \/ \E p \in People : Identity(p)

Spec == Init /\ [][Next]_vars
-----------------------------------------------------------------------------
(* Type invariant.                                                         *)
TypeOK ==
    /\ members \subseteq People /\ users \subseteq People /\ bans \subseteq People
    /\ owner \in [People -> People \cup {Null}]
    /\ order \in 0..MaxOrder
    /\ sessions \subseteq Session
    /\ jobs \subseteq Job
    /\ locks \subseteq [tx : Tx, row : Row, mode : {"share", "exclusive"}]
    /\ tx \in [Tx -> [step : Step, moderated : BOOLEAN, n : Nat, order : Nat,
                      owners : SUBSET (People \X People), jobs : SUBSET Job]]
    /\ \A m \in Meetings : tx[m].n \in 1..Len(Roster[m])
    /\ deliveries \in [Commands -> 0..MaxDeliveries]

(* Whoever is not a member, is banned, or was admitted as the agent of an  *)
(* owner who is banned.                                                    *)
Participants(m) == {Roster[m][n] : n \in 1..Len(Roster[m])}

Restricted(s, p) ==
    \/ p \notin members
    \/ p \in bans
    \/ \E o \in bans : <<p, o>> \in s.owners

Covered(s, p) == \E j \in jobs : j.pubkey = p /\ j.order > s.order

(* No Meeting keeps a restricted participant without a revocation job that *)
(* reaches it: either the Create saw the restriction and was rejected, or  *)
(* the Meeting lies before the cutoff of a job.                            *)
JobsCoverRosters ==
    \A s \in sessions : \A p \in Participants(s.meeting) :
        Restricted(s, p) => Covered(s, p)

(* The command of a job restricts someone the Create validated: the        *)
(* participant, or the owner it had as an agent.                           *)
Validated(s, j) ==
    LET target == Target[j.event[1]] IN
    j.pubkey = target \/ <<j.pubkey, target>> \in s.owners

(* A Meeting that appears lies after every job that exists for someone its *)
(* Create validated: a job finds all the Meetings before its cutoff        *)
(* committed, so its cursor misses none, and reaches none that was         *)
(* validated after it.                                                     *)
NewMeetingsAreSpared ==
    [][ \A s \in sessions' \ sessions : \A j \in jobs :
          j.pubkey \in Participants(s.meeting) /\ Validated(s, j) =>
              j.order < s.order ]_vars

(* lock_roster_security_tx says the owner of an agent "is assigned when    *)
(* the Agent identity is created": then who was admitted without an owner  *)
(* never has a job, and the same holds of every job.                       *)
EveryNewMeetingIsSpared ==
    [][ \A s \in sessions' \ sessions : \A j \in jobs :
          j.pubkey \in Participants(s.meeting) => j.order < s.order ]_vars

(* The row and mode a transaction is about to lock.                        *)
Wanted(t) ==
    CASE At(t, "community") -> {<<Community, "exclusive">>}
      [] At(t, "member") /\ t \in Meetings -> {<<Member(Participant(t)), "share">>}
      [] At(t, "user") /\ t \in Meetings -> {<<User(Participant(t)), "share">>}
      [] At(t, "owner") -> {<<User(owner[Participant(t)]), "share">>}
      [] At(t, "member") /\ t \in Commands -> {<<Member(Target[t]), "exclusive">>}
      [] At(t, "user") /\ t \in Commands -> {<<User(Target[t]), "exclusive">>}
      [] OTHER -> {}

WaitsFor(t, u) == \E w \in Wanted(t) : u \in Holders(t, w[1], w[2])

(* ban_member_with_revocation says that "either the Meeting commits first  *)
(* (and falls before this job's cutoff) or Create observes the committed   *)
(* ban": the two never wait for each other, so neither is aborted for it.  *)
CreateAndBanSerialize ==
    \A m \in Meetings, c \in Commands : ~(WaitsFor(m, c) /\ WaitsFor(c, m))
=============================================================================
