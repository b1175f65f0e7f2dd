# A TLA+ verification of Carryforth's Meeting core

Carryforth is a relay and a set of clients in which people and agents share a
project space: channels, Meetings, documents, roles and agent runtimes, stored in
PostgreSQL and fanned out over Redis and WebSockets. This directory holds TLA+
models of its concurrent core, the TLC configurations that check them and TLAPS
proofs of the main results. Paths below are relative to `src/`; `db/` stands for
`crates/buzz-db/src/`, `relay/` for `crates/buzz-relay/src/` and `acp/` for
`crates/buzz-acp/src/`.

Most of the models are about Meetings, the part of the system with the most
interesting concurrency: participants compete for a speech floor or are given it by a
moderator, a sweeper enforces deadlines, relay processes publish the resulting events
in order, and a ban or removal has to end every Meeting its target sits in. Two more
are about what stands on either side of them: the read replica that serves pages of
history, and the queue through which an agent receives its messages.

## 1. Inventory

| Component | State | Operations | What makes it hard |
|---|---|---|---|
| Meeting V0 floor (`db/meeting_floor.rs`) | `meeting_sessions`, `meeting_rounds`, claims, signals, cohort | claim, Ready/Pass, yield, say, End, sweep | deadlines racing commands, retries, rollback of a refused command's side effects, revocation |
| Meeting lifecycle (`db/meeting.rs`) | the session row and its frozen roster | Create, End | roster validated statement by statement |
| Meeting outbox (`db/meeting_floor.rs`, `relay/meeting_runtime.rs`, `relay/handlers/event.rs`) | `meeting_event_outbox` | claim a batch, dispatch, acknowledge, release | several processes, leases, lost answers, crashes, pipes that lag and lose |
| Admission (`db/meeting.rs`, `db/moderation.rs`, `db/relay_members.rs`, `db/user.rs`) | `relay_members`, `users`, `community_bans`, the security order sequence | Create against Ban, Remove, Leave, unban, add, adopt | row locks, order of a sequence against order of commits |
| Revocation jobs (`db/meeting_revocation.rs`, `db/meeting_baton.rs`, `relay/meeting_runtime.rs`) | `meeting_revocation_jobs` | claim, list, end, advance, complete, release | paging by random id, stale workers, reinstated members |
| Meeting V1 baton (`db/meeting_baton/commands.rs`) | `meeting_baton_state`, Intents, Human Requests, Handoffs, Offers, Grants, decision attempts | intent, request, select, offer answer, progress, say, yield, recall, judgments, recovery, End | a judgment committed after the floor moved, many ways for an Offer to end, bounded chains of Handoffs |
| Meeting runtime sweep (`relay/meeting_runtime.rs`, both `recover_due_*`) | `next_action_at`, `recovery_retry_at`, `recovery_attempts` | scan, claim, recover, set the fence | bounded batches whose head never moves, corrupt Meetings, crashes with claims |
| Meeting V2 (`db/meeting_v2.rs`, `db/meeting_v2_actions.rs`) | board, actions, renewable lease | commands, finalisation | finalisation against End and revocation |
| Project View v3, Role Continuity (`db/project_view_v3.rs`) | assignments, membership governance | propose, hand over, recover | migration and recovery against live commands |
| Project Documents and Context (`db/project_document.rs`, `db/project_context.rs`) | revisions, attachments | compare-and-swap, attach | coordinates withdrawn between check and use |
| Runtime supervision (`db/project_runtime.rs`) | leases and generations of agent runtimes | register, renew, expire | two runtimes that believe they hold one role |
| Replica fence (`db/replica_fence.rs`, `migrations/0021_*`, `db/lib.rs`) | two atomics | probe, advance, close, read | relaxed stores, rows that become visible after their guard ran |
| ACP event queue (`acp/queue.rs`, `acp/lib.rs`, `acp/pool.rs`) | queue, in flight, withheld, cancelled, retries, agent slots | push, flush, complete, requeue, cancel, steer, drain | an event lost, run twice or blocked for ever |
| Semantic index, push leases, workflows, audit chain, git manifests, pairing, mesh | a table or a handshake each | claim or compare-and-swap | planned late, or out of scope (see 7) |

How they interact. A floor command commits rows and outbox events in one
transaction; the outbox worker publishes them afterwards. A ban or removal commits
together with a revocation job; the job's worker, or any later command on the
Meeting, ends it with an End event that again goes through the outbox. One loop per
relay process (`relay/meeting_runtime.rs`, `run`) drives the sweeper, the jobs and
the outbox in turn; `MeetingSweep` is about how its first stage shares a bounded
batch among Meetings. The session row lock serialises everything that concerns one
Meeting; nothing serialises two relay processes except leases and claim tokens.

`PROJECT.json` lists, under `hazards`, what can go wrong in these places that a
test would hardly reach, with the properties that would catch it.

## 2. Modules

| Module | Models | Extends / instantiates |
|---|---|---|
| `SpeechFloor` | what a V0 Meeting promises: turns, one holder, one speech a turn | |
| `MeetingFloor` | `db/meeting_floor.rs` (floor), the End paths of `db/meeting.rs` and `db/meeting_revocation.rs` | instantiates `SpeechFloor` |
| `MeetingFloorProof` | proofs about `MeetingFloor` | `MeetingFloor` |
| `MeetingOutbox` | outbox functions of `db/meeting_floor.rs`, `dispatch_outbox_batch`, the PUBLISH and both fan-outs of `relay/handlers/event.rs`, the consumer of `relay/main.rs` with the subscriber of `buzz-pubsub` | |
| `MeetingOutboxProof` | proofs about `MeetingOutbox` | `MeetingOutbox` |
| `MeetingAdmission` | `create_meeting_tx` and `create_moderated_meeting_base_tx` against `ban_member_with_revocation`, `remove_relay_member_with_revocation`, `set_agent_owner`, ... | |
| `MeetingAdmissionProof` | proofs about `MeetingAdmission` | `MeetingAdmission` |
| `RevocationJobs` | `meeting_revocation_jobs`, its workers, the listing and end of Meetings | |
| `RevocationJobsProof` | proofs about `RevocationJobs` | `RevocationJobs` |
| `MeetingBaton` | the moderated floor of `db/meeting_baton/commands.rs` | |
| `MeetingBatonProof` | proofs about `MeetingBaton` | `MeetingBaton` |
| `MeetingSweep` | `recover_due_floors`, `claim_due_baton_sessions`, `recover_due_batons` and the loop around them | |
| `MeetingSweepProof` | proofs about `MeetingSweep` | `MeetingSweep` |
| `ReplicaFence` | `db/replica_fence.rs`, the floor guard of migration 0021, the routed reads of `db/lib.rs` | |
| `ReplicaFenceProof` | proofs about `ReplicaFence` | `ReplicaFence` |
| `EventQueue` | `acp/queue.rs` driven by the main loop of `acp/lib.rs` | |
| `EventQueueProof` | proofs about `EventQueue` | `EventQueue` |
| `MC*` | model values, rosters and symmetry for TLC | the module of the same name |

The granularity differs with what each module is about. In `MeetingFloor` and
`MeetingBaton` a command is one step, because every command locks the session row
first and holds it to its end. In `MeetingOutbox`, `RevocationJobs`, `MeetingSweep` and
`ReplicaFence` a statement is one step, because the workers hold no lock between
statements. In `MeetingAdmission` every statement that takes a row lock, or reads what
another transaction writes, is one step, and the locks are explicit. In `EventQueue` one
iteration of the main loop is one step, and the turns run beside it.

The modules are layers of one argument. `MeetingAdmission` shows that a Create and a
restriction behave as if each happened at one moment, with the security order
telling which came first; `RevocationJobs` takes both as atomic steps on that
ground and shows that the jobs end what they must. That a job outlives the ban that
caused it is why `revoked` in `MeetingFloor` never becomes false again.
`MeetingFloor` appends events to an outbox; `MeetingOutbox` shows what becomes of them
on their way to the subscribers, and what does not hold of their order there.
`MeetingFloor` and `MeetingBaton` assume that a deadline that has passed is recovered;
`MeetingSweep` shows for which Meetings it is.

### MeetingFloor

`db` is the record of the Meeting's committed rows. The `*_locked` helpers of the
code are functions from one such record to the next and keep their names
(`create_open_round_locked`, `advance_due_locked`, `grant_round_locked`,
`expire_round_locked`); a command composes them as the code does, including the
advance before and after its own effect. A refused or duplicate command drops its
transaction, so it is a stuttering step: its conditions appear as guards. The random
winner is a choice among the canonical claimants. The sweeper takes two steps, the
unlocked scan and the locked transaction. A Meeting may start without a round row,
as those created before the floor existed do. `now` is the database clock.

### MeetingOutbox

A row is its sequence number. Leases and back-offs are sets of rows for which they
still run, so all relations between a lease and the duration of a dispatch are
covered. A process that restarts draws a new worker id, so what the crashed one had
claimed belongs to `Gone`.

A dispatch is three steps: the worker marks the event as its own and publishes it
(`publish`, `publish_error` when Redis fails or its answer is lost), fans it out to its
own subscribers whatever the answer was (`dispatch_ok`, `dispatch_failed`), and then
acknowledges or releases the row. What Redis took travels to every process, the
publisher included, through a pipe of its own (`bus`): the Redis connection, the
broadcast channel and the subscriber task taken together. The consumer
(`fan_out_pubsub_event`) takes one message at a time, at any later moment, and drops the
echo of an event its process has marked, unless the mark was evicted. A pipe may lose any
stretch of its contents (`pipe_loses`: a consumer that lags, a subscriber that
reconnects), and a restarted process has an empty one. `settled` is what a process has
shown its subscribers, together with what its pipe lost; these its clients have to read
from the database. `published` records in which order Redis first took the rows.

### MeetingAdmission

`locks` holds the advisory community lock and the row locks of `relay_members` and
`users`. A transaction reads what is committed and publishes its own writes when it
commits; sequence values are drawn at the insert and never given back. `rollback`
stands for every refusal, lost connection and deadlock victim. Roles, archival and
the add policy of an agent only decide whether a Create is refused. The Create of a
moderated Meeting, V1 or V2, takes the same statements and differs in one guard: it
refuses a participant without a `users` row, whom a V0 Create admits.

### RevocationJobs

`attempts` is the claim token: an update that cites an older value changes nothing.
Session ids are random in the code, so `create_meeting` takes any unused id, before
or after a job's cursor. `Revoked` is the predicate of
`find_revoked_v0_roster_pubkey_tx`: restricted now, or a job after the Create.

### MeetingBaton

The variables are the live rows: pending Intents, queued and offered Human Requests,
open Handoffs, pending Offers, active Grants, and the latest decision attempt of an
Agent moderator. A transaction is a function from these tables to the next ones, built
from the code's helpers under their names in camel case (`ReturnControl`,
`FailActiveOffer`, `MakeOffer`, `EnsureModeratorWindow`); `Commit` installs the result
unless a unique index of the schema refuses it, in which case nothing happens. `late`
says that the one deadline the session waits for has passed; `AdvanceDue` is the
recovery, which every command also runs first. Terminal rows are dropped, because no
guard reads one again. The moderator is a parameter: a Human acts directly, an Agent
through attempts that freeze a cohort and are committed later.

### MeetingSweep

Batons are scanned in order of deadline (`late`), floors are not: `recover_due_floors`
orders by `COALESCE(settle_not_before, claim_deadline, lease_expires_at, created_at)`, and
a round keeps its settle boundary when it is granted. `line` is therefore the open rounds
in the order of their first Claim, and `due`, `granted` and `settling` say of each how far
it is; a Grant whose lease ends goes ahead of all rounds opened after it, however long
these have been due. Both scans take batches of `Limit`. What a recovery does is the
subject of the floor modules; here it closes the round, or grants it, or fails. A Meeting
in `Corrupt` always fails. The floor scan stops at its first failure; a baton that fails is
kept out of the scan by a fence that doubles up to `FenceCap`. `Tick` lowers the fences
once every worker has swept. `SweepAssumption` states what the constants of the code (100 a
batch, a sweep every 100 ms, 300 s) give: the longest fence outlasts a round over all
corrupt batons, and corrupt bootstrap rows do not fill a batch.

### ReplicaFence

A transaction is the one channel row it inserts. The deferred guard and the commit
record are two steps, a transaction may be prepared in between, and the replica replays
the WAL in order. A soft delete (`soft_delete_event`) touches neither `created_at` nor
`channel_id`, so the guard of migration 0021 does not fire for it: it is a WAL record of
its own that may come at any time, for rows of any age. A page holds the rows with
`deleted_at IS NULL`, so a replica that lags still shows what the writer has deleted;
what the fence promises of a page is that nothing is missing. The probe takes its clock,
activity and WAL samples in three steps and compares the replica in a fourth. Requests
read the fence and the replica in separate steps; whether a reader finds the fence stale
is a free choice, because the two atomics are relaxed. The other predicates of the query
are fixed when a row is inserted: its thread metadata is written by the same transaction,
and no code takes the delete of a channel row back. `LIMIT` only says where the next page
begins.

### EventQueue

The state is that of `EventQueue` (queue, in flight, throttle, retry counts, cancelled
batches, withheld steers) and of the agent slots. `loop` says whether the main loop
waits, dispatches or drains for maintenance. Turns end in the ways `run_prompt_task`
reports, panic, or hang; steer acks and turn results reach the loop over two channels
and so in any order. `fate` is a history variable: how an event left for good.

The in-flight backstop may pass at any time (`deadline_passes`). It is one budget of a
turn and 100 s from the flush, while the first turn of a session with an initial message
has two prompts with a whole budget each, after `session/new`. The channel is then
released under a live turn, a second turn may start, and the result of the first completes
a channel that is the second one's. `outlived` is a history variable: the channels this
happened to, until all turns they then had are over. With two turns on a channel the
entries of the task map matter: a signal or a steer goes to any one of them, and a turn
that hangs still takes steers. An agent may be told of an event twice; the source says so
of a steer whose outcome is unknown ("duplicate delivery is benign", `acp/lib.rs:3891`).
What the model shows is that the harness itself never holds two copies. Agents reserved for
Meeting Offers are a free choice of `pool_exhausted`.

## 3. Runs

| Run | Instance | Checks |
|---|---|---|
| `floor` | one human, one agent, two rounds, fair sweeper | `TypeOK`, `OneLiveRound`, `GrantHasMandate`, `OneSpeechPerGrant`, `StreamReplaysState`, `HistoryIsFinal`, `OnlyEndAfterRevocation`, `ImplementsSpeechFloor`, `OverdueIsRecovered` |
| `outbox` | two processes, two Meetings, two events, two faults, batches of two | `PublishedInOrder`, `AcknowledgedIsOnItsWay`, `EveryEventDelivered`, `EveryEventArrives` |
| `admission_safety` | roster host and agent, a third person who may own either, bans of the third person and of the agent, removal of the host; V0 or moderated | `JobsCoverRosters`, `NewMeetingsAreSpared` |
| `jobs` | one person, two workers, two Meetings, two revocations, one fault | `NoMeetingLeftBehind`, `RevokedForCause`, `EveryRevokedMeetingEnds` |
| `baton_humans` | Human moderator, two Humans, one Agent, three commands, two speeches | `TypeOK`, `FloorIsWhole`, `HumansFirst`, `BasisIsCurrent`, `NoStrandedDeferral`, `DepthBounded`, `HumanBlocksReleased`, `IdleMeansNothingWaits`, `ControlIsFresh` |
| `baton_agent` | Agent moderator, one Human, three commands, one speech | `AttemptAccounted`, `JudgedAsFrozen` |
| `baton_liveness` | as `baton_humans`, two commands, one speech | `FloorReturns`, `RequestsServed` |
| `baton_orphan` | Agent moderator, one Agent, one Human | `FloorIsWhole`: violated |
| `sweep` | one worker, two healthy floors and a corrupt one, one healthy baton that boots and a corrupt one, batches of one, one fault | `NewDeadlineUnfenced`, `BatonsRecovered`, `FloorsRecovered` |
| `fence_safety` | two transactions and their soft deletes, clock to 3 | `FenceComplete`, `WindowPageComplete` |
| `queue` | two events on one channel, steers, two agents, a cap of one, one retry, one hung turn | `OneCopy`, `NothingLost`, `OneTurnUnlessOutlived`, `NoEventStuck` |
| `queue_merged` | two events, one agent, interrupts | `CancelledSurvive`: violated |

What they show is stated above each property in its module. Deadlock checking is off
except in `sweep`, whose loop never ends, and in `queue_merged`: elsewhere a Meeting may
end, an outbox may be empty, and every counter has a bound at which a behaviour stops.
The remaining `.cfg` files reproduce the further disagreements of section 5.

Bounds. Every bound is a constant named `Max...` and guards the action that grows the
counter. Two rounds let a command of a closed round meet a later one, a Grant expire
into a new competition, and End hit every phase; the clock reaches past the settle
boundary, the deadline and the lease of the first competition. One agent suffices for a
cohort that is empty, incomplete or complete; the proofs cover all rosters. Two rows are
two events of one Meeting, one of which waits for the other, or of two Meetings claimed
together; two faults allow a stall and a crash, or a lost answer and a lost message. The
Meetings are alike, so the first row is one of the first (`FirstIsOfS1`); the proof covers
any number of rows. Four values of the security
order suffice for one Create and three restrictions, an agent's job included. With a
`SessionLimit` of one every listing that finds a Meeting is a full page, so a job over
two Meetings pages twice and ends with an empty page. Three commands and two speeches
let a Handoff follow a speech and be overtaken by a Human who is overtaken by another
command; a soft lease of two and a hard deadline of three leave room for a progress
report that extends a Grant and one that is capped. A batch of one is the hardest sweep:
whatever stands at the head of the order takes all of it. Two transactions and a clock
of three allow one to be between guard and commit record when the probe samples and the
other to commit after it. A queue capped at one overflows with the second event; it
never holds two, so their order does not matter and the first to arrive is event 1
(`FirstIsOne`). Both constraints only drop behaviours that another one mirrors.

Fairness. `run` is an endless loop that logs errors and goes on, so the sweeper, the
outbox worker and the jobs worker of each process are weakly fair, and so is the task that
consumes its pipe; time passes, so a
lease nobody is working under, a back-off, a claim window and a retry fence end
eventually. In `MeetingBaton` only the passing of time (`Tick`) and the recovery of what
is due (`AdvanceDue`) are fair: with the commands bounded, the floor returns to the
moderator and queued Humans are served. No run claims that an Intent is heard, because a
moderator may pass one over for ever. In `EventQueue` the main loop
sees to the maintenance tick and the respawned agents at the top of every iteration, and
its biased `select!` (`acp/lib.rs:2450`) puts turn results before steer acks and both
before new messages; at most one result an agent is ready at a time. Hence strong fairness
for these; turns end at their own deadlines unless they hang, an agent that died is
respawned, and the idle agents are not reserved for Meeting Offers for ever (strong
fairness of `dispatch`). No client is fair: participants and administrators may fall
silent for ever. Faults are bounded, which is the usual assumption that a system eventually
has a quiet moment; a permanent failure of one Meeting is modelled in `MeetingSweep`
(`Corrupt`), and not for a job.

What holds only with a qualification, and says so in its statement:

* `FloorsRecovered`: a due floor is recovered unless a corrupt one is ahead of it in the
  line, due or not yet. `recover_due_floors` leaves its loop at the first error
  (`db/meeting_floor.rs:1324`), and a Grant of an older round that falls due later is tried
  first.
* `AcknowledgedIsOnItsWay`, `EveryEventArrives`: an event the pipe of a process lost
  counts as settled there; `delivered_at` says that Redis took it.
* `WindowPageComplete`: nothing is missing from the page; deleted rows may be in it.
* `OneTurnUnlessOutlived`: one turn a channel unless the backstop passed under a live one.
* `NoEventStuck`: no event waits for ever unless maintenance waits for a hung turn, or the
  event is withheld for a steer that a hung turn took while the channel is not in flight.
* `FloorIsWhole`, `IdleMeansNothingWaits`, `ControlIsFresh` and their neighbours in
  `baton_humans` are claims about a Human moderator only.

One simplification of `MeetingBaton` has no effect on them: `execute_baton_command`
advances due deadlines once a command, so under an Agent moderator a command may run past
the deadline of an attempt it has just inherited, where the model recovers again first.

## 4. What is proved

Every invariant and every action property that a passing run checks is also a theorem,
for every value of the constants that satisfies the named assumptions of its module. The
liveness properties are not (see the end of this section). A proof module states its
inductive invariant, proves one lemma for each action or helper function, and ends with
the theorems.

### The V0 floor (`MeetingFloorProof`)

For every roster, timing configuration and bound (the configuration is one
`validate_floor_config` accepts, agents are participants, `Null` is none of the values it
stands beside):

* `TypeCorrect`, `OneLiveRoundHolds`, `MandateHolds`: `TypeOK`, `OneLiveRound`,
  `GrantHasMandate`;
* `OneSpeechHolds`, `ReplayHolds`: `OneSpeechPerGrant`, `StreamReplaysState`;
* `HistoryFinal`, `RevocationOnlyEnds`: the action properties `HistoryIsFinal` and
  `OnlyEndAfterRevocation`;
* `FloorRefinement`: `Spec => ImplementsSpeechFloor`, that is, every behaviour of the
  floor is one of `SpeechFloor`.

The argument follows the code's shape. A command is a composition of functions on
database states, so each function has a lemma (`SetLiveRound`, `OpenRound`,
`CloseAndOpen`, `GrantRound`, `EnsureRound`, `AdvanceDue`, `AddClaim`, ...) that says
which parts of the invariant it preserves, which closed rounds it leaves alone and
which step of the abstract floor it makes; a command's lemma (`ClaimStep`, `SayStep`,
`SweepStep`, ...) chains them. `OneLiveRound` and `GrantHasMandate` are not inductive
alone, and neither gives the refinement: the invariant `IInv` joins them with the types,
with `Published` (no published revision exceeds the session's) and with `Stream` (the
outbox). `Published` is what makes one command at most one abstract step: a Grant that a
command causes on entry has a revision above every published one, so no command can win
the floor and use that same Grant. The mandate survives later steps because claims and
signals only grow and the cohort of a round is written by its first claim alone
(`MandateKept`). `Stream` holds because every transition ends in `set_round`, which
raises the revision and appends its event together; a step that changes no round changes
no event, and a stored speech lies in a closed round.

### The outbox (`MeetingOutboxProof`)

For any number of workers, Meetings, rows and faults: `OrderHolds` (`PublishedInOrder`)
and `NothingSkipped` (`AcknowledgedIsOnItsWay`). The order is that of publication: the
strengthening `HeldAreHeads` says that whoever holds a row, rightly or under a lost claim,
holds one whose predecessors are all acknowledged, and what is acknowledged, about to be or
in a pipe was published (`AckedArePublished`, `PastPublish`, `PipesArePublished`). A lost
claim is harmless for first publications because being late does not undo the
acknowledgement of the predecessors. That nothing is dropped on the way needs
`MarksAreKept` (a mark stands for a fan-out that was done or is about to be, so dropping
the echo loses nothing) and `PublishedIsOnItsWay`, the same claim for every published row,
acknowledged or not.

### Admission (`MeetingAdmissionProof`)

For every number of people, Meetings and commands, every roster and every interleaving of
statements: `RostersAreCovered` (`JobsCoverRosters`, when every command is delivered once)
and `NewAreSpared` (the action property `NewMeetingsAreSpared`, however often commands are
delivered). The argument is about locks. From the check of a participant to its commit a
Create holds a share lock on the membership row, and on the identity row of the owner it
recorded (`CreateHolds`); from before its first job to its commit a restriction holds an
exclusive lock on the same row, or the row does not exist and cannot appear while the
command holds the community lock (`RestrictHolds`). `LocksExclude` makes the two
incompatible. What is left is about the order of the sequence: the jobs of a command
under way lie after every committed Meeting they concern (`JobsAreCutoffs`), those of a
Ban cover the target and all its agents (`JobsAreComplete`), and the order a Create drew
lies after the jobs that concern it (`DrawnLast`). The assumption `MaxDeliveries = 1` of
the first theorem is needed: a redelivered command finds the job of its own event id and
enqueues nothing, which `MeetingAdmission_redelivery` shows.

### Revocation jobs (`RevocationJobsProof`)

For every number of people, workers, Meetings, jobs and faults, and every size of a claim
and of a listing: `NothingLeftBehind` (`NoMeetingLeftBehind`) and `RevokedHaveCause`
(`RevokedForCause`). The invariant adds `RestrictionLeftJob` (who is restricted in an
active Meeting has a job that reaches it) and `WorkersAreSound`: what a job still has to
end lies beyond the cursor of every claim of it, however old (`ClaimIsSound`), and, while
a batch is ended, in the rest of the batch or beyond a batch that was full
(`BatchIsSound`). It is inductive because a job's reach only shrinks (a new Meeting draws
a later order) and a listing is a prefix of the reach. The proof makes no use of the claim
token: what a stale worker lists and ends is sound whatever became of its claim.

### The V1 baton (`MeetingBatonProof`)

With a Human moderator, for every roster, configuration and bound: `TypesHold`,
`FloorHolds`, `HumansAreFirst`, `BasisHolds`, `DeferralsAreReleased`, `DepthHolds`,
`BlocksAreReleased`, `NothingWaitsOnIdle` for the invariants of `baton_humans`, and
`ControlComesBackFresh` for the action property `ControlIsFresh`. A transaction is a
function on tables, so the invariant `Inv(d)` is one of tables as well; its parts are
`Rows`, `Floor`, `Basis`, `Deferrals`, `Depths`, `Line`, `Blocks`, `CohortOpen` and
`IdleIsIdle`. They need each other: that a deferred Intent names the live Offer uses that
there is only one, that nobody waits behind an Offer to an Agent uses that a Request
preempts it, and that the moderator idles only with nothing to offer uses that an open
window has the whole cohort. Helpers are entered in the middle of a transaction, when an
Offer or Grant is over and the next does not exist: these tables are `Bare`, and
`ReturnControl`, `MakeOffer` and the Grant take them back to `Standing`, which is all of
`Inv` but what the closing `EnsureModeratorWindow` sees to. The assumption of a Human is
needed: with an Agent `FloorIsWhole` is false (`baton_orphan`).

With a moderator of either kind: `AttemptsAccounted` (`AttemptAccounted`) and
`JudgedIsFrozen` (the action property `JudgedAsFrozen`). Since the floor need not be
whole here, they rest on a second invariant, `AInv`, which only says that the tables have
their columns, that Intents are a sequence and that the attempt the state row calls
active is the one that runs. A transaction is either `Quiet` (the attempt is left alone
and only Human Requests are offered), or closes or starts an attempt, or offers a source
that it looked up in the snapshot of the running one. The two other ways to an Offer show
in the state: a fallback is recorded, and its candidates are never recorded already; a
speech moves the revision.

### The sweep (`MeetingSweepProof`)

For any number of workers, Meetings and faults: `UnfencedHolds` (`NewDeadlineUnfenced`).
The invariant adds that each due baton and each open round has one place in its list
(`ListedOnce`). A claim fences
only what is due; whoever takes a Meeting off the list clears its fence, a worker whose
claim was overtaken included.

### The replica fence (`ReplicaFenceProof`)

For every number of transactions, floor, margin, page size and length of the clock:
`FenceHolds` (`FenceComplete`) and `WindowHolds` (`WindowPageComplete`). The notion that
carries the proof is `Beyond(b)`: what the replica has yet to replay, what is open and
what is to come was all created after `b`. It is stable, because the guard keeps new rows
above the floor. `ProbeIsSound` follows a probe through its samples until `Beyond` holds
of the value it advances to; `FenceIsSound` and `RequestIsSound` then keep it for an open
fence and for the value a request carries, also after the fence has closed. A page misses
nothing because a row the writer still shows is on the replica and no delete of it can have
been replayed; rows the writer has deleted may remain, so the theorem is an inclusion.

### The ACP queue (`EventQueueProof`)

For any events, channels, agents, limits and handling of further messages:
`OneTurnHolds`, `OneCopyHolds`, `NeverLost` for `OneTurnUnlessOutlived`, `OneCopy` and
`NothingLost`. The invariant is `Types` and, channel by channel, `Filed` (queue, withheld
and cancelled events are disjoint, without repetition), `InHand` (the same of a turn's
batch, and the batches of two turns are disjoint), `Holds` (a turn holds its channel in
flight and is the only one of it, unless the channel was released under a live turn) and
`Fated` (an event is in one of these places exactly if it has arrived and has no fate).
Nothing is assumed of the backstop: the two turns of a released channel hold different
events, because a flush takes what no turn holds and an expiry returns only what was
withheld. A late ack is harmless because it moves an event only from where it finds it.
That `requeue_*` and the merge of batches keep the events rests on the ascending
enumeration of a finite set of numbers, which exists by an argument on the least size
without one. What `NothingLost` calls a fate includes the ways in which the code drops
events on purpose, and the one of `queue_merged`, which is recorded as `forgotten`.

### Only model-checked

All liveness properties, since fairness and `ENABLED` are outside the prover's reach
(`OverdueIsRecovered`, `EveryEventDelivered`, `EveryEventArrives`,
`EveryRevokedMeetingEnds`, `FloorReturns`, `RequestsServed`, `BatonsRecovered`,
`FloorsRecovered`, `NoEventStuck`);
and the floor of the baton under an Agent moderator, of which `FloorIsWhole` is false.
`TypeOK` is part of the inductive invariant in `ReplicaFenceProof`, `MeetingOutboxProof`
and `MeetingAdmissionProof`; the proofs about the jobs, the queue and the sweep need less
than it says and state what they need. No module uses recursion.

## 5. Where code and comments disagree

Two runs are expected to fail; each states what a comment or a document of the
repository claims, quoted under `findings` in `PROJECT.json`.

* `queue_merged`: a cancelled batch that was merged into the next one vanishes when that
  one finds no agent or fails; only the newer events are put back.
* `baton_orphan`: an Agent moderator that completes its cohort, retries or reports
  invalid output while a Human holds an Offer moves the state row away from that Offer.
  It stays pending and its unique index refuses every later one.

Further disagreements, each reproduced by running its configuration with the `MC` module
of the same name:

* `MeetingOutbox_late`: a stalled worker publishes an event again after later ones of its
  Meeting. First publications keep the order, repetitions do not; a subscriber has to
  discard events it knows.
* `MeetingOutbox_overtaken`: without any fault a process shows its own subscribers an
  event before an earlier one of the same Meeting, which another process published and
  which is still in the pipe. `claim_outbox_batch` orders the publications; what clients
  see they have to put in order themselves, as
  `docs/stage/meeting/v1/meeting-v1-backend-implementation-design.md:1449` says.
* `MeetingSweep_hidden`: a corrupt Grant whose lease ends late sorts ahead of floors that
  were due before it and hides them, so the order of the scan is not the order of the
  deadlines.
* `MeetingAdmission_cycle`: the Create and the Ban of an agent's owner may wait for each
  other when the roster names the agent first. PostgreSQL aborts one, so safety holds and
  a command fails with a database error.
* `MeetingAdmission_redelivery`: a restriction command that is delivered twice, with an
  unban and a new Meeting in between, restricts without a job. While the ban lasts every
  command still finds it; once it ends nothing remains of it.
* `MeetingAdmission_adoption`: an agent may get its owner after its identity exists. The
  Meeting that was being created then lies behind the cutoff of a job that may have
  completed; the next command on it still ends it.
* `ReplicaFence_thread`: `get_thread_replies` reads the replica first and the fence after
  it, so a fence that advanced in between vouches for rows the page was read without
  (`db/lib.rs:2439`, against "only when it is provably complete", 2408).
* `EventQueue_retries`: dispatch without a free agent runs `mark_complete` on a channel
  whose back-off has passed and forgets its retry count, so dead-lettering takes more
  failures than `MAX_RETRIES`.
* `EventQueue_orphan`: the maintenance drain drops the result of a turn without a batch
  and never releases its channel (`acp/lib.rs:5104`); only the in-flight backstop does.
* `EventQueue_removed`: the drain keeps the batch of a channel the agent was removed from
  and prompts it after maintenance.
* `EventQueue_order`: a cancelled batch that is prompted again carries what was merged into
  it in front and is not sorted again, so it need not end with its newest event, which the
  reply anchor takes for granted (`acp/queue.rs:348`).
* `EventQueue_outlived`: the backstop passes under a live turn and the channel gets a second
  one. The code logs this as "BUG: in-flight channel expired without mark_complete"
  (`acp/queue.rs:276`) and takes the channel for orphaned.
* `EventQueue_stranded`: once a released channel has two turns, the one that ends first
  completes it. If the other has taken a steer and hangs, no backstop is left for the
  withheld event, which `recover_withheld_for_expired_channel` says would "otherwise be
  permanently orphaned" (`acp/queue.rs:758`).
* `MeetingBaton_recalled`: blocks by a Recall or by the depth limit are never released,
  only those by a Human Request (`release_human_request_handoff_blocks_tx`,
  `db/meeting_baton/commands.rs:3160`), so such a question stays open and out of reach.
* `MeetingBaton_starved`: under an Agent moderator an attempt that finishes when the last
  Intent of its cohort is gone leaves the moderator idle, without a deadline, although a new
  Intent waits for the next cohort (`IdleMeansNothingWaits`; the return to idle at
  `db/meeting_baton/commands.rs:3449`). No deadline wakes it, only a later command.

One more shows in the assumption of `MeetingSweep` rather than in a run: bootstrap rows
of V2 Meetings are claimed without a retry fence, although the comment of
`claim_due_baton_sessions` says that "one corrupt due row cannot starve later rows".

## 6. Plan

Done: the V0 floor with its refinement, the outbox, admission (all versions), revocation
jobs, the V1 baton, the sweep, the replica fence and the ACP queue, and the proofs of all
their safety properties. Next, in this order:

1. An abstract moderated floor that `MeetingBaton` with a Human moderator refines. The
   parts of `Inv` and the lemmas on the helper functions give the step simulation.
2. The part of `FloorIsWhole` that survives an Agent moderator: at most one live Grant,
   and at most one pending Offer, by the unique indexes.
3. Meeting V2 on top of `MeetingBaton`: the board window, action finalisation and its
   renewable lease against End and revocation.
4. `ProjectDocument` with `ProjectContext`, and runtime supervision.

## 7. Not modelled, and why

`PROJECT.json` lists every component with its reason. In short: parsing, signatures,
filters, ranking and rendering are data without a protocol; desktop, web, CLI and SDK
are clients, and the models let a client send any command at any time; pairing has a
symbolic model of its own in the repository (`crates/buzz-core/src/pairing/NIP-AB.spthy`);
the remaining claim-lease-acknowledge tables (push, semantic jobs) have the shape of
`MeetingOutbox` and come after the parts that do not. Of the modelled parts, the following
is left out: `DedupMode::Drop` of the ACP queue, session affinity and the crash circuit of
the agent pool, the startup attestation of the replica guard, the V2 branches of the
baton handlers, and the removal of a manual End event that a revocation supersedes.
