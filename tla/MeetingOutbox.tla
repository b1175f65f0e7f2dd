---------------------------- MODULE MeetingOutbox ----------------------------
(***************************************************************************)
(* Post-commit delivery of Meeting events: the table meeting_event_outbox  *)
(* (claim_outbox_batch, mark_outbox_delivered and release_outbox of        *)
(* crates/buzz-db/src/meeting_floor.rs) and the worker of every relay      *)
(* process (dispatch_outbox_batch of crates/buzz-relay/src/                *)
(* meeting_runtime.rs), which publishes an event to Redis and fans it out  *)
(* to its own subscribers (dispatch_persistent_event_inner of              *)
(* handlers/event.rs), while every process consumes what Redis hands it    *)
(* (main.rs, crates/buzz-pubsub/src/subscriber.rs).                        *)
(*                                                                         *)
(* A row is its sequence number.  A statement on the table is one step; a  *)
(* worker is interleaved between its statements.  Time is abstracted to    *)
(* whether a lease or a back-off is still running, so every relation       *)
(* between the lease and the duration of a dispatch is covered.  A process *)
(* draws a new worker id when it starts: what the crashed one had claimed  *)
(* is claimed by Gone.                                                     *)
(***************************************************************************)
EXTENDS Integers, Sequences, FiniteSets, Functions

CONSTANTS
    Workers,     \* relay processes
    Sessions,    \* Meetings
    BatchLimit,  \* BUZZ_MEETING_BATCH_LIMIT
    Null,        \* claimed_by IS NULL
    Gone,        \* the worker id of a process that no longer runs
    MaxRows,     \* bound on the events of a behaviour
    MaxFaults    \* bound on crashes, stalls, and database and Redis errors

ASSUME OutboxAssumption ==
    /\ BatchLimit \in Nat \ {0}
    /\ MaxRows \in Nat
    /\ MaxFaults \in Nat
    /\ Null \notin Workers /\ Gone \notin Workers /\ Null # Gone

VARIABLES
    rows,        \* session_id of every committed row, by sequence
    delivered,   \* rows with delivered_at
    claimed_by,  \* the last claim of a row
    leased,      \* rows with claimed_until in the future
    backoff,     \* rows with available_at in the future
    batch,       \* what a worker still has to dispatch
    phase,       \* where a worker is with the first row of its batch
    bus,         \* rows Redis took that a process has not consumed yet
    local_event_ids,  \* rows a process marked as its own, whose echo it drops
    settled,     \* rows a process fanned out to its subscribers, and rows the
                 \* pipe lost, which they must read from the database
    published,   \* the rows in the order Redis first took them
    faults

table == <<rows, delivered, claimed_by, leased, backoff>>
net == <<bus, local_event_ids, settled, published>>
vars == <<table, batch, phase, net, faults>>

Row == 1..MaxRows
-----------------------------------------------------------------------------
Predecessors(i) == {j \in 1..(i - 1) : rows[j] = rows[i]}

(* Mutants: a row does not wait for its predecessors, or only an unclaimed *)
(* row is eligible.                                                        *)
EligibleOutOfOrder == {i \in DOMAIN rows : i \notin delivered \cup backoff \cup leased}

EligibleUnclaimed ==
    {i \in DOMAIN rows : /\ i \notin delivered \cup backoff
                         /\ claimed_by[i] = Null
                         /\ Predecessors(i) \subseteq delivered}

(* The head of every session that is not claimed and not backed off.       *)
Eligible ==
    {i \in DOMAIN rows : /\ i \notin delivered \cup backoff \cup leased
                         /\ Predecessors(i) \subseteq delivered}

(* Up to BatchLimit of them; which ones depends on available_at.           *)
Claimable ==
    {S \in SUBSET Eligible :
        IF Cardinality(Eligible) <= BatchLimit THEN S = Eligible
                                               ELSE Cardinality(S) = BatchLimit}

Claim(w, S) ==
    /\ claimed_by' = [i \in Row |-> IF i \in S THEN w ELSE claimed_by[i]]
    /\ leased' = leased \cup S
    /\ UNCHANGED <<rows, delivered, backoff>>

(* What an error or a crash interrupts is not resumed.                     *)
Abandon(w) ==
    /\ batch' = [batch EXCEPT ![w] = {}]
    /\ phase' = [phase EXCEPT ![w] = "idle"]

Fault == faults < MaxFaults /\ faults' = faults + 1

claim_outbox_batch(w) ==
    /\ phase[w] = "idle"
    /\ Eligible # {}
    /\ \E S \in Claimable :
         /\ Claim(w, S)
         /\ batch' = [batch EXCEPT ![w] = S]
         /\ phase' = [phase EXCEPT ![w] = "dispatch"]
    /\ UNCHANGED <<net, faults>>

(* The claim commits and its answer is lost.                               *)
claim_outbox_error(w) ==
    /\ Fault
    /\ phase[w] = "idle"
    /\ \E S \in Claimable : S # {} /\ Claim(w, S)
    /\ UNCHANGED <<batch, phase, net>>
-----------------------------------------------------------------------------
(* The batch is worked off in sequence order.                              *)
Item(w) == CHOOSE i \in batch[w] : \A j \in batch[w] : i <= j

Goto(w, p) == phase' = [phase EXCEPT ![w] = p]

Show(w, i) == settled' = [settled EXCEPT ![w] = @ \cup {i}]

mark_local_event(w, i) ==
    local_event_ids' = [local_event_ids EXCEPT ![w] = @ \cup {i}]

invalidate(w, i) == local_event_ids' = [local_event_ids EXCEPT ![w] = @ \ {i}]

(* PUBLISH: Redis puts the event into the pipe of every process.           *)
publish_event(i) ==
    /\ bus' = [w \in Workers |-> Append(bus[w], i)]
    /\ published' = IF i \in Range(published) THEN published ELSE Append(published, i)

(* dispatch_persistent_event_inner, up to the answer of Redis.  The mark   *)
(* is set before the PUBLISH.                                              *)
publish(w) ==
    /\ phase[w] = "dispatch"
    /\ mark_local_event(w, Item(w))
    /\ publish_event(Item(w))
    /\ Goto(w, "published")
    /\ UNCHANGED <<table, batch, settled, faults>>

(* The PUBLISH fails, or it is done and its answer is lost.                *)
publish_error(w) ==
    /\ Fault
    /\ phase[w] = "dispatch"
    /\ mark_local_event(w, Item(w))
    /\ publish_event(Item(w)) \/ UNCHANGED <<bus, published>>
    /\ Goto(w, "failed")
    /\ UNCHANGED <<table, batch, settled>>

(* The rest of dispatch_persistent_event_inner: the fan-out to the         *)
(* subscribers of this process, also when the PUBLISH failed and the mark  *)
(* was taken back, which returns the error.  The fan-out has no error of   *)
(* its own: what it serialises was serialised for the PUBLISH.             *)
dispatch_ok(w) ==
    /\ phase[w] = "published"
    /\ Show(w, Item(w))
    /\ Goto(w, "ack")
    /\ UNCHANGED <<table, batch, bus, local_event_ids, published, faults>>

(* Mutant: a failed dispatch is acknowledged like any other.               *)
FailureAcknowledged(w) ==
    /\ phase[w] = "failed"
    /\ invalidate(w, Item(w))
    /\ Show(w, Item(w))
    /\ Goto(w, "ack")
    /\ UNCHANGED <<table, batch, bus, published, faults>>

dispatch_failed(w) ==
    /\ phase[w] = "failed"
    /\ invalidate(w, Item(w))
    /\ Show(w, Item(w))
    /\ Goto(w, "release")
    /\ UNCHANGED <<table, batch, bus, published, faults>>

(* Mutant: the consumer stops at an echo instead of dropping it.           *)
EchoStopsConsumer(w) ==
    /\ bus[w] # << >>
    /\ Head(bus[w]) \notin local_event_ids[w]
    /\ bus' = [bus EXCEPT ![w] = Tail(@)]
    /\ Show(w, Head(bus[w]))
    /\ UNCHANGED <<table, batch, phase, local_event_ids, published, faults>>

(* The consumer of a process: the echo of what the process fanned out, or  *)
(* is about to, is dropped, unless the mark outlived its sixty seconds (or *)
(* its place in the cache).  The consumer awaits access checks between the *)
(* test of the mark and the fan-out; a mark set meanwhile announces        *)
(* another fan-out of the same row, so one step loses no outcome.          *)
fan_out_pubsub_event(w) ==
    /\ bus[w] # << >>
    /\ bus' = [bus EXCEPT ![w] = Tail(@)]
    /\ \/ /\ Head(bus[w]) \in local_event_ids[w]
          /\ UNCHANGED settled
       \/ Show(w, Head(bus[w]))
    /\ invalidate(w, Head(bus[w]))
    /\ UNCHANGED <<table, batch, phase, published, faults>>

(* A pipe keeps a stretch of what is in it: a consumer that lags loses the *)
(* oldest, a subscriber that reconnects what was published meanwhile.      *)
pipe_loses(w) ==
    /\ Fault
    /\ \E m \in 0..Len(bus[w]) : \E n \in m..Len(bus[w]) :
         bus' = [bus EXCEPT ![w] = SubSeq(@, m + 1, n)]
    /\ settled' = [settled EXCEPT ![w] = @ \cup (Range(bus[w]) \ Range(bus'[w]))]
    /\ UNCHANGED <<table, batch, phase, local_event_ids, published>>
-----------------------------------------------------------------------------
OwnsClaim(w, i) == claimed_by[i] = w /\ i \notin delivered

(* Mutant: the end of the batch is not noticed.                            *)
ProceedForEver(w) ==
    /\ batch' = [batch EXCEPT ![w] = @ \ {Item(w)}]
    /\ phase' = [phase EXCEPT ![w] = "dispatch"]

(* The next row of the batch, whether the claim was still owned or lost.   *)
Proceed(w) ==
    /\ batch' = [batch EXCEPT ![w] = @ \ {Item(w)}]
    /\ phase' = [phase EXCEPT ![w] = IF batch[w] = {Item(w)} THEN "idle"
                                                             ELSE "dispatch"]

mark_outbox_delivered(w, i) ==
    IF OwnsClaim(w, i)
    THEN /\ delivered' = delivered \cup {i}
         /\ leased' = leased \ {i}
         /\ UNCHANGED <<rows, claimed_by, backoff>>
    ELSE UNCHANGED table

release_outbox(w, i) ==
    IF OwnsClaim(w, i)
    THEN /\ claimed_by' = [claimed_by EXCEPT ![i] = Null]
         /\ leased' = leased \ {i}
         /\ backoff' = backoff \cup {i}
         /\ UNCHANGED <<rows, delivered>>
    ELSE UNCHANGED table

acknowledge(w) ==
    /\ phase[w] = "ack"
    /\ mark_outbox_delivered(w, Item(w))
    /\ Proceed(w)
    /\ UNCHANGED <<net, faults>>

release(w) ==
    /\ phase[w] = "release"
    /\ release_outbox(w, Item(w))
    /\ Proceed(w)
    /\ UNCHANGED <<net, faults>>

(* The statement fails, or commits and its answer is lost; either way the  *)
(* rest of the batch stays claimed until its lease runs out.               *)
statement_error(w) ==
    /\ Fault
    /\ \/ /\ phase[w] = "ack"
          /\ mark_outbox_delivered(w, Item(w)) \/ UNCHANGED table
       \/ /\ phase[w] = "release"
          /\ release_outbox(w, Item(w)) \/ UNCHANGED table
    /\ Abandon(w)
    /\ UNCHANGED net
-----------------------------------------------------------------------------
(* A command commits its event and its outbox row.  Commands of a session  *)
(* are serialised by its row lock, so sequence order is commit order.      *)
enqueue_meeting_event(s) ==
    /\ Len(rows) < MaxRows
    /\ rows' = Append(rows, s)
    /\ UNCHANGED <<delivered, claimed_by, leased, backoff, batch, phase, net, faults>>

(* A process restarts: its subscribers connect anew and read from the      *)
(* database what was published before.                                     *)
crash(w) ==
    /\ Fault
    /\ Abandon(w)
    /\ bus' = [bus EXCEPT ![w] = << >>]
    /\ local_event_ids' = [local_event_ids EXCEPT ![w] = {}]
    /\ settled' = [settled EXCEPT ![w] = Range(published)]
    /\ claimed_by' = [i \in Row |-> IF claimed_by[i] = w THEN Gone ELSE claimed_by[i]]
    /\ UNCHANGED <<rows, delivered, leased, backoff, published>>

(* A row the lease of which runs while its worker is at it: the worker is  *)
(* stalled, or the lease too short.                                        *)
InHand(i) == claimed_by[i] \in Workers /\ i \in batch[claimed_by[i]]

lease_expires(i) ==
    /\ i \in leased
    /\ IF InHand(i) THEN Fault ELSE UNCHANGED faults
    /\ leased' = leased \ {i}
    /\ UNCHANGED <<rows, delivered, claimed_by, backoff, batch, phase, net>>

backoff_ends(i) ==
    /\ i \in backoff
    /\ backoff' = backoff \ {i}
    /\ UNCHANGED <<rows, delivered, claimed_by, leased, batch, phase, net, faults>>
-----------------------------------------------------------------------------
Init ==
    /\ rows = << >>
    /\ delivered = {} /\ leased = {} /\ backoff = {}
    /\ claimed_by = [i \in Row |-> Null]
    /\ batch = [w \in Workers |-> {}]
    /\ phase = [w \in Workers |-> "idle"]
    /\ bus = [w \in Workers |-> << >>]
    /\ local_event_ids = [w \in Workers |-> {}]
    /\ settled = [w \in Workers |-> {}]
    /\ published = << >>
    /\ faults = 0

WorkerStep(w) ==
    \/ claim_outbox_batch(w) \/ publish(w) \/ dispatch_ok(w) \/ dispatch_failed(w)
    \/ acknowledge(w) \/ release(w)

WorkerFault(w) ==
    claim_outbox_error(w) \/ publish_error(w) \/ statement_error(w) \/ crash(w)

Next ==
    \/ \E s \in Sessions : enqueue_meeting_event(s)
    \/ \E w \in Workers : WorkerStep(w) \/ WorkerFault(w)
    \/ \E w \in Workers : fan_out_pubsub_event(w) \/ pipe_loses(w)
    \/ \E i \in Row : lease_expires(i) \/ backoff_ends(i)

Spec == Init /\ [][Next]_vars

(* The leases and back-offs that end because time passes, not a stall.     *)
Clock == \E i \in Row : (lease_expires(i) /\ ~InHand(i)) \/ backoff_ends(i)

(* Every worker and every consumer loops for ever, and the clock moves on. *)
FairSpec == /\ Spec
            /\ \A w \in Workers : WF_vars(WorkerStep(w)) /\ WF_vars(fan_out_pubsub_event(w))
            /\ WF_vars(Clock)
-----------------------------------------------------------------------------
(* Type invariant.                                                         *)
TypeOK ==
    /\ rows \in Seq(Sessions) /\ Len(rows) <= MaxRows
    /\ delivered \subseteq DOMAIN rows
    /\ leased \subseteq DOMAIN rows
    /\ backoff \subseteq DOMAIN rows
    /\ claimed_by \in [Row -> Workers \cup {Null, Gone}]
    /\ batch \in [Workers -> SUBSET DOMAIN rows]
    /\ phase \in [Workers -> {"idle", "dispatch", "published", "failed", "ack", "release"}]
    /\ \A w \in Workers : (phase[w] = "idle") <=> (batch[w] = {})
    /\ bus \in [Workers -> Seq(DOMAIN rows)]
    /\ local_event_ids \in [Workers -> SUBSET DOMAIN rows]
    /\ settled \in [Workers -> SUBSET DOMAIN rows]
    /\ published \in Seq(DOMAIN rows)
    /\ faults \in 0..MaxFaults

(* Whatever fails and whoever is slow, Redis first takes the events of a   *)
(* Meeting in the order they were committed, and no subscriber of any      *)
(* process is shown an event one of whose predecessors Redis never took:   *)
(* claim_outbox_batch makes every event wait for the PUBLISH of the        *)
(* earlier ones (not for their arrival, see ShownInOrder).                 *)
PublishedInOrder ==
    /\ \A k \in DOMAIN published : \A j \in Predecessors(published[k]) :
           \E m \in 1..(k - 1) : published[m] = j
    /\ \A w \in Workers : \A i \in settled[w] : Predecessors(i) \subseteq Range(published)

(* A worker past the PUBLISH of row i, whose own fan-out is still to come. *)
AboutToShow(w, i) == phase[w] \in {"published", "failed"} /\ Item(w) = i

(* An event the table says was delivered is not silently dropped on its    *)
(* way to any process: its subscribers have it (or lost it with their      *)
(* pipe, after it was published), or it is in the pipe, or the process is  *)
(* about to fan it out itself.  No stale claim, lost answer or crash, and  *)
(* no echo mark whose fan-out never comes, turns an event that was not     *)
(* sent into a delivered one.                                              *)
AcknowledgedIsOnItsWay ==
    \A i \in delivered, w \in Workers :
        \/ i \in settled[w]
        \/ i \in Range(bus[w])
        \/ AboutToShow(w, i)

(* Every committed event is eventually sent and acknowledged.              *)
EveryEventDelivered == \A i \in Row : (i \in DOMAIN rows) ~> (i \in delivered)

(* Every committed event eventually reaches the subscribers of every       *)
(* process, unless the pipe lost it to that process.                       *)
EveryEventArrives ==
    \A i \in Row :
        (i \in DOMAIN rows) ~> \A w \in Workers : i \in settled[w]

(* claim_outbox_batch says it preserves the canonical order "across        *)
(* delivery failures and concurrent workers": then no event is published   *)
(* after a later event of its Meeting was, not even again.                 *)
NoLateRepetition ==
    [][ \A w \in Workers :
          phase[w] = "dispatch" /\ phase'[w] = "published" =>
            \A j \in Range(published) : Item(w) \notin Predecessors(j) ]_vars

(* The same order as a subscriber would see it: no event is shown before   *)
(* an earlier event of its Meeting that was not lost.  It does not hold:   *)
(* the fan-out of a process to its own subscribers overtakes what is in    *)
(* their pipe.                                                             *)
ShownInOrder ==
    [][ \A w \in Workers : \A i \in settled'[w] \ settled[w] :
          Predecessors(i) \subseteq settled[w] ]_vars
=============================================================================
