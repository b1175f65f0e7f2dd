----------------------------- MODULE EventQueue -----------------------------
(***************************************************************************)
(* The ACP harness: the per-channel event queue (crates/buzz-acp/src/      *)
(* queue.rs), the main loop that fills it, steers, dispatches and requeues *)
(* (lib.rs) and the batch fates the turn tasks report (pool.rs), in        *)
(* DedupMode::Queue.                                                       *)
(*                                                                         *)
(* The main loop is one thread: `loop` says whether it is ready for an     *)
(* event, inside dispatch_pending, or inside the maintenance drain.  Turns *)
(* and the read loops that answer steers run beside it.  An event is the   *)
(* number of its created_at; its position in `arrived` is received_at.  A  *)
(* deadline (retry_after, in-flight) is reduced to whether it has passed.  *)
(* Prompt wording, sessions, typing and reactions are left out.            *)
(***************************************************************************)
EXTENDS Integers, Sequences, FiniteSets

CONSTANTS
    Events,       \* distinct numbers, ordered as created_at
    Channels,
    ChannelOf,    \* the channel of each event
    Agents,       \* slots of the pool
    Handling,     \* MultipleEventHandling: "Queue", "Steer" or "Interrupt"
    Controls,     \* signals an operator may send: "Cancel", "SwitchModel"
    MaxBatch,     \* MAX_BATCH_EVENTS
    MaxPending,   \* MAX_PENDING_PER_CHANNEL
    MaxRetries,   \* MAX_RETRIES
    MaxHung       \* bound on turns that never come back

ASSUME QueueAssumption ==
    /\ Events \subseteq Nat
    /\ ChannelOf \in [Events -> Channels]
    /\ Handling \in {"Queue", "Steer", "Interrupt"}
    /\ Controls \subseteq {"Cancel", "SwitchModel"}
    /\ MaxBatch \in Nat \ {0} /\ MaxPending \in Nat \ {0} /\ MaxRetries \in Nat
    /\ MaxHung \in Nat

VARIABLES
    loop,         \* where the main loop is
    arrived,      \* events received, in order
    queues,       \* per channel, pending events
    inFlight,     \* in_flight_channels
    overdue,      \* in-flight channels whose deadline has passed
    throttle,     \* retry_after: absent, in the future, or past
    attempts,     \* retry_counts
    cancelled,    \* cancelled_batches
    withheld,     \* withheld_native_steer
    removed,      \* removed_channels
    agents,       \* the pool: idle, empty, or checked out with a batch
    steer,        \* the answer to the steer of an event, on its way to the loop
    fate,         \* history: how an event left the harness for good
    outlived      \* history: channels released in flight under a live turn,
                  \* until all their turns are over

queue == <<queues, inFlight, overdue, throttle, attempts, cancelled, withheld>>
vars == <<loop, arrived, queue, removed, agents, steer, fate, outlived>>

Elems(s) == {s[i] : i \in DOMAIN s}

Idle == [st |-> "idle"]
Down == [st |-> "down"]

Busy == {a \in Agents : agents[a].st = "busy"}
Done == {a \in Agents : agents[a].st = "done"}
Hung == {a \in Agents : agents[a].st = "hung"}
Turns == Busy \cup Done

(* The entries of task_map for c: one goes when the result of its turn is  *)
(* handled.                                                                *)
Tasks(c) == {a \in Turns \cup Hung : agents[a].chan = c}

(* Mutant: a requeue does not enforce the cap.                             *)
KeptAll(s) == s

(* The cap is enforced at the back of the queue.                           *)
Kept(s) == IF Len(s) > MaxPending THEN SubSeq(s, 1, MaxPending) ELSE s
Lost(s) == Elems(s) \ Elems(Kept(s))

Gone(E, how) == [e \in Events |-> IF e \in E THEN how ELSE fate[e]]

(* The numbers of E in ascending order: a stable sort by created_at, which *)
(* are distinct here.                                                      *)
Sorted(E) ==
    CHOOSE s \in [1..Cardinality(E) -> E] :
        \A i, j \in 1..Cardinality(E) : i < j => s[i] < s[j]

(* What is left of s without e, in its order.                              *)
Without(s, e) ==
    LET kept == {i \in DOMAIN s : s[i] # e}
    IN  [j \in 1..Cardinality(kept) |-> s[Sorted(kept)[j]]]

ReceivedAt(e) == CHOOSE i \in DOMAIN arrived : arrived[i] = e

Prompted(T) == {agents[a].chan : a \in T}

(* The history of what is overdue being released, and of the turn of a     *)
(* being over.                                                             *)
ReleaseOverdue == outlived' = outlived \cup (overdue \cap Prompted(Turns))
TurnOver(a) == outlived' = outlived \cap Prompted(Turns \ {a})
-----------------------------------------------------------------------------
(* The effect of mark_complete on the retry state of c, given the throttle *)
(* and the counts as the requeue before it left them.                      *)
MarkComplete(c, th, at) ==
    /\ inFlight' = inFlight \ {c}
    /\ overdue' = overdue \ {c}
    /\ throttle' = IF th[c] = "active" THEN th ELSE [th EXCEPT ![c] = "absent"]
    /\ attempts' = IF th[c] = "active" THEN at ELSE [at EXCEPT ![c] = 0]

(* The pool after a signal to the turn on c.  The first entry for c that   *)
(* the map yields gets it, in no order, and control_tx is taken once: an   *)
(* entry whose turn is over, hangs or was signalled before swallows it.    *)
Signalled(c, sig) ==
    IF Tasks(c) = {} THEN {agents}
    ELSE {IF agents[a].st = "busy" /\ agents[a].sig = "none"
          THEN [agents EXCEPT ![a].sig = sig] ELSE agents : a \in Tasks(c)}
-----------------------------------------------------------------------------
(* A relay event: push, then the mode gate if the channel is in flight.    *)

Pushed(e) ==
    LET q == queues[ChannelOf[e]]
    IN  Append(IF Len(q) >= MaxPending THEN Tail(q) ELSE q, e)

PushLost(e) ==
    LET q == queues[ChannelOf[e]]
    IN  IF Len(q) >= MaxPending THEN {Head(q)} ELSE {}

(* send_steer reaches a task whose channel of capacity one is not full:    *)
(* one request may be awaiting its answer and one be waiting.  A turn that *)
(* hangs takes requests like any other.                                    *)
CanSteer(a, c) ==
    /\ a \in Tasks(c) \ Done
    /\ Cardinality(agents[a].steers) < 2

push(e) ==
    /\ loop = "ready"
    /\ e \notin Elems(arrived)
    /\ ChannelOf[e] \notin removed
    /\ arrived' = Append(arrived, e)
    /\ fate' = Gone(PushLost(e), "dropped")
    /\ loop' = "dispatch"
    /\ UNCHANGED <<inFlight, overdue, throttle, attempts, cancelled, removed, outlived>>

(* The mode gate leaves the turn alone, or there is none.                  *)
receive(e) ==
    LET c == ChannelOf[e] IN
    /\ c \notin inFlight \/ Handling = "Queue"
    /\ push(e)
    /\ queues' = [queues EXCEPT ![c] = Pushed(e)]
    /\ UNCHANGED <<withheld, agents, steer>>

(* Interrupt, or a Steer whose native attempt send_steer refused.          *)
receive_and_signal(e) ==
    LET c == ChannelOf[e] IN
    /\ c \in inFlight
    /\ Handling \in {"Interrupt", "Steer"}
    /\ push(e)
    /\ queues' = [queues EXCEPT ![c] = Pushed(e)]
    /\ agents' \in Signalled(c, Handling)
    /\ UNCHANGED <<withheld, steer>>

(* Mutant: the steered event stays in the queue.                           *)
StillQueued(e) == Pushed(e)

(* mark_native_steer_pending.                                              *)
Withhold(e) == Without(Pushed(e), e)

try_native_steer(e) ==
    LET c == ChannelOf[e] IN
    /\ c \in inFlight
    /\ Handling = "Steer"
    /\ push(e)
    /\ queues' = [queues EXCEPT ![c] = Withhold(e)]
    /\ withheld' = [withheld EXCEPT ![c] = Append(@, e)]
    /\ \E a \in Agents :
         /\ CanSteer(a, c)
         /\ agents' = [agents EXCEPT ![a].steers = @ \cup {e}]
    /\ UNCHANGED steer
-----------------------------------------------------------------------------
(* dispatch_pending: one turn of its loop.                                 *)

(* Mutant: what was withheld on an expired channel is logged and dropped.  *)
RecoverNothing(c) == queues[c]

(* The in-flight entries past their deadline are released and what was     *)
(* withheld on them goes back to the front of the queue.                   *)
Recovered(c) == IF c \in overdue THEN withheld[c] \o queues[c] ELSE queues[c]

Q(c) == Kept(Recovered(c))
ExpiryLost == UNION {Lost(Recovered(c)) : c \in Channels}
W == [c \in Channels |-> IF c \in overdue THEN <<>> ELSE withheld[c]]

(* Mutant: an expired entry is not released.                               *)
BlockedForEver == inFlight

Blocked == inFlight \ overdue

(* Mutant: a channel in flight is flushed again.                           *)
ReadyInFlight == {c \in Channels : Q(c) # <<>> /\ throttle[c] # "active"}

Ready == {c \in Channels : Q(c) # <<>> /\ c \notin Blocked /\ throttle[c] # "active"}

Oldest == {c \in Ready : \A d \in Ready : ReceivedAt(Head(Q(c))) <= ReceivedAt(Head(Q(d)))}

CancelledOnly == {c \in Channels : cancelled[c] # <<>> /\ c \notin Blocked}

Taken(c) == IF Len(Q(c)) > MaxBatch THEN SubSeq(Q(c), 1, MaxBatch) ELSE Q(c)
Left(c) == SubSeq(Q(c), Len(Taken(c)) + 1, Len(Q(c)))

(* What flush_next returns: the oldest ready channel, its cancelled events *)
(* merged in, or else a cancelled batch alone.  left is what stays queued. *)
Flushes ==
    {[chan |-> c, events |-> Sorted(Elems(Taken(c))), merged |-> cancelled[c],
      left |-> Left(c)] : c \in Oldest}
    \cup
    {[chan |-> c, events |-> cancelled[c], merged |-> <<>>, left |-> Q(c)] :
        c \in IF Ready = {} THEN CancelledOnly ELSE {}}

Restored(b) == [c \in Channels |-> IF c = b.chan THEN b.left ELSE Q(c)]

(* An agent is claimed and the turn starts.                                *)
dispatch(a) ==
    /\ loop = "dispatch"
    /\ agents[a].st = "idle"
    /\ \E b \in Flushes :
         /\ queues' = Restored(b)
         /\ inFlight' = Blocked \cup {b.chan}
         /\ cancelled' = [cancelled EXCEPT ![b.chan] = <<>>]
         /\ agents' = [agents EXCEPT ![a] =
                [st |-> "busy", chan |-> b.chan, events |-> b.events,
                 merged |-> b.merged, sig |-> "none", steers |-> {}]]
    /\ overdue' = {}
    /\ withheld' = W
    /\ fate' = Gone(ExpiryLost, "dropped")
    /\ ReleaseOverdue
    /\ UNCHANGED <<loop, arrived, throttle, attempts, removed, steer>>

(* No agent: requeue_preserve_timestamps and mark_complete.  The events    *)
(* merged from a cancelled batch are not among those put back.  try_claim  *)
(* refuses an idle agent too when the Meeting controllers have reserved it *)
(* for an Offer, which is a free choice here.                              *)
pool_exhausted ==
    /\ loop = "dispatch"
    /\ \E b \in Flushes :
         LET c == b.chan
             q == b.events \o b.left
         IN  /\ queues' = [Restored(b) EXCEPT ![c] = Kept(q)]
             /\ cancelled' = [cancelled EXCEPT ![c] = <<>>]
             /\ fate' = [e \in Events |->
                           IF e \in Elems(b.merged) THEN "forgotten"
                           ELSE Gone(ExpiryLost \cup Lost(q), "dropped")[e]]
             /\ inFlight' = Blocked
             /\ overdue' = {}
             /\ throttle' = IF throttle[c] = "active" THEN throttle
                            ELSE [throttle EXCEPT ![c] = "absent"]
             /\ attempts' = IF throttle[c] = "active" THEN attempts
                            ELSE [attempts EXCEPT ![c] = 0]
    /\ withheld' = W
    /\ loop' = "ready"
    /\ ReleaseOverdue
    /\ UNCHANGED <<arrived, removed, agents, steer>>

nothing_to_flush ==
    /\ loop = "dispatch"
    /\ Flushes = {}
    /\ queues' = [c \in Channels |-> Q(c)]
    /\ fate' = Gone(ExpiryLost, "dropped")
    /\ inFlight' = Blocked
    /\ overdue' = {}
    /\ withheld' = W
    /\ loop' = "ready"
    /\ ReleaseOverdue
    /\ UNCHANGED <<arrived, throttle, attempts, cancelled, removed, agents, steer>>
-----------------------------------------------------------------------------
(* A turn ends and its task posts a result: what becomes of the batch, and *)
(* whether the agent goes back to the pool or is respawned.  A task that   *)
(* panics is a retry without an agent.                                     *)

Outcomes(sig) ==
    { <<"ok", "idle">>, <<"retry", "idle">>, <<"retry", "down">>,
      <<"dead", "idle">>, <<"dead", "down">> }
    \cup
    CASE sig \in {"Steer", "Interrupt", "SwitchModel"} ->
             { <<"cancelled", "idle">>, <<"cancelled", "down">> }
      [] sig = "Cancel" -> { <<"dropped", "idle">>, <<"dropped", "down">> }
      [] OTHER -> {}

(* The turn of a new session is two prompts, the initial message and the   *)
(* batch, each with the whole budget of a turn.  Steers the read loop has  *)
(* not answered when the last one is over are resolved as neutral.         *)
run_prompt_task(a) ==
    /\ a \in Busy
    /\ \E o \in Outcomes(agents[a].sig) :
         agents' = [agents EXCEPT ![a] =
             [st |-> "done", chan |-> agents[a].chan, events |-> agents[a].events,
              merged |-> agents[a].merged, out |-> o[1], next |-> o[2]]]
    /\ steer' = [e \in Events |-> IF e \in agents[a].steers THEN "neutral" ELSE steer[e]]
    /\ UNCHANGED <<loop, arrived, queue, removed, fate, outlived>>

(* A turn that never comes back: no result, and no answer to its steers.   *)
(* Its events are orphaned.                                                *)
turn_hangs(a) ==
    /\ a \in Busy
    /\ Cardinality(Hung) < MaxHung
    /\ agents' = [agents EXCEPT ![a] =
           [st |-> "hung", chan |-> agents[a].chan, steers |-> agents[a].steers]]
    /\ fate' = Gone(Elems(agents[a].events) \cup Elems(agents[a].merged), "orphaned")
    /\ TurnOver(a)
    /\ UNCHANGED <<loop, arrived, queue, removed, steer>>

(* The read loop gets the answer to a steer.  "unsupported" stands for     *)
(* method_not_found and for writes that never landed, "rejected" for every *)
(* other agent error.                                                      *)
answer_steer(a, e) ==
    /\ a \in Busy
    /\ e \in agents[a].steers
    /\ agents' = [agents EXCEPT ![a].steers = @ \ {e}]
    /\ \E ack \in {"success", "unsupported", "rejected"} :
         steer' = [steer EXCEPT ![e] = ack]
    /\ UNCHANGED <<loop, arrived, queue, removed, fate, outlived>>

Released(e) ==
    IF e \in Elems(withheld[ChannelOf[e]])
    THEN <<e>> \o queues[ChannelOf[e]] ELSE queues[ChannelOf[e]]

(* PoolEvent::SteerAck.  After an expiry the event may be in the batch of  *)
(* another turn already, and is delivered again with it.                   *)
steer_succeeded(e) ==
    LET c == ChannelOf[e] IN
    /\ loop = "ready"
    /\ steer[e] = "success"
    /\ steer' = [steer EXCEPT ![e] = "no"]
    /\ withheld' = [withheld EXCEPT ![c] = Without(@, e)]
    /\ queues' = [queues EXCEPT ![c] = Without(@, e)]
    /\ overdue' = overdue \ {c}
    /\ fate' = IF e \in Elems(withheld[c]) \cup Elems(queues[c])
               THEN Gone({e}, "steered") ELSE fate
    /\ loop' = "dispatch"
    /\ UNCHANGED <<arrived, inFlight, throttle, attempts, cancelled, removed, agents, outlived>>

steer_failed(e) ==
    LET c == ChannelOf[e] IN
    /\ loop = "ready"
    /\ steer[e] \in {"unsupported", "rejected", "neutral"}
    /\ steer' = [steer EXCEPT ![e] = "no"]
    /\ withheld' = [withheld EXCEPT ![c] = Without(@, e)]
    /\ queues' = [queues EXCEPT ![c] = Kept(Released(e))]
    /\ fate' = Gone(Lost(Released(e)), "dropped")
    /\ agents' \in IF steer[e] = "unsupported" THEN Signalled(c, "Steer") ELSE {agents}
    /\ loop' = "dispatch"
    /\ UNCHANGED <<arrived, inFlight, overdue, throttle, attempts, cancelled, removed, outlived>>
-----------------------------------------------------------------------------
(* handle_prompt_result and recover_panicked_agent.                        *)

Batch(a) == Elems(agents[a].events) \cup Elems(agents[a].merged)

Freed(a) == [agents EXCEPT ![a] = [st |-> agents[a].next]]

HasBatch(a) == agents[a].out \in {"retry", "dead", "cancelled"}

result(a) ==
    /\ loop = "ready"
    /\ a \in Done
    /\ agents' = Freed(a)
    /\ loop' = "dispatch"
    /\ TurnOver(a)
    /\ UNCHANGED <<arrived, withheld, removed, steer>>

(* The turn succeeded, or the batch is given up: dropped by an operator or *)
(* with its channel, dead-lettered after an auth error or a silent hard    *)
(* timeout.                                                                *)
batch_over(a) ==
    LET c == agents[a].chan IN
    /\ result(a)
    /\ \/ agents[a].out \in {"ok", "dropped", "dead"}
       \/ c \in removed
    /\ fate' = Gone(Batch(a),
           IF agents[a].out = "ok" THEN "answered"
           ELSE IF c \in removed \/ agents[a].out = "dropped" THEN "dropped"
           ELSE "dead")
    /\ MarkComplete(c, throttle, attempts)
    /\ UNCHANGED <<queues, cancelled>>

(* Mutant: a double cancel forgets the events merged before.               *)
StoredWithoutMerged(a) == [cancelled EXCEPT ![agents[a].chan] = @ \o agents[a].events]

Stored(a) == [cancelled EXCEPT ![agents[a].chan] = @ \o agents[a].merged \o agents[a].events]

requeue_as_cancelled(a) ==
    /\ cancelled' = Stored(a)
    /\ UNCHANGED <<queues, fate>>

batch_cancelled(a) ==
    /\ result(a)
    /\ agents[a].out = "cancelled"
    /\ agents[a].chan \notin removed
    /\ requeue_as_cancelled(a)
    /\ MarkComplete(agents[a].chan, throttle, attempts)

(* requeue: the events go back to the front, the merged ones are dropped   *)
(* with the batch; or the retries are exhausted.                           *)
batch_requeued(a) ==
    LET c == agents[a].chan
        q == agents[a].events \o queues[c]
    IN
    /\ result(a)
    /\ agents[a].out = "retry"
    /\ c \notin removed
    /\ attempts[c] < MaxRetries
    /\ queues' = [queues EXCEPT ![c] = Kept(q)]
    /\ fate' = [e \in Events |->
                  IF e \in Elems(agents[a].merged) THEN "forgotten"
                  ELSE Gone(Lost(q), "dropped")[e]]
    /\ MarkComplete(c, [throttle EXCEPT ![c] = "active"], [attempts EXCEPT ![c] = @ + 1])
    /\ UNCHANGED <<cancelled>>

batch_dead_lettered(a) ==
    LET c == agents[a].chan IN
    /\ result(a)
    /\ agents[a].out = "retry"
    /\ c \notin removed
    /\ attempts[c] >= MaxRetries
    /\ fate' = Gone(Batch(a), "dead")
    /\ MarkComplete(c, [throttle EXCEPT ![c] = "absent"], [attempts EXCEPT ![c] = 0])
    /\ UNCHANGED <<queues, cancelled>>
-----------------------------------------------------------------------------
(* Operators, membership, time and the respawn of agents.                  *)

control(c, sig) ==
    /\ loop = "ready"
    /\ agents' \in Signalled(c, sig)
    /\ UNCHANGED <<loop, arrived, queue, removed, steer, fate, outlived>>

(* drain_channel.  A turn in flight goes on.                               *)
member_removed(c) ==
    /\ loop = "ready"
    /\ c \notin removed
    /\ removed' = removed \cup {c}
    /\ fate' = Gone(Elems(queues[c]) \cup Elems(cancelled[c]) \cup Elems(withheld[c]), "dropped")
    /\ queues' = [queues EXCEPT ![c] = <<>>]
    /\ cancelled' = [cancelled EXCEPT ![c] = <<>>]
    /\ withheld' = [withheld EXCEPT ![c] = <<>>]
    /\ throttle' = [throttle EXCEPT ![c] = "absent"]
    /\ attempts' = [attempts EXCEPT ![c] = 0]
    /\ UNCHANGED <<loop, arrived, inFlight, overdue, agents, steer, outlived>>

member_added(c) ==
    /\ loop = "ready"
    /\ c \in removed
    /\ removed' = removed \ {c}
    /\ UNCHANGED <<loop, arrived, queue, agents, steer, fate, outlived>>

backoff_elapses(c) ==
    /\ throttle[c] = "active"
    /\ throttle' = [throttle EXCEPT ![c] = "past"]
    /\ UNCHANGED <<loop, arrived, queues, inFlight, overdue, attempts, cancelled, withheld,
                   removed, agents, steer, fate, outlived>>

(* The backstop is one budget of a turn and 100 s from the flush, or from  *)
(* the last steer that succeeded.  A turn with an initial message may take *)
(* two budgets, so the backstop may pass under a live turn, its steers     *)
(* unanswered.                                                             *)
deadline_passes(c) ==
    /\ c \in inFlight \ overdue
    /\ overdue' = overdue \cup {c}
    /\ UNCHANGED <<loop, arrived, queues, inFlight, throttle, attempts, cancelled, withheld,
                   removed, agents, steer, fate, outlived>>

(* Every thirty seconds: compact_expired_state, then dispatch_pending.     *)
maintenance_tick ==
    LET th == [c \in Channels |-> IF throttle[c] = "past" THEN "absent" ELSE throttle[c]] IN
    /\ loop = "ready"
    /\ throttle' = th
    /\ attempts' = [c \in Channels |->
                       IF th[c] # "absent" \/ queues[c] # <<>> \/ c \in inFlight
                       THEN attempts[c] ELSE 0]
    /\ loop' = "dispatch"
    /\ UNCHANGED <<arrived, queues, inFlight, overdue, cancelled, withheld,
                   removed, agents, steer, fate, outlived>>

respawned(a) ==
    /\ loop = "ready"
    /\ agents[a] = Down
    /\ agents' = [agents EXCEPT ![a] = Idle]
    /\ loop' = "dispatch"
    /\ UNCHANGED <<arrived, queue, removed, steer, fate, outlived>>
-----------------------------------------------------------------------------
(* quiesce_agent_pool_for_maintenance, and the pool woken after it.        *)

quiesce ==
    /\ loop = "ready"
    /\ agents' = [a \in Agents |->
                    IF a \in Busy
                    THEN IF agents[a].sig = "none"
                         THEN [agents[a] EXCEPT !.sig = "Interrupt"] ELSE agents[a]
                    ELSE IF a \in Done \cup Hung THEN agents[a] ELSE Down]
    /\ loop' = "drain"
    /\ UNCHANGED <<arrived, queue, removed, steer, fate, outlived>>

drain_batch(a) ==
    /\ loop = "drain"
    /\ a \in Done
    /\ HasBatch(a)
    /\ requeue_as_cancelled(a)
    /\ MarkComplete(agents[a].chan, throttle, attempts)
    /\ agents' = [agents EXCEPT ![a] = Down]
    /\ TurnOver(a)
    /\ UNCHANGED <<loop, arrived, withheld, removed, steer>>

(* A result without a batch does not reach mark_complete.                  *)
drain_result(a) ==
    /\ loop = "drain"
    /\ a \in Done
    /\ ~HasBatch(a)
    /\ fate' = Gone(Batch(a), IF agents[a].out = "ok" THEN "answered" ELSE "dropped")
    /\ agents' = [agents EXCEPT ![a] = Down]
    /\ TurnOver(a)
    /\ UNCHANGED <<loop, arrived, queue, removed, steer>>

(* A turn that hangs keeps the drain pending.                              *)
resume ==
    /\ loop = "drain"
    /\ Turns \cup Hung = {}
    /\ agents' = [a \in Agents |-> Idle]
    /\ loop' = "dispatch"
    /\ UNCHANGED <<arrived, queue, removed, steer, fate, outlived>>
-----------------------------------------------------------------------------
Init ==
    /\ loop = "ready"
    /\ arrived = <<>>
    /\ queues = [c \in Channels |-> <<>>]
    /\ inFlight = {}
    /\ overdue = {}
    /\ throttle = [c \in Channels |-> "absent"]
    /\ attempts = [c \in Channels |-> 0]
    /\ cancelled = [c \in Channels |-> <<>>]
    /\ withheld = [c \in Channels |-> <<>>]
    /\ removed = {}
    /\ agents = [a \in Agents |-> Idle]
    /\ steer = [e \in Events |-> "no"]
    /\ fate = [e \in Events |-> "none"]
    /\ outlived = {}

Handle(a) ==
    \/ batch_over(a) \/ batch_cancelled(a) \/ batch_requeued(a) \/ batch_dead_lettered(a)

Dispatch == (\E a \in Agents : dispatch(a)) \/ pool_exhausted \/ nothing_to_flush

Receive(e) == receive(e) \/ receive_and_signal(e) \/ try_native_steer(e)

SteerAck(e) == steer_succeeded(e) \/ steer_failed(e)

Drain == (\E a \in Agents : drain_batch(a) \/ drain_result(a)) \/ resume

Next ==
    \/ Dispatch
    \/ Drain
    \/ quiesce
    \/ maintenance_tick
    \/ \E e \in Events : Receive(e) \/ SteerAck(e)
    \/ \E a \in Agents :
         \/ run_prompt_task(a) \/ turn_hangs(a) \/ Handle(a) \/ respawned(a)
         \/ \E e \in Events : answer_steer(a, e)
    \/ \E c \in Channels :
         \/ member_removed(c) \/ member_added(c)
         \/ backoff_elapses(c) \/ deadline_passes(c)
         \/ \E sig \in Controls : control(c, sig)

Spec == Init /\ [][Next]_vars
-----------------------------------------------------------------------------
(* Properties.                                                             *)

TypeOK ==
    /\ loop \in {"ready", "dispatch", "drain"}
    /\ Elems(arrived) \subseteq Events
    /\ \A c \in Channels :
         /\ Elems(queues[c]) \cup Elems(cancelled[c]) \cup Elems(withheld[c])
                \subseteq {e \in Elems(arrived) : ChannelOf[e] = c}
         /\ Len(queues[c]) <= MaxPending
         /\ throttle[c] \in {"absent", "active", "past"}
         /\ attempts[c] \in 0..MaxRetries
    /\ overdue \subseteq inFlight /\ inFlight \subseteq Channels
    /\ removed \subseteq Channels
    /\ \A a \in Agents : agents[a].st \in {"idle", "down", "busy", "done", "hung"}
    /\ \A a \in Turns : agents[a].events # <<>>
    /\ \A a \in Busy \cup Hung : agents[a].steers \subseteq Elems(arrived)
    /\ steer \in [Events -> {"no", "success", "unsupported", "rejected", "neutral"}]
    /\ fate \in [Events -> {"none", "answered", "steered", "dead", "dropped", "orphaned", "forgotten"}]

(* The places of e: a queue, the side table, a cancelled batch, a turn.    *)
Places(e) ==
    LET c == ChannelOf[e] IN
    {<<"queued", i>> : i \in {j \in DOMAIN queues[c] : queues[c][j] = e}}
    \cup {<<"withheld", i>> : i \in {j \in DOMAIN withheld[c] : withheld[c][j] = e}}
    \cup {<<"cancelled", i>> : i \in {j \in DOMAIN cancelled[c] : cancelled[c][j] = e}}
    \cup {<<"turn", a>> : a \in {b \in Turns : e \in Elems(agents[b].events)}}
    \cup {<<"merged", a>> : a \in {b \in Turns : e \in Elems(agents[b].merged)}}

(* The harness keeps an event in one place at a time, and in none once it  *)
(* was answered, steered into a turn, dead-lettered or dropped: whatever   *)
(* order the results, the steers' acks, cancels, requeues and the expiry   *)
(* of the in-flight deadline reach the main loop in, also with two turns   *)
(* of a channel, no batch holds a copy of what is queued or in another     *)
(* batch, and nothing given up comes back.  The agent may still be told of *)
(* an event twice: a steer whose outcome is unknown is delivered again     *)
(* ("duplicate delivery is benign").                                       *)
OneCopy ==
    \A e \in Events :
        Cardinality(Places(e)) <= IF fate[e] = "none" THEN 1 ELSE 0

(* An event accepted by push does not vanish: until it has a fate it is    *)
(* queued, withheld, kept as cancelled or in a turn.                       *)
NothingLost ==
    \A e \in Elems(arrived) : fate[e] = "none" => Places(e) # {}

(* Unless the backstop released a channel under a live turn, and as long   *)
(* as one of its turns lives on, the channel is not prompted by two agents *)
(* at a time and every turn holds its channel in flight: no other order of *)
(* results, cancels, requeues, expiries and drains lets a second turn in.  *)
OneTurnUnlessOutlived ==
    /\ \A a \in Turns : agents[a].chan \in inFlight \cup outlived
    /\ \A a, b \in Turns : a # b => agents[a].chan # agents[b].chan \/ agents[a].chan \in outlived

(* What mark_complete is for: one turn of a channel at a time.             *)
OneTurnPerChannel ==
    \A a, b \in Turns : a # b => agents[a].chan # agents[b].chan

(* Dead-lettering takes MaxRetries failures in a row: the count of a       *)
(* channel falls only when one of its turns is over, when it is drained or *)
(* when nothing of it is left to retry.                                    *)
RetryCountKept ==
    [][\A c \in Channels :
         attempts'[c] < attempts[c] =>
            \/ \E a \in Done : agents[a].chan = c /\ agents'[a] # agents[a]
            \/ c \in removed'
            \/ queues[c] = <<>> /\ c \notin inFlight]_vars

(* An event of a cancelled batch survives until the turn it is merged into *)
(* has ended well, like every other event.                                 *)
CancelledSurvive ==
    \A e \in Elems(arrived) : fate[e] \in {"none", "forgotten"} => Places(e) # {}

(* A channel in flight has a turn whose end will release it.               *)
InFlightHasTurn ==
    \A c \in inFlight : \E a \in Turns : agents[a].chan = c

(* No turn starts on a channel the agent was removed from.                 *)
RemovedNotPrompted ==
    [][\A a \in Agents :
         agents[a].st = "idle" /\ agents'[a].st = "busy" => agents'[a].chan \notin removed]_vars

(* The last event of a batch is its newest.                                *)
LastIsNewest ==
    \A a \in Busy : \A e \in Elems(agents[a].events) :
        e <= agents[a].events[Len(agents[a].events)]

(* The tick and the respawned agents are seen to at the top of every       *)
(* iteration.  The select is biased: turn results come before steer acks,  *)
(* and both before new messages; at most one result an agent is ready, so  *)
(* none of them is passed over for ever.  Turns end at their deadlines     *)
(* unless they hang, time passes, and an agent that died comes back.  The  *)
(* agents are not reserved for Meeting Offers for ever.                    *)
Fairness ==
    /\ WF_vars(Dispatch)
    /\ SF_vars(\E a \in Agents : dispatch(a))
    /\ WF_vars(Drain)
    /\ SF_vars(maintenance_tick)
    /\ \A a \in Agents :
         /\ WF_vars(run_prompt_task(a))
         /\ SF_vars(Handle(a))
         /\ SF_vars(respawned(a))
    /\ SF_vars(\E e \in Events : SteerAck(e))
    /\ \A c \in Channels : WF_vars(backoff_elapses(c)) /\ WF_vars(deadline_passes(c))

FairSpec == Spec /\ Fairness

Waiting(e) ==
    \E p \in Places(e) : p[1] \in {"queued", "withheld", "cancelled"}

(* A steer that a turn which hangs has taken: nobody will answer it.       *)
Unanswerable(e) == \E a \in Hung : e \in agents[a].steers

(* No event waits for ever: throttled, withheld for a steer, cancelled or  *)
(* behind a turn that may hang, it is prompted or gone after a while.      *)
(* Two cases are left out: maintenance waits for a turn that hangs, and an *)
(* event is withheld for a steer that went to a hung turn although the     *)
(* channel is not in flight, so that no backstop recovers it.              *)
NoEventStuck ==
    \A e \in Events :
        Waiting(e) ~> \/ ~Waiting(e)
                      \/ loop = "drain" /\ Hung # {}
                      \/ Unanswerable(e) /\ ChannelOf[e] \notin inFlight

(* recover_withheld_for_expired_channel: an event whose ack never arrives  *)
(* is recovered by the backstop of its channel.                            *)
WithheldRecovered ==
    \A c \in Channels : \A e \in Elems(withheld[c]) : Unanswerable(e) => c \in inFlight
=============================================================================
