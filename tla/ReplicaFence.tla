---------------------------- MODULE ReplicaFence ----------------------------
(***************************************************************************)
(* Cursor pages from a read replica: the freshness fence and its probe     *)
(* (crates/buzz-db/src/replica_fence.rs), the commit-time floor guard      *)
(* (migrations/0021_created_at_fence_floor.sql) and the two routed reads   *)
(* (get_channel_window and get_thread_replies of crates/buzz-db/src/       *)
(* lib.rs).                                                                *)
(*                                                                         *)
(* A transaction stands for the one channel row it inserts.  The deferred  *)
(* guard and the commit record are two steps, and so is every statement of *)
(* the probe and every access of a request to the fence or the replica.    *)
(* A soft delete is an UPDATE of deleted_at that the guard does not look   *)
(* at: it commits in one step, and the replica learns of it from the WAL   *)
(* like of any row.                                                        *)
(* All times that are compared are times of the writer's clock.  The age   *)
(* of the fence is measured with the relay's clock and stored apart from   *)
(* the fence, both relaxed: whether a reader finds it stale is a free      *)
(* choice.                                                                 *)
(***************************************************************************)
EXTENDS Integers, Sequences, FiniteSets

CONSTANTS
    Txs,        \* transactions that insert a channel row
    Floor,      \* CREATED_AT_FLOOR_SECS
    Margin,     \* FENCE_CLOCK_MARGIN_SECS
    Limit,      \* rows of a thread page
    Closed,     \* the sentinel CLOSED, and "no transaction is open"
    MaxClock    \* bound on the writer's clock

ASSUME FenceAssumption ==
    /\ Floor \in Nat
    /\ Margin \in Nat \ {0}
    /\ Limit \in Nat \ {0}
    /\ MaxClock \in Nat
    /\ Closed \notin Int

VARIABLES
    clock,      \* clock_timestamp() of the writer
    tx,         \* the transactions on the writer
    wal,        \* what committed, in WAL order: rows and soft deletes of rows
    replayed,   \* pg_last_wal_replay_lsn() of the replica
    fence,      \* fence_micros
    probe,      \* where run_probe is, and its WriterSample
    req         \* a request for a page

writer == <<clock, tx, wal, replayed>>
vars == <<writer, fence, probe, req>>

Time == 0..MaxClock
Stamp == (0 - Floor - Margin)..MaxClock

Tx == [st : {"none", "open", "guarded", "prepared", "done"},
       since : Time, created : Time]

NoTx == [st |-> "none", since |-> 0, created |-> 0]

Record == [op : {"insert", "delete"}, row : Txs]

(* The rows of the table after the first n records, and those among them   *)
(* with deleted_at IS NULL.                                                *)
Rows(n) == {wal[i].row : i \in {j \in 1..n : wal[j].op = "insert"}}
Deleted(n) == {wal[i].row : i \in {j \in 1..n : wal[j].op = "delete"}}
Live(n) == Rows(n) \ Deleted(n)

Committed == Rows(Len(wal))
Replica == Rows(replayed)
-----------------------------------------------------------------------------
(* The writer.                                                             *)

Tick ==
    /\ clock < MaxClock
    /\ clock' = clock + 1
    /\ UNCHANGED <<tx, wal, replayed, fence, probe, req>>

(* The row's created_at is signed by a client, or set by a writer that     *)
(* bypasses the ingest window.  A row below the floor already can only     *)
(* abort, which any row can.                                               *)
Begin(t) ==
    /\ tx[t].st = "none"
    /\ \E c \in Time :
         /\ c >= clock - Floor
         /\ tx' = [tx EXCEPT ![t] = [st |-> "open", since |-> clock, created |-> c]]
    /\ UNCHANGED <<clock, wal, replayed, fence, probe, req>>

(* Mutant: the guard compares with now(), the start of the transaction.    *)
FloorFromStart(t) == tx[t].created >= tx[t].since - Floor

FloorHolds(t) == tx[t].created >= clock - Floor

(* The deferred trigger, inside COMMIT.                                    *)
events_created_at_floor_guard(t) ==
    /\ tx[t].st = "open"
    /\ FloorHolds(t)
    /\ tx' = [tx EXCEPT ![t].st = "guarded"]
    /\ UNCHANGED <<clock, wal, replayed, fence, probe, req>>

(* PREPARE TRANSACTION runs the guard and stamps pg_prepared_xacts, in one *)
(* instant: what lies between them is left to the clock margin.            *)
Prepare(t) ==
    /\ tx[t].st = "open"
    /\ FloorHolds(t)
    /\ tx' = [tx EXCEPT ![t].st = "prepared", ![t].since = clock]
    /\ UNCHANGED <<clock, wal, replayed, fence, probe, req>>

Abort(t) ==
    /\ tx[t].st \in {"open", "guarded", "prepared"}
    /\ tx' = [tx EXCEPT ![t] = [NoTx EXCEPT !.st = "done"]]
    /\ UNCHANGED <<clock, wal, replayed, fence, probe, req>>

Commit(t) ==
    /\ tx[t].st \in {"guarded", "prepared"}
    /\ tx' = [tx EXCEPT ![t].st = "done", ![t].since = 0]
    /\ wal' = Append(wal, [op |-> "insert", row |-> t])
    /\ UNCHANGED <<clock, replayed, fence, probe, req>>

(* UPDATE events SET deleted_at: neither created_at nor channel_id, so the *)
(* guard's trigger does not fire, whatever the age of the row.             *)
soft_delete_event(t) ==
    /\ t \in Live(Len(wal))
    /\ wal' = Append(wal, [op |-> "delete", row |-> t])
    /\ UNCHANGED <<clock, tx, replayed, fence, probe, req>>

Replay ==
    /\ replayed < Len(wal)
    /\ replayed' = replayed + 1
    /\ UNCHANGED <<clock, tx, wal, fence, probe, req>>
-----------------------------------------------------------------------------
(* The probe.  lower is the smaller of S and what the scan found.          *)

Idle == [pc |-> "idle", lower |-> 0, lsn |-> 0]

(* Mutant: the scan forgets pg_prepared_xacts.                             *)
OpenSinceInActivity == {tx[t].since : t \in {u \in Txs : tx[u].st \in {"open", "guarded"}}}

(* xact_start of what pg_stat_activity lists, prepared of what             *)
(* pg_prepared_xacts lists.                                                *)
OpenSince == {tx[t].since : t \in {u \in Txs : tx[u].st \in {"open", "guarded", "prepared"}}}

Least(S) == CHOOSE x \in S : \A y \in S : x <= y

sample_clock ==
    /\ probe.pc = "idle"
    /\ probe' = [Idle EXCEPT !.pc = "scan", !.lower = clock]
    /\ UNCHANGED <<writer, fence, req>>

scan_activity ==
    /\ probe.pc = "scan"
    /\ probe' = [probe EXCEPT !.pc = "lsn", !.lower = Least({@} \cup OpenSince)]
    /\ UNCHANGED <<writer, fence, req>>

capture_lsn ==
    /\ probe.pc = "lsn"
    /\ probe' = [probe EXCEPT !.pc = "replica", !.lsn = Len(wal)]
    /\ UNCHANGED <<writer, fence, req>>

(* A replica behind the sample leaves the fence as it is.                  *)
replica_covers ==
    /\ probe.pc = "replica"
    /\ probe' = IF replayed >= probe.lsn THEN [probe EXCEPT !.pc = "advance"] ELSE Idle
    /\ UNCHANGED <<writer, fence, req>>

(* Mutants: the margin is not subtracted, or the floor is added.           *)
FenceWithoutMargin == probe.lower - Floor

FenceAhead == probe.lower + Floor + Margin

NewFence == probe.lower - Floor - Margin

advance ==
    /\ probe.pc = "advance"
    /\ fence' = NewFence
    /\ probe' = Idle
    /\ UNCHANGED <<writer, req>>

(* A failed statement, masked activity or a replica without a replay LSN.  *)
probe_error ==
    /\ probe.pc \in {"scan", "lsn", "replica"}
    /\ fence' = Closed
    /\ probe' = Idle
    /\ UNCHANGED <<writer, req>>
-----------------------------------------------------------------------------
(* Requests.  A page that is not served from the replica is served from    *)
(* the writer and leaves no trace here.  A page from the replica is kept   *)
(* beside what the writer held at the moment of the read.                  *)

NoReq == [pc |-> "idle", ts |-> 0, page |-> {}, truth |-> {}]

Ready == req.pc \in {"idle", "window_served", "thread_served"}

(* Mutant: a window is routed by an open fence whatever its cursor.        *)
CoversAnything(ts) == fence # Closed

(* verified_through is Some and covers ts; it may also be stale.           *)
Covers(ts) == fence # Closed /\ ts <= fence

(* get_channel_window: the fence decides, then the rows up to the cursor   *)
(* are read.                                                               *)
route_channel_window ==
    /\ Ready
    /\ \E ts \in Time : Covers(ts) /\ req' = [NoReq EXCEPT !.pc = "window", !.ts = ts]
    /\ UNCHANGED <<writer, fence, probe>>

(* The rows of the channel up to the cursor, all pages of them: LIMIT cuts *)
(* the list and the next cursor goes on where a page ends.  Which rows of  *)
(* a thread count as top-level is fixed when a row is inserted             *)
(* (thread_metadata is written in the same transaction), so the rows here  *)
(* are those that do.                                                      *)
Upto(S, ts) == {t \in S : tx[t].created <= ts}

read_channel_window ==
    /\ req.pc = "window"
    /\ req' = [pc |-> "window_served", ts |-> req.ts,
               page |-> Upto(Live(replayed), req.ts),
               truth |-> Upto(Live(Len(wal)), req.ts)]
    /\ UNCHANGED <<writer, fence, probe>>

(* get_thread_replies: the fence is open, the first Limit rows past the    *)
(* cursor are read, and the fence has to cover the last of them.           *)
route_thread_replies ==
    /\ Ready
    /\ fence # Closed
    /\ \E ts \in Time \cup {-1} : req' = [NoReq EXCEPT !.pc = "thread", !.ts = ts]
    /\ UNCHANGED <<writer, fence, probe>>

After(S, ts) == {t \in S : tx[t].created > ts}

(* Rows with equal created_at are ordered by id, which may be any order.   *)
FirstRows(S, ts) ==
    {P \in SUBSET After(S, ts) :
        /\ Cardinality(P) = Limit
        /\ \A t \in P, u \in After(S, ts) \ P : tx[t].created <= tx[u].created}

(* An under-full page is run again on the writer.                          *)
read_thread_replies ==
    /\ req.pc = "thread"
    /\ \/ \E P \in FirstRows(Live(replayed), req.ts) :
            req' = [req EXCEPT !.pc = "thread_tail", !.page = P,
                               !.truth = After(Live(Len(wal)), req.ts)]
       \/ Cardinality(After(Live(replayed), req.ts)) < Limit /\ req' = NoReq
    /\ UNCHANGED <<writer, fence, probe>>

Newest(P) == CHOOSE c \in {tx[t].created : t \in P} : \A t \in P : tx[t].created <= c

serve_thread_replies ==
    /\ req.pc = "thread_tail"
    /\ \/ Covers(Newest(req.page)) /\ req' = [req EXCEPT !.pc = "thread_served"]
       \/ req' = NoReq
    /\ UNCHANGED <<writer, fence, probe>>
-----------------------------------------------------------------------------
Init ==
    /\ clock = 0
    /\ tx = [t \in Txs |-> NoTx]
    /\ wal = <<>>
    /\ replayed = 0
    /\ fence = Closed
    /\ probe = Idle
    /\ req = NoReq

WriterStep(t) ==
    \/ Begin(t) \/ events_created_at_floor_guard(t) \/ Prepare(t) \/ Abort(t) \/ Commit(t)
    \/ soft_delete_event(t)

ProbeStep ==
    \/ sample_clock \/ scan_activity \/ capture_lsn \/ replica_covers
    \/ advance \/ probe_error

RequestStep ==
    \/ route_channel_window \/ read_channel_window
    \/ route_thread_replies \/ read_thread_replies \/ serve_thread_replies

Next ==
    \/ Tick \/ Replay \/ \E t \in Txs : WriterStep(t)
    \/ ProbeStep \/ RequestStep

Spec == Init /\ [][Next]_vars
-----------------------------------------------------------------------------
(* The state of the probe and of the writer has its types.                 *)
TypeOK ==
    /\ clock \in Time
    /\ tx \in [Txs -> Tx]
    /\ wal \in Seq(Record)
    /\ replayed \in 0..Len(wal)
    /\ fence \in Stamp \cup {Closed}
    /\ probe \in [pc : {"idle", "scan", "lsn", "replica", "advance"},
                  lower : Time, lsn : 0..Len(wal)]

(* verified_through, the doc comment of the module and of covers: while    *)
(* the fence is open every committed channel row with created_at at or     *)
(* below it is on the replica, whatever was open, prepared or in the       *)
(* middle of its commit when the probe ran, and whatever commits later.    *)
FenceComplete ==
    fence # Closed =>
        \A t \in Committed : tx[t].created <= fence => t \in Replica

(* get_channel_window: a window that the fence routed to the replica       *)
(* misses no row the writer would have returned at that moment, although   *)
(* the fence was looked at before the replica was read and may have been   *)
(* closed since.  It may still hold rows: the fence says nothing of soft   *)
(* deletes, and a row deleted on the writer stays in the replica's pages   *)
(* until the delete is replayed.                                           *)
WindowPageComplete == req.pc = "window_served" => req.truth \subseteq req.page

(* get_thread_replies (lib.rs:2408): "a replica page is served only when   *)
(* it is provably complete", that is, it is the beginning of what the      *)
(* writer would have returned.                                             *)
ThreadPageComplete ==
    req.pc = "thread_served" =>
        \A t \in req.truth \ req.page : tx[t].created >= Newest(req.page)
=============================================================================
