---------------------------- MODULE MeetingSweep ----------------------------
(***************************************************************************)
(* The sweep of the Meeting runtime: every relay process scans, tick after *)
(* tick, for Meetings whose deadline has passed, first the V0 floors       *)
(* (recover_due_floors) and then the moderated batons                      *)
(* (claim_due_baton_sessions, recover_due_batons).  Both scans are bounded *)
(* batches: batons in order of deadline, floors in order of their settle   *)
(* boundary, which a round keeps once it is granted, so that a Grant whose *)
(* lease ends goes ahead of every round opened later.  A Meeting whose     *)
(* rows are corrupt fails every recovery.  A floor that fails ends the     *)
(* floor scan; a baton that fails is set back by a retry fence that        *)
(* doubles.                                                                *)
(*                                                                         *)
(* What recovery does to one Meeting is MeetingFloor and MeetingBaton;     *)
(* here it ends the deadline, and with it the round or only its claims.    *)
(***************************************************************************)
EXTENDS Integers, Sequences, FiniteSets, SequencesExt

CONSTANTS
  Workers,     \* relay processes
  Floors,      \* V0 Meetings
  Batons,      \* V1 and V2 Meetings
  Boots,       \* the V2 Meetings whose runtime is still to be initialized
  Corrupt,     \* Meetings whose recovery always fails
  Limit,       \* BUZZ_MEETING_BATCH_LIMIT
  FenceBase,   \* the first retry fence, 5 s
  FenceCap,    \* the longest retry fence, 300 s
  FenceShift,  \* the number of times it doubles, 6
  MaxFaults    \* bound: crashes and passing failures of a recovery

ASSUME MeetingsAssumption ==
  /\ Floors \cap Batons = {} /\ Boots \subseteq Batons
  /\ Corrupt \subseteq Floors \cup Batons
  /\ IsFiniteSet(Floors \cup Batons)

\* Corrupt bootstrap rows are claimed without a fence, so they must leave room
\* in the batch; and the longest fence must outlast a round of claims of all
\* corrupt batons.  (100 a batch, 10 batches a second, 300 s.)
ASSUME SweepAssumption ==
  /\ {Limit, FenceBase, FenceCap} \subseteq Nat \ {0}
  /\ {FenceShift, MaxFaults} \subseteq Nat
  /\ Cardinality(Corrupt \cap Boots) < Limit
  /\ Cardinality(Corrupt \cap Batons) < FenceCap

VARIABLES
  late,      \* batons past their deadline, the oldest deadline first
  line,      \* floors with an open round, the oldest settle boundary first
  due,       \* floors of the line past their deadline
  granted,   \* floors of the line whose round is granted
  settling,  \* due floors past the settle boundary only, cohort incomplete
  booting,   \* rows of meeting_v2_bootstrap_state in phase bootstrap_locked
  fence,     \* ticks until recovery_retry_at
  tries,     \* recovery_attempts
  stage,     \* of a worker: resting, floors, batons
  batch,     \* what a worker has selected and not yet tried
  swept,     \* workers that finished a sweep since the last tick of the fences
  faults     \* faults so far

deadlines == <<late, line, due, granted, settling, booting>>
rows == <<deadlines, fence, tries>>
vars == <<rows, stage, batch, swept, faults>>

Meetings == Floors \cup Batons
IsDue(m) == m \in due \cup ToSet(late)
Before(s, m, n) == \E i, j \in DOMAIN s : i < j /\ s[i] = m /\ s[j] = n

Oldest(selected) == SubSeq(selected, 1, IF Len(selected) < Limit THEN Len(selected) ELSE Limit)

\* LEAST(300, 5 * (1 << LEAST(recovery_attempts, 6))): a count past FenceShift
\* says no more, and tries stops there.
Backoff(n) ==
  LET f == FenceBase * 2 ^ n IN IF f < FenceCap THEN f ELSE FenceCap

Init ==
  /\ late \in {SetToSeq(Boots)} /\ booting = Boots
  /\ line = << >> /\ due = {} /\ granted = {} /\ settling = {}
  /\ fence = [m \in Batons |-> 0] /\ tries = [m \in Batons |-> 0]
  /\ stage = [w \in Workers |-> "resting"] /\ batch = [w \in Workers |-> << >>]
  /\ swept = {} /\ faults = 0

-----------------------------------------------------------------------------
(* The Meetings.                                                           *)

\* The first Claim of a round sets its settle boundary, COALESCE's first choice:
\* it is later than every boundary set before.
Opens(m) ==
  /\ m \notin ToSet(line)
  /\ line' = Append(line, m)
  /\ UNCHANGED <<late, due, granted, settling, booting, fence, tries, stage, batch, swept, faults>>

\* A deadline of a floor passes, wherever it is in the line: the lease of a
\* Grant, the claim deadline of a competition, or first (early) the boundary
\* where the competition settles if it can.
FloorFallsDue(m, early) ==
  /\ m \in ToSet(line) /\ ~IsDue(m)
  /\ early => m \notin granted
  /\ due' = due \cup {m}
  /\ settling' = IF early THEN settling \cup {m} ELSE settling
  /\ UNCHANGED <<late, line, granted, booting, fence, tries, stage, batch, swept, faults>>

\* The deadline of a baton passes; it is later than those that have passed.
BatonFallsDue(m) ==
  /\ ~IsDue(m)
  /\ late' = Append(late, m)
  /\ UNCHANGED <<line, due, granted, settling, booting, fence, tries, stage, batch, swept, faults>>

\* The cohort is complete, or the claim deadline has passed as well.
Settles(m) ==
  /\ m \in settling
  /\ settling' = settling \ {m}
  /\ UNCHANGED <<late, line, due, granted, booting, fence, tries, stage, batch, swept, faults>>

\* The round is over: its successor has no boundary until its first Claim.
Leaves(m) ==
  /\ line' = RemoveFirst(line, m) /\ late' = RemoveFirst(late, m)
  /\ due' = due \ {m} /\ granted' = granted \ {m}
  /\ settling' = settling \ {m} /\ booting' = booting \ {m}

\* The claims of a floor are settled: the Grant keeps their place in the line.
IsGranted(m) ==
  /\ m \in Floors \ granted
  /\ due' = due \ {m} /\ granted' = granted \cup {m}
  /\ UNCHANGED <<late, line, settling, booting>>

\* Mutant: a transition leaves the retry fence where it is.
RecoveredKeepsFence(m) ==
  /\ Leaves(m) \/ IsGranted(m)
  /\ UNCHANGED <<fence, tries>>

\* The rows of m once its deadline is dealt with: every transition of a baton,
\* and a recovery that finds nothing to do, clears the retry fence.
Recovered(m) ==
  /\ Leaves(m) \/ IsGranted(m)
  /\ fence' = [x \in Batons |-> IF x = m THEN 0 ELSE fence[x]]
  /\ tries' = [x \in Batons |-> IF x = m THEN 0 ELSE tries[x]]

\* A command recovers what is due before it does its own work.
Command(m) ==
  /\ IsDue(m) /\ m \notin Corrupt /\ m \notin settling
  /\ Recovered(m)
  /\ UNCHANGED <<stage, batch, swept, faults>>

\* The holder speaks or yields in time, or the Meeting ends.
Closes(m) ==
  /\ m \in ToSet(line) \ Corrupt /\ ~IsDue(m)
  /\ Leaves(m)
  /\ UNCHANGED <<fence, tries, stage, batch, swept, faults>>

-----------------------------------------------------------------------------
(* A worker.                                                               *)

\* Mutant: the scan takes the latest boundaries first.
NewestFloors == Oldest(Reverse(SelectSeq(line, LAMBDA m : m \in due)))

\* The candidates of recover_due_floors, the settling ones among them.
DueFloors == Oldest(SelectSeq(line, LAMBDA m : m \in due))

ScanFloors(w) ==
  /\ stage[w] = "resting"
  /\ stage' = [stage EXCEPT ![w] = "floors"]
  /\ batch' = [batch EXCEPT ![w] = DueFloors]
  /\ UNCHANGED <<rows, swept, faults>>

\* The Meeting is locked and looked at again: it may have moved on meanwhile.
RecoverFloor(w) ==
  LET m == Head(batch[w]) IN
  /\ stage[w] = "floors" /\ batch[w] # << >> /\ m \notin Corrupt
  /\ IF IsDue(m) /\ m \notin settling THEN Recovered(m) ELSE UNCHANGED rows
  /\ batch' = [batch EXCEPT ![w] = Tail(@)]
  /\ UNCHANGED <<stage, swept, faults>>

\* The rows are corrupt, or the database fails this once.
Fails(m) ==
  \/ m \in Corrupt /\ UNCHANGED faults
  \/ faults < MaxFaults /\ faults' = faults + 1

\* An error of one floor leaves the loop.
FloorFails(w) ==
  /\ stage[w] = "floors" /\ batch[w] # << >>
  /\ Fails(Head(batch[w]))
  /\ batch' = [batch EXCEPT ![w] = << >>]
  /\ UNCHANGED <<rows, stage, swept>>

\* Mutant: a claim sets no fence.
NoFence(claimed) == UNCHANGED <<fence, tries>>

\* Each claim sets the Meeting back, twice as far as the last.
SetFence(claimed) ==
  /\ fence' = [m \in Batons |-> IF m \in claimed THEN Backoff(tries[m]) ELSE fence[m]]
  /\ tries' = [m \in Batons |->
                 IF m \in claimed /\ tries[m] < FenceShift THEN tries[m] + 1 ELSE tries[m]]

\* Mutant: bootstrap rows do not count against the limit.
RemainingAll(boots) == Limit

\* What bootstrap rows leave of the batch.
Remaining(boots) == Limit - Len(boots)

\* claim_due_baton_sessions: bootstrap rows first, then due batons whose fence
\* has passed, as far as the limit goes; sorted by deadline.
ClaimBatons(w) ==
  LET boots == Oldest(SelectSeq(late, LAMBDA m : m \in booting))
      ready == {m \in Batons \ booting : IsDue(m) /\ fence[m] = 0}
      claimed == {m \in ready :
                    Cardinality({n \in ready : Before(late, n, m)}) < Remaining(boots)}
  IN /\ stage[w] = "floors" /\ batch[w] = << >>
     /\ stage' = [stage EXCEPT ![w] = "batons"]
     /\ batch' = [batch EXCEPT ![w] =
                    SelectSeq(late, LAMBDA m : m \in ToSet(boots) \cup claimed)]
     /\ SetFence(claimed)
     /\ UNCHANGED <<deadlines, swept, faults>>

RecoverBaton(w) ==
  LET m == Head(batch[w]) IN
  /\ stage[w] = "batons" /\ batch[w] # << >> /\ m \notin Corrupt
  /\ Recovered(m)
  /\ batch' = [batch EXCEPT ![w] = Tail(@)]
  /\ UNCHANGED <<stage, swept, faults>>

\* An error of one baton is logged and the loop goes on.
BatonFails(w) ==
  /\ stage[w] = "batons" /\ batch[w] # << >>
  /\ Fails(Head(batch[w]))
  /\ batch' = [batch EXCEPT ![w] = Tail(@)]
  /\ UNCHANGED <<rows, stage, swept>>

Rest(w) ==
  /\ stage[w] = "batons" /\ batch[w] = << >>
  /\ stage' = [stage EXCEPT ![w] = "resting"]
  /\ swept' = swept \cup {w}
  /\ UNCHANGED <<rows, batch, faults>>

\* The process dies with its batch and is started again.
Crash(w) ==
  /\ faults < MaxFaults /\ faults' = faults + 1
  /\ stage[w] # "resting"
  /\ stage' = [stage EXCEPT ![w] = "resting"]
  /\ batch' = [batch EXCEPT ![w] = << >>]
  /\ UNCHANGED <<rows, swept>>

\* Time passes for the fences: slowly, measured in sweeps.
Tick ==
  /\ swept = Workers
  /\ \E m \in Batons : fence[m] > 0
  /\ fence' = [m \in Batons |-> IF fence[m] > 0 THEN fence[m] - 1 ELSE 0]
  /\ swept' = {}
  /\ UNCHANGED <<deadlines, tries, stage, batch, faults>>

Sweep(w) ==
  \/ ScanFloors(w) \/ RecoverFloor(w) \/ FloorFails(w)
  \/ ClaimBatons(w) \/ RecoverBaton(w) \/ BatonFails(w) \/ Rest(w)

Next ==
  \/ \E m \in Floors : Opens(m) \/ Settles(m) \/ Closes(m)
  \/ \E m \in Floors, early \in BOOLEAN : FloorFallsDue(m, early)
  \/ \E m \in Batons : BatonFallsDue(m)
  \/ \E m \in Meetings : Command(m)
  \/ \E w \in Workers : Sweep(w) \/ Crash(w)
  \/ Tick

\* The workers loop for ever, time passes and every claim window ends.
Fairness ==
  /\ \A w \in Workers : WF_vars(Sweep(w))
  /\ \A m \in Floors : WF_vars(Settles(m))
  /\ WF_vars(Tick)
Spec == Init /\ [][Next]_vars /\ Fairness

-----------------------------------------------------------------------------
(* Properties.                                                             *)

\* Types of what the scans read and write.
TypeOK ==
  /\ ToSet(late) \subseteq Batons /\ IsInjective(late)
  /\ ToSet(line) \subseteq Floors /\ IsInjective(line)
  /\ due \subseteq ToSet(line) /\ granted \subseteq ToSet(line)
  /\ settling \subseteq due \ granted
  /\ booting \subseteq Boots \cap ToSet(late)
  /\ fence \in [Batons -> 0..FenceCap] /\ tries \in [Batons -> 0..FenceShift]
  /\ stage \in [Workers -> {"resting", "floors", "batons"}]
  /\ \A w \in Workers : ToSet(batch[w]) \subseteq Meetings /\ Len(batch[w]) <= Limit
  /\ swept \subseteq Workers /\ faults \in 0..MaxFaults

\* A retry fence never delays a new deadline: however claims, crashes, commands
\* and recoveries by another worker mix, the fence of a baton that is not due
\* is down and its count of failures forgotten.
NewDeadlineUnfenced ==
  \A m \in Batons : ~IsDue(m) => fence[m] = 0 /\ tries[m] = 0

\* A corrupt Meeting starves no baton: every due baton that can be recovered is,
\* also behind corrupt ones that fill the batch at every sweep, after a crash
\* with the baton claimed, and whatever happens to the floors before it.
BatonsRecovered ==
  \A m \in Batons \ Corrupt : IsDue(m) ~> ~IsDue(m)

\* A due floor is recovered unless a corrupt floor is ahead of it in the line,
\* due or not: also behind settling floors that take up the batch without
\* moving, and behind Grants that fall due after it and are tried before it.
FloorsRecovered ==
  \A m \in Floors \ Corrupt :
    (IsDue(m) /\ ~\E c \in Corrupt \cap Floors : Before(line, c, m)) ~> ~IsDue(m)

\* The same of the corrupt floors that are due: it does not hold, for the Grant
\* of a corrupt floor may fall due later and go ahead.
FloorsRecoveredByDeadline ==
  \A m \in Floors \ Corrupt :
    (IsDue(m) /\ ~\E c \in Corrupt \cap Floors : IsDue(c) /\ Before(line, c, m)) ~> ~IsDue(m)

=============================================================================
