----------------------- MODULE MeetingAdmissionProof -----------------------
(***************************************************************************)
(* That a Create and the commands that take an authorisation away          *)
(* serialise, for every number of people, Meetings and commands, every     *)
(* roster and every interleaving of their statements.                      *)
(*                                                                         *)
(* The argument is about locks.  From the check of a participant to its    *)
(* commit a Create holds a share lock on the participant's membership, and *)
(* on the identity of the owner it recorded for an agent.  From before its *)
(* first job to its commit a command holds an exclusive lock on the same   *)
(* row of its target, or the row did not exist and cannot matter while     *)
(* the command holds the lock of the community.  So no command is between  *)
(* its first job and its commit while a Create that validated its target   *)
(* is between that check and its commit.                                   *)
(***************************************************************************)
EXTENDS MeetingAdmission, TLAPS

Holds(t, row, mode) == [tx |-> t, row |-> row, mode |-> mode] \in locks

(* Row locks do their work.                                                *)
LocksExclude ==
    \A k, l \in locks : k.row = l.row /\ k.tx # l.tx =>
        k.mode = "share" /\ l.mode = "share"

(* Both identities exist before an agent has an owner.                     *)
OwnersAreUsers ==
    \A a \in People : owner[a] # Null => a \in users /\ owner[a] \in users

(* The roster entries whose membership a Create locked, and those it       *)
(* checked for a ban.                                                      *)
Locked(m, k) ==
    \/ k < tx[m].n
    \/ k = tx[m].n /\ tx[m].step \notin {"idle", "member"}

Checked(m, k) ==
    \/ k < tx[m].n
    \/ k = tx[m].n /\ tx[m].step \notin {"idle", "member", "ban"}

CreateHolds(m) ==
    /\ tx[m].step \in {"insert", "commit"} => tx[m].n = Len(Roster[m])
    /\ \A k \in 1..Len(Roster[m]) :
         Locked(m, k) => /\ Holds(m, Member(Roster[m][k]), "share")
                         /\ Roster[m][k] \in members
    /\ \A k \in 1..Len(Roster[m]) : Checked(m, k) => Roster[m][k] \notin bans
    /\ \A p, o \in People : <<p, o>> \in tx[m].owners =>
         /\ owner[p] = o
         /\ Holds(m, User(o), "share")
         /\ o \in bans => tx[m].step = "owner_ban" /\ owner[Participant(m)] = o

RestrictHolds(c) ==
    /\ tx[c].step \notin {"idle", "community"} => Holds(c, Community, "exclusive")
    /\ c \in Bans /\ tx[c].step \in {"user", "enqueue", "enqueue_agents", "commit"} =>
         Holds(c, Member(Target[c]), "exclusive") \/ Target[c] \notin members
    /\ c \in Bans /\ tx[c].step \in {"enqueue", "enqueue_agents", "commit"} =>
         Holds(c, User(Target[c]), "exclusive") \/ \A a \in People : owner[a] # Target[c]
    /\ c \in Removals /\ tx[c].step \in {"enqueue", "commit"} =>
         Holds(c, Member(Target[c]), "exclusive")
    /\ tx[c].step \in {"user", "enqueue_agents"} => c \in Bans

(* A session or a job a command refers to someone the Create validated.    *)
Concerns(c, p, owners) == p = Target[c] \/ <<p, Target[c]>> \in owners

(* The jobs of a command under way: of its target and, for a Ban, of the   *)
(* agents of its target; each lies after every committed Meeting it        *)
(* concerns.                                                               *)
JobsAreCutoffs(c) ==
    /\ tx[c].jobs # {} => tx[c].step \in {"enqueue_agents", "commit"}
    /\ \A j \in tx[c].jobs :
         /\ j.event = <<c, j.pubkey>> /\ j.order <= order
         /\ j.pubkey = Target[c] \/ (c \in Bans /\ owner[j.pubkey] = Target[c])
         /\ \A s \in sessions :
              j.pubkey \in Participants(s.meeting) /\ Concerns(c, j.pubkey, s.owners) =>
                  j.order > s.order

(* A command that arrives once finds no job of its own: it enqueues one    *)
(* for its target and, for a Ban, one for every agent of its target.       *)
Fresh(c) == \A j \in jobs : j.event[1] # c

JobsAreComplete(c) ==
    Fresh(c) =>
        /\ tx[c].step \in {"enqueue_agents", "commit"} =>
             \E j \in tx[c].jobs : j.pubkey = Target[c]
        /\ c \in Bans /\ tx[c].step = "commit" =>
             \A a \in People : owner[a] = Target[c] => \E j \in tx[c].jobs : j.pubkey = a

OnceMeansFresh ==
    MaxDeliveries = 1 =>
        \A c \in Commands :
            /\ deliveries[c] = 0 => tx[c].step = "idle"
            /\ deliveries[c] = 0 \/ tx[c].step # "idle" => Fresh(c)

(* The order a Create drew lies after the jobs that concern it.            *)
DrawnLast(m) ==
    tx[m].step = "commit" =>
        \A j \in jobs :
            j.pubkey \in Participants(m) /\ Concerns(j.event[1], j.pubkey, tx[m].owners) =>
                j.order < tx[m].order

OrderIsLatest ==
    /\ \A s \in sessions : s.order <= order
    /\ \A j \in jobs : j.order <= order
    /\ \A m \in Meetings : tx[m].order <= order

OwnersAreRecorded ==
    \A s \in sessions : \A p, o \in People : <<p, o>> \in s.owners => owner[p] = o

IInv ==
    /\ TypeOK
    /\ LocksExclude
    /\ OwnersAreUsers
    /\ \A m \in Meetings : CreateHolds(m) /\ DrawnLast(m)
    /\ \A c \in Commands : RestrictHolds(c) /\ JobsAreCutoffs(c) /\ JobsAreComplete(c)
    /\ OnceMeansFresh
    /\ OrderIsLatest
    /\ OwnersAreRecorded
    /\ MaxDeliveries = 1 => JobsCoverRosters

TxRow == [step : Step, moderated : BOOLEAN, n : Nat, order : Nat,
          owners : SUBSET (People \X People), jobs : SUBSET Job]

LockRow == [tx : Tx, row : Row, mode : {"share", "exclusive"}]

(* The types of what a step reads.                                         *)
LEMMA Typed ==
    ASSUME IInv
    PROVE  /\ tx \in [Tx -> TxRow] /\ locks \subseteq LockRow
           /\ \A t \in Tx : tx[t] \in TxRow
           /\ \A m \in Meetings : /\ m \in Tx /\ tx[m].n \in 1..Len(Roster[m])
                                  /\ Roster[m] \in Seq(People) /\ Len(Roster[m]) \in Nat
                                  /\ Roster[m][tx[m].n] \in People
                                  /\ Participant(m) \in People
           /\ \A c \in Commands : c \in Tx /\ c \notin Meetings /\ Target[c] \in People
           /\ order \in Nat
           /\ \A s \in sessions : s.order \in Nat /\ s.meeting \in Meetings
           /\ \A j \in jobs : j.order \in Nat /\ j.event[1] \in Commands /\ j.pubkey \in People
           /\ Null \notin People
<1>1. /\ tx \in [Tx -> TxRow] /\ locks \subseteq LockRow /\ order \in 0..MaxOrder
      /\ sessions \subseteq Session /\ jobs \subseteq Job
      /\ \A m \in Meetings : tx[m].n \in 1..Len(Roster[m])
  BY DEF IInv, TypeOK, TxRow, LockRow
<1>2. /\ \A m \in Meetings : m \in Tx
      /\ \A c \in Commands : c \in Tx /\ c \notin Meetings /\ Target[c] \in People
      /\ Null \notin People
  BY AdmissionAssumption DEF Tx
<1>3. ASSUME NEW m \in Meetings
      PROVE  /\ Roster[m] \in Seq(People) /\ Len(Roster[m]) \in Nat
             /\ Roster[m][tx[m].n] \in People
             /\ Participant(m) \in People
  <2>1. Roster[m] \in Seq(People)
    BY AdmissionAssumption
  <2>2. QED
    BY <1>1, <2>1 DEF Participant
<1>4. \A s \in sessions : s.order \in Nat /\ s.meeting \in Meetings
  BY <1>1 DEF Session
<1>5. \A j \in jobs : j.order \in Nat /\ j.event[1] \in Commands /\ j.pubkey \in People
  BY <1>1 DEF Job
<1>6. order \in Nat
  BY <1>1, AdmissionAssumption
<1>7. QED
  BY <1>1, <1>2, <1>3, <1>4, <1>5, <1>6

(* A lock that is granted excludes nobody.                                 *)
LEMMA LockKeeps ==
    ASSUME IInv, NEW t \in Tx, NEW row \in Row, NEW mode \in {"share", "exclusive"},
           Lock(t, row, mode)
    PROVE  /\ locks' \subseteq LockRow
           /\ LocksExclude'
           /\ \A u, r, md : Holds(u, r, md) => Holds(u, r, md)'
           /\ Holds(t, row, mode)'
<1> DEFINE new == [tx |-> t, row |-> row, mode |-> mode]
<1>1. locks' = locks \cup {new}
  BY DEF Lock
<1>2. new \in LockRow /\ new.tx = t /\ new.row = row /\ new.mode = mode
  BY DEF LockRow
<1>3. \A l \in locks : ~(l.row = row /\ l.tx # t /\ "exclusive" \in {mode, l.mode})
  <2>1. SUFFICES ASSUME NEW l \in locks, l.row = row, l.tx # t, "exclusive" \in {mode, l.mode}
                 PROVE  l.tx \in Holders(t, row, mode)
    BY <2>1 DEF Lock
  <2>2. QED
    BY <2>1 DEF Holders
<1>4. \A l \in locks : l.mode \in {"share", "exclusive"}
  BY Typed DEF LockRow
<1> HIDE DEF new
<1>5. LocksExclude'
  <2>1. SUFFICES ASSUME NEW k \in locks', NEW l \in locks', k.row = l.row, k.tx # l.tx
                 PROVE  k.mode = "share" /\ l.mode = "share"
    BY <2>1 DEF LocksExclude
  <2>2. CASE k \in locks /\ l \in locks
    BY <2>1, <2>2 DEF IInv, LocksExclude
  <2>3. CASE k = new /\ l \in locks
    BY <1>2, <1>3, <1>4, <2>1, <2>3
  <2>4. CASE k \in locks /\ l = new
    BY <1>2, <1>3, <1>4, <2>1, <2>4
  <2>5. CASE k = new /\ l = new
    BY <2>1, <2>5
  <2>6. QED
    BY <1>1, <2>2, <2>3, <2>4, <2>5
<1>6. locks' \subseteq LockRow
  BY <1>1, <1>2, Typed
<1>7. Holds(t, row, mode)'
  BY <1>1 DEF Holds, new
<1>8. QED
  BY <1>1, <1>5, <1>6, <1>7 DEF Holds

(* So does a locking SELECT, which may find no row.                        *)
LEMMA LockIfPresentKeeps ==
    ASSUME IInv, NEW t \in Tx, NEW row \in Row, NEW mode \in {"share", "exclusive"},
           NEW present, LockIfPresent(t, present, row, mode)
    PROVE  /\ locks' \subseteq LockRow
           /\ LocksExclude'
           /\ \A u, r, md : Holds(u, r, md) => Holds(u, r, md)'
           /\ present => Holds(t, row, mode)'
<1>1. CASE present
  <2>1. Lock(t, row, mode)
    BY <1>1 DEF LockIfPresent
  <2>2. QED
    BY <2>1, LockKeeps
<1>2. CASE ~present
  <2>1. locks' = locks
    BY <1>2 DEF LockIfPresent
  <2>2. QED
    BY <1>2, <2>1, Typed DEF IInv, LocksExclude, Holds
<1>3. QED
  BY <1>1, <1>2

(* The end of a transaction gives back its own locks only.                 *)
LEMMA FinishKeeps ==
    ASSUME IInv, NEW t \in Tx, Finish(t)
    PROVE  /\ tx' \in [Tx -> TxRow] /\ tx'[t] = Idle
           /\ \A u \in Tx \ {t} : tx'[u] = tx[u]
           /\ locks' \subseteq LockRow /\ LocksExclude'
           /\ \A u \in Tx \ {t} : \A r, md : Holds(u, r, md) => Holds(u, r, md)'
<1>1. Idle \in TxRow
  BY DEF Idle, TxRow, Step
<1>2. /\ tx' \in [Tx -> TxRow] /\ tx'[t] = Idle
      /\ \A u \in Tx \ {t} : tx'[u] = tx[u]
  BY <1>1, Typed DEF Finish
<1>3. locks' = {l \in locks : l.tx # t}
  BY DEF Finish
<1>4. locks' \subseteq LockRow
  BY <1>3, Typed
<1>5. LocksExclude'
  BY <1>3 DEF IInv, LocksExclude
<1>6. ASSUME NEW u \in Tx \ {t}, NEW r, NEW md, Holds(u, r, md) PROVE Holds(u, r, md)'
  <2>1. [tx |-> u, row |-> r, mode |-> md].tx # t
    OBVIOUS
  <2>2. QED
    BY <1>3, <1>6, <2>1 DEF Holds
<1>7. QED
  BY <1>2, <1>4, <1>5, <1>6

(* A step forward of one transaction.                                      *)
LEMMA GotoKeeps ==
    ASSUME IInv, NEW t \in Tx, NEW st \in Step, Goto(t, st)
    PROVE  /\ tx' \in [Tx -> TxRow]
           /\ \A u \in Tx \ {t} : tx'[u] = tx[u]
           /\ tx'[t].step = st /\ tx'[t].moderated = tx[t].moderated
           /\ tx'[t].n = tx[t].n /\ tx'[t].order = tx[t].order
           /\ tx'[t].owners = tx[t].owners /\ tx'[t].jobs = tx[t].jobs
<1>1. tx \in [Tx -> TxRow] /\ tx[t] \in TxRow
  BY Typed
<1>2. tx' = [tx EXCEPT ![t] = [tx[t] EXCEPT !.step = st]]
  BY DEF Goto
<1>3. QED
  BY <1>1, <1>2 DEF TxRow

(* While a command is past its locks, no Create holds its target or, for a *)
(* Ban, an agent of its target.                                            *)
LEMMA Serialised ==
    ASSUME IInv, NEW m \in Meetings, NEW c \in Commands,
           tx[c].step \in {"enqueue_agents", "commit"}
    PROVE  /\ \A k \in 1..Len(Roster[m]) : Locked(m, k) => Roster[m][k] # Target[c]
           /\ c \in Bans => \A p \in People : <<p, Target[c]>> \notin tx[m].owners
<1>1. c # m /\ Target[c] \in People
  BY Typed
<1>2. ASSUME NEW row, Holds(m, row, "share"), Holds(c, row, "exclusive") PROVE FALSE
  <2> DEFINE a == [tx |-> m, row |-> row, mode |-> "share"]
             b == [tx |-> c, row |-> row, mode |-> "exclusive"]
  <2>1. a \in locks /\ b \in locks
    BY <1>2 DEF Holds
  <2>2. a.row = b.row /\ a.tx # b.tx /\ b.mode = "exclusive"
    BY <1>1
  <2> HIDE DEF a, b
  <2>3. QED
    BY <2>1, <2>2 DEF IInv, LocksExclude
<1>3. ASSUME NEW k \in 1..Len(Roster[m]), Locked(m, k), Roster[m][k] = Target[c] PROVE FALSE
  <2>1. Holds(m, Member(Target[c]), "share") /\ Target[c] \in members
    BY <1>3 DEF IInv, CreateHolds
  <2>2. Holds(c, Member(Target[c]), "exclusive")
    BY <2>1 DEF IInv, RestrictHolds, Commands
  <2>3. QED
    BY <1>2, <2>1, <2>2
<1>4. ASSUME c \in Bans, NEW p \in People, <<p, Target[c]>> \in tx[m].owners PROVE FALSE
  <2>1. Holds(m, User(Target[c]), "share") /\ owner[p] = Target[c]
    BY <1>1, <1>4 DEF IInv, CreateHolds
  <2>2. Holds(c, User(Target[c]), "exclusive")
    BY <1>4, <2>1 DEF IInv, RestrictHolds
  <2>3. QED
    BY <1>2, <2>1, <2>2
<1>5. QED
  BY <1>3, <1>4

(* A step of t that changes no row of the tables and takes no lock away    *)
(* from others.                                                            *)
Local(t) ==
    /\ tx' \in [Tx -> TxRow]
    /\ \A u \in Tx \ {t} : tx'[u] = tx[u]
    /\ UNCHANGED <<members, users, owner, bans, sessions, jobs>>
    /\ locks' \subseteq LockRow
    /\ LocksExclude'
    /\ \A u \in Tx \ {t} : \A r, md : Holds(u, r, md) => Holds(u, r, md)'
    /\ order' \in 0..MaxOrder /\ order' >= order

LEMMA OthersKept ==
    ASSUME IInv, NEW t \in Tx, Local(t)
    PROVE  /\ OwnersAreUsers' /\ OwnersAreRecorded'
           /\ \A m \in Meetings \ {t} : CreateHolds(m)' /\ DrawnLast(m)'
           /\ \A c \in Commands \ {t} : RestrictHolds(c)' /\ JobsAreCutoffs(c)'
                                        /\ JobsAreComplete(c)'
           /\ \A c : Fresh(c)' = Fresh(c)
           /\ order' \in Nat /\ order' >= order
           /\ \A s \in sessions' : s.order <= order'
           /\ \A j \in jobs' : j.order <= order'
           /\ \A m \in Meetings \ {t} : tx'[m].order <= order'
           /\ MaxDeliveries = 1 => JobsCoverRosters'
<1>1. /\ \A u \in Tx \ {t} : tx'[u] = tx[u]
      /\ members' = members /\ users' = users /\ owner' = owner /\ bans' = bans
      /\ sessions' = sessions /\ jobs' = jobs
      /\ \A u \in Tx \ {t} : \A r, md : Holds(u, r, md) => Holds(u, r, md)'
      /\ order' \in Nat /\ order' >= order /\ order \in Nat
  BY Typed, AdmissionAssumption DEF Local
<1>2. \A m \in Meetings : m \in Tx
  BY Typed
<1>3. \A c \in Commands : c \in Tx
  BY Typed
<1>4. OwnersAreUsers' /\ OwnersAreRecorded'
  BY <1>1 DEF IInv, OwnersAreUsers, OwnersAreRecorded
<1>5. ASSUME NEW m \in Meetings \ {t} PROVE CreateHolds(m)' /\ DrawnLast(m)'
  <2>1. tx'[m] = tx[m] /\ CreateHolds(m) /\ DrawnLast(m)
        /\ \A r, md : Holds(m, r, md) => Holds(m, r, md)'
    BY <1>1, <1>2 DEF IInv
  <2>2. Participant(m)' = Participant(m)
    BY <2>1 DEF Participant
  <2>3. \A k : Locked(m, k)' = Locked(m, k) /\ Checked(m, k)' = Checked(m, k)
    BY <2>1 DEF Locked, Checked
  <2>4. CreateHolds(m)'
    BY <1>1, <2>1, <2>2, <2>3 DEF CreateHolds
  <2>5. DrawnLast(m)'
    BY <1>1, <2>1 DEF DrawnLast
  <2>6. QED
    BY <2>4, <2>5
<1>6. \A c : Fresh(c)' = Fresh(c)
  BY <1>1 DEF Fresh
<1>7. ASSUME NEW c \in Commands \ {t}
      PROVE  RestrictHolds(c)' /\ JobsAreCutoffs(c)' /\ JobsAreComplete(c)'
  <2>1. tx'[c] = tx[c] /\ RestrictHolds(c) /\ JobsAreCutoffs(c) /\ JobsAreComplete(c)
        /\ \A r, md : Holds(c, r, md) => Holds(c, r, md)'
    BY <1>1, <1>3 DEF IInv
  <2>2. RestrictHolds(c)'
    BY <1>1, <2>1 DEF RestrictHolds
  <2>3. \A j \in tx[c].jobs : j.order \in Nat
    BY <1>3, Typed DEF TxRow, Job
  <2>4. JobsAreCutoffs(c)'
    BY <1>1, <2>1, <2>3 DEF JobsAreCutoffs, Concerns
  <2>5. JobsAreComplete(c)'
    BY <1>1, <1>6, <2>1 DEF JobsAreComplete
  <2>6. QED
    BY <2>2, <2>4, <2>5
<1>8. /\ \A s \in sessions' : s.order <= order'
      /\ \A j \in jobs' : j.order <= order'
  BY <1>1, Typed DEF IInv, OrderIsLatest
<1>9. \A m \in Meetings \ {t} : tx'[m].order <= order'
  <2>1. \A m \in Meetings : tx[m].order \in Nat
    BY <1>2, Typed DEF TxRow
  <2>2. QED
    BY <1>1, <1>2, <2>1 DEF IInv, OrderIsLatest
<1>10. MaxDeliveries = 1 => JobsCoverRosters'
  BY <1>1 DEF IInv, JobsCoverRosters, Restricted, Covered
<1>11. QED
  BY <1>1, <1>4, <1>5, <1>6, <1>7, <1>8, <1>9, <1>10

(* The invariant after a local step of a Create.                           *)
LEMMA CreateStepKeeps ==
    ASSUME IInv, NEW m \in Meetings, Local(m), deliveries' = deliveries,
           tx'[m].n \in 1..Len(Roster[m]),
           tx'[m].order <= order', CreateHolds(m)', DrawnLast(m)'
    PROVE  IInv'
<1>0. m \in Tx /\ m \notin Commands
  BY AdmissionAssumption DEF Tx
<1>1. TypeOK'
  <2>1. \A u \in Meetings : tx'[u].n \in 1..Len(Roster[u])
    BY Typed DEF Local
  <2>2. /\ members' = members /\ users' = users /\ owner' = owner /\ bans' = bans
        /\ sessions' = sessions /\ jobs' = jobs /\ deliveries' = deliveries
    BY DEF Local
  <2>3. QED
    BY <2>1, <2>2 DEF IInv, TypeOK, Local, TxRow, LockRow
<1>2. OnceMeansFresh'
  <2>1. \A c \in Commands : tx'[c] = tx[c]
    BY <1>0, Typed DEF Local
  <2>2. QED
    BY <1>0, <2>1, OthersKept DEF IInv, OnceMeansFresh
<1>3. /\ \A u \in Meetings : CreateHolds(u)' /\ DrawnLast(u)'
      /\ \A c \in Commands : RestrictHolds(c)' /\ JobsAreCutoffs(c)' /\ JobsAreComplete(c)'
  BY <1>0, OthersKept
<1>4. OrderIsLatest'
  BY <1>0, OthersKept DEF OrderIsLatest
<1>5. QED
  BY <1>0, <1>1, <1>2, <1>3, <1>4, OthersKept DEF IInv, Local

(* The invariant after a local step of a command.                          *)
LEMMA RestrictStepKeeps ==
    ASSUME IInv, NEW c \in Commands, Local(c),
           deliveries' \in [Commands -> 0..MaxDeliveries],
           RestrictHolds(c)', JobsAreCutoffs(c)', JobsAreComplete(c)', OnceMeansFresh'
    PROVE  IInv'
<1>0. c \in Tx /\ c \notin Meetings
  BY Typed
<1>1. TypeOK'
  <2>1. \A u \in Meetings : tx'[u].n \in 1..Len(Roster[u])
    BY <1>0, Typed DEF Local
  <2>2. /\ members' = members /\ users' = users /\ owner' = owner /\ bans' = bans
        /\ sessions' = sessions /\ jobs' = jobs
    BY DEF Local
  <2>3. QED
    BY <2>1, <2>2 DEF IInv, TypeOK, Local, TxRow, LockRow
<1>2. /\ \A u \in Meetings : CreateHolds(u)' /\ DrawnLast(u)'
      /\ \A d \in Commands : RestrictHolds(d)' /\ JobsAreCutoffs(d)' /\ JobsAreComplete(d)'
  BY <1>0, OthersKept
<1>3. OrderIsLatest'
  BY <1>0, OthersKept DEF OrderIsLatest
<1>4. QED
  BY <1>0, <1>1, <1>2, <1>3, OthersKept DEF IInv, Local

(* A participant is admitted: the next one, or the insert.                 *)
LEMMA AdmitKeeps ==
    ASSUME IInv, NEW m \in Meetings, Admit(m), UNCHANGED <<members, users, owner, bans>>,
           tx[m].step \in {"user", "owner_ban"},
           \A p, o \in People : <<p, o>> \in tx[m].owners => o \notin bans,
           \A r, md : Holds(m, r, md) => Holds(m, r, md)'
    PROVE  /\ tx' \in [Tx -> TxRow]
           /\ \A u \in Tx \ {m} : tx'[u] = tx[u]
           /\ tx'[m].n \in 1..Len(Roster[m]) /\ tx'[m].order = tx[m].order
           /\ CreateHolds(m)' /\ DrawnLast(m)'
<1>0. /\ tx \in [Tx -> TxRow] /\ tx[m] \in TxRow /\ m \in Tx
      /\ tx[m].n \in 1..Len(Roster[m]) /\ Len(Roster[m]) \in Nat
  BY Typed
<1>1. PICK n2 \in 1..Len(Roster[m]), st \in {"member", "insert"} :
        /\ tx' = [tx EXCEPT ![m] = [tx[m] EXCEPT !.n = n2, !.step = st]]
        /\ st = "member" => n2 = tx[m].n + 1
        /\ st = "insert" => n2 = tx[m].n /\ n2 = Len(Roster[m])
  <2>1. CASE tx[m].n < Len(Roster[m])
    <3>1. tx' = [tx EXCEPT ![m] = [tx[m] EXCEPT !.n = tx[m].n + 1, !.step = "member"]]
      BY <1>0, <2>1 DEF Admit
    <3>2. tx[m].n + 1 \in 1..Len(Roster[m])
      BY <1>0, <2>1
    <3>3. QED
      BY <3>1, <3>2
  <2>2. CASE ~(tx[m].n < Len(Roster[m]))
    <3>1. tx' = [tx EXCEPT ![m] = [tx[m] EXCEPT !.step = "insert"]]
      BY <1>0, <2>2 DEF Admit
    <3>2. [tx[m] EXCEPT !.step = "insert"] = [tx[m] EXCEPT !.n = tx[m].n, !.step = "insert"]
      BY <1>0 DEF TxRow
    <3>3. tx[m].n = Len(Roster[m])
      BY <1>0, <2>2
    <3>4. QED
      BY <1>0, <3>1, <3>2, <3>3
  <2>3. QED
    BY <2>1, <2>2
<1>2. /\ tx' \in [Tx -> TxRow]
      /\ \A u \in Tx \ {m} : tx'[u] = tx[u]
      /\ tx'[m].n = n2 /\ tx'[m].step = st
      /\ tx'[m].order = tx[m].order /\ tx'[m].owners = tx[m].owners
  <2>1. n2 \in Nat /\ st \in Step
    BY <1>0, <1>1 DEF Step
  <2>2. QED
    BY <1>0, <1>1, <2>1 DEF TxRow
<1>3. \A k \in 1..Len(Roster[m]) : Locked(m, k)' => Locked(m, k) /\ Checked(m, k)
  BY <1>0, <1>1, <1>2 DEF Locked, Checked
<1>4. CreateHolds(m)'
  <2>1. CreateHolds(m)
    BY DEF IInv
  <2>2. \A k \in 1..Len(Roster[m]) : Checked(m, k)' => Locked(m, k)'
    BY DEF Locked, Checked
  <2>3. QED
    BY <1>0, <1>1, <1>2, <1>3, <2>1, <2>2 DEF CreateHolds
<1>5. DrawnLast(m)'
  BY <1>2 DEF DrawnLast
<1>6. QED
  BY <1>1, <1>2, <1>4, <1>5

(* A step within the checks of one participant.                            *)
LEMMA CheckStepKeeps ==
    ASSUME IInv, NEW m \in Meetings, UNCHANGED <<members, users, owner, bans, order>>,
           tx' \in [Tx -> TxRow], tx'[m].n = tx[m].n, tx'[m].owners = tx[m].owners,
           tx'[m].step \notin {"insert", "commit"},
           tx[m].step # "owner_ban",
           \A r, md : Holds(m, r, md) => Holds(m, r, md)',
           \/ tx'[m].step = "member" /\ tx[m].step = "idle"
           \/ /\ tx'[m].step = "ban"
              /\ Holds(m, Member(Participant(m)), "share")' /\ Participant(m) \in members
           \/ tx'[m].step = "user" /\ tx[m].step = "ban" /\ Participant(m) \notin bans
           \/ tx'[m].step = "owner" /\ tx[m].step = "user"
    PROVE  CreateHolds(m)' /\ DrawnLast(m)'
<1>0. /\ tx[m].n \in 1..Len(Roster[m]) /\ Len(Roster[m]) \in Nat
      /\ Participant(m) = Roster[m][tx[m].n] /\ CreateHolds(m)
  BY Typed DEF IInv, Participant
<1>1. \A k \in 1..Len(Roster[m]) :
        Locked(m, k)' => \/ Locked(m, k)
                         \/ k = tx[m].n /\ tx'[m].step = "ban"
  BY <1>0 DEF Locked
<1>2. \A k \in 1..Len(Roster[m]) :
        Checked(m, k)' => Checked(m, k) \/ (k = tx[m].n /\ Participant(m) \notin bans)
  BY <1>0 DEF Checked
<1>3. CreateHolds(m)'
  <2>1. \A k \in 1..Len(Roster[m]) :
          Locked(m, k)' => /\ Holds(m, Member(Roster[m][k]), "share")'
                           /\ Roster[m][k] \in members'
    <3>1. tx'[m].step = "ban" =>
            /\ Holds(m, Member(Roster[m][tx[m].n]), "share")'
            /\ Roster[m][tx[m].n] \in members
      BY DEF Participant, Holds, Member
    <3>2. ASSUME NEW k \in 1..Len(Roster[m]), Locked(m, k)
          PROVE  Holds(m, Member(Roster[m][k]), "share")' /\ Roster[m][k] \in members
      BY <1>0, <3>2 DEF CreateHolds, Holds
    <3>3. QED
      BY <1>1, <3>1, <3>2 DEF Holds, Member
  <2>2. \A k \in 1..Len(Roster[m]) : Checked(m, k)' => Roster[m][k] \notin bans'
    BY <1>0, <1>2 DEF CreateHolds
  <2>3. \A p, o \in People : <<p, o>> \in tx'[m].owners =>
          /\ owner'[p] = o
          /\ Holds(m, User(o), "share")'
          /\ o \notin bans'
    BY <1>0 DEF CreateHolds
  <2>4. QED
    BY <2>1, <2>2, <2>3 DEF CreateHolds
<1>4. DrawnLast(m)'
  BY DEF DrawnLast
<1>5. QED
  BY <1>3, <1>4

(* Every step of a Create before its commit.                               *)
LEMMA CreateStepSound ==
    ASSUME IInv, NEW m \in Meetings,
           \/ create_meeting(m) \/ create_moderated_meeting(m)
           \/ lock_member(m) \/ has_active_ban(m)
           \/ lock_identity(m) \/ lock_typed_identity(m) \/ lock_owner(m)
           \/ has_active_owner_ban(m) \/ insert_session(m)
    PROVE  IInv'
<1>0. /\ tx \in [Tx -> TxRow] /\ tx[m] \in TxRow /\ m \in Tx /\ order \in Nat
      /\ order \in 0..MaxOrder /\ MaxOrder \in Nat
      /\ tx[m].n \in 1..Len(Roster[m]) /\ tx[m].order \in Nat /\ tx[m].order <= order
      /\ Participant(m) \in People /\ locks \subseteq LockRow
      /\ \A p \in People : Member(p) \in Row /\ User(p) \in Row
  <2>1. order \in 0..MaxOrder /\ tx[m].order <= order
    BY DEF IInv, TypeOK, OrderIsLatest
  <2>2. \A p \in People : Member(p) \in Row /\ User(p) \in Row
    BY DEF Member, User, Row
  <2>3. QED
    BY <2>1, <2>2, Typed, AdmissionAssumption DEF TxRow
<1>1. /\ UNCHANGED <<members, users, owner, bans, sessions, jobs>> /\ deliveries' = deliveries
      /\ order' = order \/ insert_session(m)
  BY DEF create_meeting, create_moderated_meeting, lock_member, has_active_ban, lock_identity,
         lock_typed_identity, lock_owner, has_active_owner_ban, insert_session, identity
<1>2. ASSUME order' = order, tx' \in [Tx -> TxRow], \A u \in Tx \ {m} : tx'[u] = tx[u],
             tx'[m].n \in 1..Len(Roster[m]), tx'[m].order = tx[m].order,
             locks' \subseteq LockRow, LocksExclude',
             \A u, r, md : Holds(u, r, md) => Holds(u, r, md)',
             CreateHolds(m)' /\ DrawnLast(m)'
      PROVE  IInv'
  <2>1. Local(m)
    BY <1>0, <1>1, <1>2 DEF Local
  <2>2. QED
    BY <1>0, <1>1, <1>2, <2>1, CreateStepKeeps
<1>3. ASSUME locks' = locks
      PROVE  /\ locks' \subseteq LockRow /\ LocksExclude'
             /\ \A u, r, md : Holds(u, r, md) => Holds(u, r, md)'
  BY <1>0, <1>3 DEF IInv, LocksExclude, Holds
<1>4. CASE create_meeting(m) \/ create_moderated_meeting(m)
  <2>1. /\ tx' \in [Tx -> TxRow] /\ \A u \in Tx \ {m} : tx'[u] = tx[u]
        /\ tx'[m].n = tx[m].n /\ tx'[m].order = tx[m].order /\ tx'[m].owners = tx[m].owners
        /\ tx'[m].step = "member"
    <3>1. CASE create_meeting(m)
      <4>1. Goto(m, "member") /\ "member" \in Step
        BY <3>1 DEF create_meeting, Step
      <4>2. QED
        BY <1>0, <4>1, GotoKeeps
    <3>2. CASE create_moderated_meeting(m)
      <4>1. tx' = [tx EXCEPT ![m] = [tx[m] EXCEPT !.step = "member", !.moderated = TRUE]]
        BY <1>0, <3>2 DEF create_moderated_meeting
      <4>2. "member" \in Step
        BY DEF Step
      <4>3. QED
        BY <1>0, <4>1, <4>2 DEF TxRow
    <3>3. QED
      BY <1>4, <3>1, <3>2
  <2>2. At(m, "idle") /\ locks' = locks /\ order' = order
    BY <1>4 DEF create_meeting, create_moderated_meeting
  <2>3. CreateHolds(m)' /\ DrawnLast(m)'
    BY <1>1, <1>3, <2>1, <2>2, CheckStepKeeps DEF At
  <2>4. QED
    BY <1>0, <1>2, <1>3, <2>1, <2>2, <2>3
<1>5. CASE lock_member(m)
  <2>1. /\ At(m, "member") /\ Participant(m) \in members /\ order' = order
        /\ Lock(m, Member(Participant(m)), "share") /\ Goto(m, "ban")
    BY <1>5 DEF lock_member
  <2>2. /\ tx' \in [Tx -> TxRow] /\ \A u \in Tx \ {m} : tx'[u] = tx[u]
        /\ tx'[m].n = tx[m].n /\ tx'[m].order = tx[m].order /\ tx'[m].owners = tx[m].owners
        /\ tx'[m].step = "ban"
    BY <1>0, <2>1, GotoKeeps DEF Step
  <2>3. /\ locks' \subseteq LockRow /\ LocksExclude'
        /\ \A u, r, md : Holds(u, r, md) => Holds(u, r, md)'
        /\ [tx |-> m, row |-> Member(Participant(m)), mode |-> "share"] \in locks'
    BY <1>0, <2>1, LockKeeps DEF Holds, Lock
  <2>4. Holds(m, Member(Participant(m)), "share")'
    BY <2>2, <2>3 DEF Holds, Member, Participant
  <2>5. CreateHolds(m)' /\ DrawnLast(m)'
    BY <1>1, <2>1, <2>2, <2>3, <2>4, CheckStepKeeps DEF At
  <2>6. QED
    BY <1>0, <1>2, <2>1, <2>2, <2>3, <2>5
<1>6. CASE has_active_ban(m)
  <2>1. /\ At(m, "ban") /\ Participant(m) \notin bans /\ order' = order
        /\ locks' = locks /\ Goto(m, "user")
    BY <1>6 DEF has_active_ban
  <2>2. /\ tx' \in [Tx -> TxRow] /\ \A u \in Tx \ {m} : tx'[u] = tx[u]
        /\ tx'[m].n = tx[m].n /\ tx'[m].order = tx[m].order /\ tx'[m].owners = tx[m].owners
        /\ tx'[m].step = "user"
    BY <1>0, <2>1, GotoKeeps DEF Step
  <2>3. CreateHolds(m)' /\ DrawnLast(m)'
    BY <1>1, <1>3, <2>1, <2>2, CheckStepKeeps DEF At
  <2>4. QED
    BY <1>0, <1>2, <1>3, <2>1, <2>2, <2>3
<1>7. CASE lock_identity(m) \/ lock_typed_identity(m)
  <2>1. /\ At(m, "user") /\ order' = order
        /\ LockIfPresent(m, Participant(m) \in users, User(Participant(m)), "share")
        /\ Goto(m, "owner") \/ Admit(m)
    BY <1>7 DEF lock_identity, lock_typed_identity, LockIfPresent
  <2>2. /\ locks' \subseteq LockRow /\ LocksExclude'
        /\ \A u, r, md : Holds(u, r, md) => Holds(u, r, md)'
    BY <1>0, <2>1, LockIfPresentKeeps
  <2>3. CASE Goto(m, "owner")
    <3>1. /\ tx' \in [Tx -> TxRow] /\ \A u \in Tx \ {m} : tx'[u] = tx[u]
          /\ tx'[m].n = tx[m].n /\ tx'[m].order = tx[m].order
          /\ tx'[m].owners = tx[m].owners /\ tx'[m].step = "owner"
      BY <1>0, <2>3, GotoKeeps DEF Step
    <3>2. CreateHolds(m)' /\ DrawnLast(m)'
      BY <1>1, <2>1, <2>2, <3>1, CheckStepKeeps DEF At
    <3>3. QED
      BY <1>0, <1>2, <2>1, <2>2, <3>1, <3>2
  <2>4. CASE Admit(m)
    <3>1. \A p, o \in People : <<p, o>> \in tx[m].owners => o \notin bans
      BY <2>1 DEF At, IInv, CreateHolds
    <3>2. /\ tx' \in [Tx -> TxRow]
          /\ \A u \in Tx \ {m} : tx'[u] = tx[u]
          /\ tx'[m].n \in 1..Len(Roster[m]) /\ tx'[m].order = tx[m].order
          /\ CreateHolds(m)' /\ DrawnLast(m)'
      BY <1>1, <2>1, <2>2, <2>4, <3>1, AdmitKeeps DEF At
    <3>3. QED
      BY <1>2, <2>1, <2>2, <3>2
  <2>5. QED
    BY <2>1, <2>3, <2>4
<1>8. CASE lock_owner(m)
  <2> DEFINE p == Participant(m)
             o == owner[p]
  <2>1. /\ At(m, "owner") /\ order' = order /\ o \in users
        /\ Lock(m, User(o), "share")
        /\ tx' = [tx EXCEPT ![m].step = "owner_ban", ![m].owners = @ \cup {<<p, o>>}]
    BY <1>8 DEF lock_owner
  <2>2. o \in People /\ p \in People
    BY <1>0, <2>1 DEF IInv, TypeOK
  <2>3. /\ locks' \subseteq LockRow /\ LocksExclude'
        /\ \A u, r, md : Holds(u, r, md) => Holds(u, r, md)'
        /\ [tx |-> m, row |-> User(o), mode |-> "share"] \in locks'
    BY <1>0, <2>1, <2>2, LockKeeps DEF Holds, Lock
  <2> HIDE DEF p, o
  <2>4. tx' = [tx EXCEPT ![m] = [tx[m] EXCEPT !.step = "owner_ban",
                                              !.owners = tx[m].owners \cup {<<p, o>>}]]
    BY <1>0, <2>1
  <2>5. /\ tx' \in [Tx -> TxRow] /\ \A u \in Tx \ {m} : tx'[u] = tx[u]
        /\ tx'[m].n = tx[m].n /\ tx'[m].order = tx[m].order
        /\ tx'[m].owners = tx[m].owners \cup {<<p, o>>} /\ tx'[m].step = "owner_ban"
    <3>1. tx[m].owners \cup {<<p, o>>} \in SUBSET (People \X People) /\ "owner_ban" \in Step
      BY <1>0, <2>2 DEF TxRow, Step
    <3>2. QED
      BY <1>0, <2>4, <3>1 DEF TxRow
  <2>6. Participant(m)' = Participant(m) /\ owner' = owner /\ bans' = bans /\ members' = members
    BY <1>1, <2>5 DEF Participant
  <2>7. \A k \in 1..Len(Roster[m]) : /\ Locked(m, k)' => Locked(m, k)
                                     /\ Checked(m, k)' => Checked(m, k)
    BY <2>1, <2>5 DEF Locked, Checked, At
  <2>8. CreateHolds(m)'
    <3>1. CreateHolds(m) /\ tx[m].step = "owner"
      BY <2>1 DEF IInv, At
    <3>2. \A q, a \in People : <<q, a>> \in tx[m].owners =>
            owner[q] = a /\ Holds(m, User(a), "share")' /\ a \notin bans
      BY <2>3, <3>1 DEF CreateHolds
    <3>3. owner[p] = o /\ owner[Participant(m)] = o
      BY DEF o, p
    <3>4. \A q, a \in People : <<q, a>> \in tx'[m].owners =>
            /\ owner'[q] = a
            /\ Holds(m, User(a), "share")'
            /\ a \in bans' => tx'[m].step = "owner_ban" /\ owner'[Participant(m)'] = a
      <4>1. SUFFICES ASSUME NEW q \in People, NEW a \in People, <<q, a>> \in tx'[m].owners
                     PROVE  /\ owner'[q] = a
                            /\ Holds(m, User(a), "share")'
                            /\ a \in bans' => tx'[m].step = "owner_ban"
                                              /\ owner'[Participant(m)'] = a
        BY <4>1
      <4>2. CASE <<q, a>> \in tx[m].owners
        BY <2>6, <3>2, <4>2
      <4>3. CASE q = p /\ a = o
        <5>1. Holds(m, User(a), "share")'
          BY <2>3, <4>3 DEF Holds, User
        <5>2. QED
          BY <2>5, <2>6, <3>3, <4>3, <5>1
      <4>4. QED
        BY <2>5, <4>1, <4>2, <4>3
    <3>5. \A k \in 1..Len(Roster[m]) :
            Locked(m, k)' => /\ Holds(m, Member(Roster[m][k]), "share")'
                             /\ Roster[m][k] \in members'
      BY <2>3, <2>6, <2>7, <3>1 DEF CreateHolds
    <3>6. \A k \in 1..Len(Roster[m]) : Checked(m, k)' => Roster[m][k] \notin bans'
      BY <2>6, <2>7, <3>1 DEF CreateHolds
    <3>7. QED
      BY <2>5, <3>4, <3>5, <3>6 DEF CreateHolds
  <2>9. DrawnLast(m)'
    BY <2>5 DEF DrawnLast
  <2>10. QED
    BY <1>0, <1>2, <2>1, <2>3, <2>5, <2>8, <2>9
<1>9. CASE has_active_owner_ban(m)
  <2>1. /\ At(m, "owner_ban") /\ owner[Participant(m)] \notin bans /\ order' = order
        /\ locks' = locks /\ Admit(m)
    BY <1>9 DEF has_active_owner_ban
  <2>2. \A p, o \in People : <<p, o>> \in tx[m].owners => o \notin bans
    BY <2>1 DEF IInv, CreateHolds
  <2>3. /\ tx' \in [Tx -> TxRow]
        /\ \A u \in Tx \ {m} : tx'[u] = tx[u]
        /\ tx'[m].n \in 1..Len(Roster[m]) /\ tx'[m].order = tx[m].order
        /\ CreateHolds(m)' /\ DrawnLast(m)'
    BY <1>1, <1>3, <2>1, <2>2, AdmitKeeps DEF At
  <2>4. QED
    BY <1>2, <1>3, <2>1, <2>3
<1>10. CASE insert_session(m)
  <2>1. /\ At(m, "insert") /\ order < MaxOrder /\ order' = order + 1 /\ locks' = locks
        /\ tx' = [tx EXCEPT ![m].step = "commit", ![m].order = order + 1]
    BY <1>10 DEF insert_session
  <2>2. tx' = [tx EXCEPT ![m] = [tx[m] EXCEPT !.step = "commit", !.order = order + 1]]
    BY <1>0, <2>1
  <2>3. /\ tx' \in [Tx -> TxRow] /\ \A u \in Tx \ {m} : tx'[u] = tx[u]
        /\ tx'[m].n = tx[m].n /\ tx'[m].order = order + 1
        /\ tx'[m].owners = tx[m].owners /\ tx'[m].step = "commit"
    <3>1. order + 1 \in Nat /\ "commit" \in Step
      BY <1>0 DEF Step
    <3>2. QED
      BY <1>0, <2>2, <3>1 DEF TxRow
  <2>4. Local(m)
    BY <1>0, <1>1, <1>3, <2>1, <2>3 DEF Local
  <2>5. \A k \in 1..Len(Roster[m]) : /\ Locked(m, k)' => Locked(m, k)
                                     /\ Checked(m, k)' => Checked(m, k)
    BY <2>1, <2>3 DEF Locked, Checked, At
  <2>6. CreateHolds(m)'
    <3>1. CreateHolds(m) /\ tx[m].step = "insert"
      BY <2>1 DEF IInv, At
    <3>2. QED
      BY <1>1, <1>3, <2>1, <2>3, <2>5, <3>1 DEF CreateHolds
  <2>7. DrawnLast(m)'
    <3>1. \A j \in jobs : j.order \in Nat /\ j.order <= order
      BY Typed DEF IInv, OrderIsLatest
    <3>2. \A j \in jobs' : j.order < tx'[m].order
      BY <1>0, <1>1, <2>3, <3>1
    <3>3. QED
      BY <3>2 DEF DrawnLast
  <2>8. QED
    BY <1>0, <1>1, <2>1, <2>3, <2>4, <2>6, <2>7, CreateStepKeeps
<1>11. QED
  BY <1>4, <1>5, <1>6, <1>7, <1>8, <1>9, <1>10

(* The arrival of a command and its locks.                                 *)
LEMMA RestrictLockSound ==
    ASSUME IInv, NEW c \in Commands,
           \/ deliver(c) \/ acquire_membership_write_lock(c)
           \/ ban_lock_member(c) \/ ban_lock_user(c) \/ delete_member(c)
    PROVE  IInv'
<1>0. /\ tx \in [Tx -> TxRow] /\ tx[c] \in TxRow /\ c \in Tx
      /\ order \in 0..MaxOrder /\ order \in Nat /\ MaxOrder \in Nat
      /\ Target[c] \in People /\ locks \subseteq LockRow
      /\ Member(Target[c]) \in Row /\ User(Target[c]) \in Row /\ Community \in Row
      /\ deliveries \in [Commands -> 0..MaxDeliveries]
      /\ RestrictHolds(c) /\ JobsAreCutoffs(c)
  <2>1. order \in 0..MaxOrder /\ deliveries \in [Commands -> 0..MaxDeliveries]
    BY DEF IInv, TypeOK
  <2>2. Community \in Row /\ \A p \in People : Member(p) \in Row /\ User(p) \in Row
    BY DEF Member, User, Row
  <2>3. QED
    BY <2>1, <2>2, Typed, AdmissionAssumption DEF IInv
<1>1. /\ UNCHANGED <<members, users, owner, bans, sessions, jobs>> /\ order' = order
  BY DEF deliver, acquire_membership_write_lock, ban_lock_member, ban_lock_user,
         delete_member, identity
(* No step here makes a job, so the clauses about jobs hold trivially.     *)
<1>2. ASSUME NEW st \in {"community", "member", "user", "enqueue"}, Goto(c, st),
             tx[c].step \in {"idle", "community", "member", "user"},
             locks' \subseteq LockRow, LocksExclude',
             \A u, r, md : Holds(u, r, md) => Holds(u, r, md)',
             deliveries' \in [Commands -> 0..MaxDeliveries], RestrictHolds(c)',
             OnceMeansFresh'
      PROVE  IInv'
  <2>1. st \in Step
    BY DEF Step
  <2>2. /\ tx' \in [Tx -> TxRow] /\ \A u \in Tx \ {c} : tx'[u] = tx[u]
        /\ tx'[c].step = st /\ tx'[c].jobs = tx[c].jobs
    BY <1>0, <1>2, <2>1, GotoKeeps
  <2>3. tx[c].jobs = {}
    BY <1>0, <1>2 DEF JobsAreCutoffs
  <2>4. Local(c)
    BY <1>0, <1>1, <1>2, <2>2 DEF Local
  <2>5. JobsAreCutoffs(c)' /\ JobsAreComplete(c)'
    BY <2>2, <2>3 DEF JobsAreCutoffs, JobsAreComplete
  <2>6. QED
    BY <1>2, <2>4, <2>5, RestrictStepKeeps
<1>3. ASSUME NEW st \in {"community", "member", "user", "enqueue"}, Goto(c, st),
             deliveries' = deliveries, tx[c].step # "idle"
      PROVE  OnceMeansFresh'
  <2>1. st \in Step /\ st # "idle"
    BY DEF Step
  <2>2. \A d \in Commands : d \in Tx
    BY Typed
  <2>3. \A d \in Commands : tx'[d].step # "idle" => tx[d].step # "idle"
    BY <1>0, <1>3, <2>1, <2>2, GotoKeeps
  <2>4. \A d : Fresh(d)' = Fresh(d)
    BY <1>1 DEF Fresh
  <2>5. QED
    BY <1>3, <2>3, <2>4 DEF IInv, OnceMeansFresh
<1>4. CASE deliver(c)
  <2>1. /\ At(c, "idle") /\ deliveries[c] < MaxDeliveries /\ locks' = locks
        /\ deliveries' = [deliveries EXCEPT ![c] = @ + 1] /\ Goto(c, "community")
    BY <1>4 DEF deliver
  <2>2. /\ deliveries' \in [Commands -> 0..MaxDeliveries]
        /\ \A d \in Commands \ {c} : deliveries'[d] = deliveries[d]
        /\ deliveries'[c] = deliveries[c] + 1
    BY <1>0, <2>1, AdmissionAssumption
  <2>3. /\ \A d \in Commands \ {c} : tx'[d] = tx[d]
        /\ tx'[c].step = "community"
    BY <1>0, <2>1, GotoKeeps, Typed DEF Step
  <2>4. OnceMeansFresh'
    <3>1. \A d : Fresh(d)' = Fresh(d)
      BY <1>1 DEF Fresh
    <3>2. MaxDeliveries = 1 => deliveries[c] = 0
      BY <1>0, <2>1
    <3>3. QED
      BY <2>2, <2>3, <3>1, <3>2 DEF IInv, OnceMeansFresh
  <2>5. RestrictHolds(c)'
    BY <2>3 DEF RestrictHolds
  <2>6. /\ locks' \subseteq LockRow /\ LocksExclude'
        /\ \A u, r, md : Holds(u, r, md) => Holds(u, r, md)'
    BY <1>0, <2>1 DEF IInv, LocksExclude, Holds
  <2>7. QED
    BY <1>2, <2>1, <2>2, <2>4, <2>5, <2>6 DEF At
<1>5. CASE acquire_membership_write_lock(c)
  <2>1. /\ At(c, "community") /\ Lock(c, Community, "exclusive") /\ Goto(c, "member")
        /\ deliveries' = deliveries
    BY <1>5 DEF acquire_membership_write_lock
  <2>2. /\ locks' \subseteq LockRow /\ LocksExclude'
        /\ \A u, r, md : Holds(u, r, md) => Holds(u, r, md)'
        /\ Holds(c, Community, "exclusive")'
    BY <1>0, <2>1, LockKeeps
  <2>3. tx'[c].step = "member"
    BY <1>0, <2>1, GotoKeeps DEF Step
  <2>4. RestrictHolds(c)'
    BY <2>2, <2>3 DEF RestrictHolds
  <2>5. OnceMeansFresh'
    BY <1>3, <2>1 DEF At
  <2>6. QED
    BY <1>0, <1>2, <2>1, <2>2, <2>4, <2>5 DEF At
<1>6. CASE ban_lock_member(c)
  <2>1. /\ At(c, "member") /\ c \in Bans /\ c \notin Removals /\ Goto(c, "user")
        /\ LockIfPresent(c, Target[c] \in members, Member(Target[c]), "exclusive")
        /\ deliveries' = deliveries
    BY <1>6, AdmissionAssumption DEF ban_lock_member
  <2>2. /\ locks' \subseteq LockRow /\ LocksExclude'
        /\ \A u, r, md : Holds(u, r, md) => Holds(u, r, md)'
        /\ Target[c] \in members => Holds(c, Member(Target[c]), "exclusive")'
    BY <1>0, <2>1, LockIfPresentKeeps
  <2>3. tx'[c].step = "user"
    BY <1>0, <2>1, GotoKeeps DEF Step
  <2>4. RestrictHolds(c)'
    BY <1>0, <1>1, <2>1, <2>2, <2>3 DEF RestrictHolds, At
  <2>5. OnceMeansFresh'
    BY <1>3, <2>1 DEF At
  <2>6. QED
    BY <1>0, <1>2, <2>1, <2>2, <2>4, <2>5 DEF At
<1>7. CASE ban_lock_user(c)
  <2>1. /\ At(c, "user") /\ c \in Bans /\ c \notin Removals /\ Goto(c, "enqueue")
        /\ LockIfPresent(c, Target[c] \in users, User(Target[c]), "exclusive")
        /\ deliveries' = deliveries
    BY <1>7, AdmissionAssumption DEF ban_lock_user
  <2>2. /\ locks' \subseteq LockRow /\ LocksExclude'
        /\ \A u, r, md : Holds(u, r, md) => Holds(u, r, md)'
        /\ Target[c] \in users => Holds(c, User(Target[c]), "exclusive")'
    BY <1>0, <2>1, LockIfPresentKeeps
  <2>3. tx'[c].step = "enqueue"
    BY <1>0, <2>1, GotoKeeps DEF Step
  <2>4. Target[c] \notin users => \A a \in People : owner[a] # Target[c]
    BY <1>0, Typed DEF IInv, OwnersAreUsers
  <2>5. RestrictHolds(c)'
    BY <1>0, <1>1, <2>1, <2>2, <2>3, <2>4 DEF RestrictHolds, At
  <2>6. OnceMeansFresh'
    BY <1>3, <2>1 DEF At
  <2>7. QED
    BY <1>0, <1>2, <2>1, <2>2, <2>5, <2>6 DEF At
<1>8. CASE delete_member(c)
  <2>1. /\ At(c, "member") /\ c \in Removals /\ c \notin Bans /\ Goto(c, "enqueue")
        /\ Lock(c, Member(Target[c]), "exclusive")
        /\ deliveries' = deliveries
    BY <1>8, AdmissionAssumption DEF delete_member
  <2>2. /\ locks' \subseteq LockRow /\ LocksExclude'
        /\ \A u, r, md : Holds(u, r, md) => Holds(u, r, md)'
        /\ Holds(c, Member(Target[c]), "exclusive")'
    BY <1>0, <2>1, LockKeeps
  <2>3. tx'[c].step = "enqueue"
    BY <1>0, <2>1, GotoKeeps DEF Step
  <2>4. RestrictHolds(c)'
    BY <1>0, <1>1, <2>1, <2>2, <2>3 DEF RestrictHolds, At
  <2>5. OnceMeansFresh'
    BY <1>3, <2>1 DEF At
  <2>6. QED
    BY <1>0, <1>2, <2>1, <2>2, <2>4, <2>5 DEF At
<1>9. QED
  BY <1>4, <1>5, <1>6, <1>7, <1>8

(* A job that is enqueued lies after every committed Meeting.              *)
LEMMA EnqueueSound ==
    ASSUME IInv, NEW c \in Commands, enqueue_target(c) \/ enqueue_agents(c)
    PROVE  IInv'
<1>0. /\ tx \in [Tx -> TxRow] /\ tx[c] \in TxRow /\ c \in Tx
      /\ order \in 0..MaxOrder /\ order \in Nat /\ MaxOrder \in Nat
      /\ Target[c] \in People /\ locks \subseteq LockRow
      /\ deliveries \in [Commands -> 0..MaxDeliveries]
      /\ RestrictHolds(c) /\ JobsAreCutoffs(c) /\ JobsAreComplete(c)
      /\ \A j \in tx[c].jobs : j \in Job /\ j.order \in Nat
  <2>1. order \in 0..MaxOrder /\ deliveries \in [Commands -> 0..MaxDeliveries]
    BY DEF IInv, TypeOK
  <2>2. tx[c] \in TxRow
    BY Typed
  <2>3. \A j \in tx[c].jobs : j \in Job /\ j.order \in Nat
    BY <2>2 DEF TxRow, Job
  <2>4. QED
    BY <2>1, <2>2, <2>3, Typed, AdmissionAssumption DEF IInv
<1>1. /\ UNCHANGED <<members, users, owner, bans, sessions, jobs>>
      /\ locks' = locks /\ deliveries' = deliveries
  BY DEF enqueue_target, enqueue_agents, identity
<1>2. /\ locks' \subseteq LockRow /\ LocksExclude'
      /\ \A u, r, md : Holds(u, r, md)' = Holds(u, r, md)
      /\ \A d : Fresh(d)' = Fresh(d)
  BY <1>0, <1>1 DEF IInv, LocksExclude, Holds, Fresh
<1>3. ASSUME tx' \in [Tx -> TxRow], \A u \in Tx \ {c} : tx'[u] = tx[u],
             order' \in 0..MaxOrder, order' >= order,
             tx[c].step # "idle",
             RestrictHolds(c)', JobsAreCutoffs(c)', JobsAreComplete(c)'
      PROVE  IInv'
  <2>1. Local(c)
    BY <1>1, <1>2, <1>3 DEF Local
  <2>2. \A d \in Commands : d \in Tx /\ (tx'[d].step # "idle" => tx[d].step # "idle")
    BY <1>3, Typed
  <2>3. OnceMeansFresh'
    BY <1>1, <1>2, <2>2 DEF IInv, OnceMeansFresh
  <2>4. QED
    BY <1>0, <1>1, <1>3, <2>1, <2>3, RestrictStepKeeps
(* The row of a person the command may revoke.                             *)
<1>4. ASSUME NEW p \in People, order < MaxOrder, order' = order + 1,
             NEW st \in {"enqueue_agents", "commit"},
             p = Target[c] \/ (c \in Bans /\ owner[p] = Target[c]),
             tx'[c].jobs = enqueue_revocation_job(c, p),
             tx'[c].step = st
      PROVE  /\ enqueue_revocation_job(c, p) \in SUBSET Job
             /\ JobsAreCutoffs(c)'
             /\ \A j \in tx[c].jobs : j \in tx'[c].jobs
             /\ Fresh(c) => \E j \in tx'[c].jobs : j.pubkey = p
  <2> DEFINE job == [event |-> <<c, p>>, pubkey |-> p, order |-> order + 1]
  <2>1. job \in Job /\ job.event = <<c, p>> /\ job.pubkey = p /\ job.order = order + 1
    BY <1>0, <1>4 DEF Job
  <2>2. enqueue_revocation_job(c, p) =
          IF ~\E j \in jobs : j.event = <<c, p>> THEN tx[c].jobs \cup {job} ELSE tx[c].jobs
    BY <2>1 DEF enqueue_revocation_job
  <2> HIDE DEF job
  <2>3. /\ enqueue_revocation_job(c, p) \subseteq tx[c].jobs \cup {job}
        /\ tx[c].jobs \subseteq enqueue_revocation_job(c, p)
    BY <2>2
  <2>4. Fresh(c) => job \in enqueue_revocation_job(c, p)
    <3>1. ASSUME Fresh(c), NEW j \in jobs, j.event = <<c, p>> PROVE FALSE
      BY <3>1 DEF Fresh
    <3>2. QED
      BY <2>2, <3>1
  <2>5. ASSUME NEW j \in tx'[c].jobs
        PROVE  /\ j.event = <<c, j.pubkey>> /\ j.order <= order'
               /\ j.pubkey = Target[c] \/ (c \in Bans /\ owner'[j.pubkey] = Target[c])
               /\ \A s \in sessions' :
                    j.pubkey \in Participants(s.meeting) /\ Concerns(c, j.pubkey, s.owners) =>
                        j.order > s.order
    <3>1. CASE j \in tx[c].jobs
      BY <1>0, <1>1, <1>4, <3>1 DEF JobsAreCutoffs
    <3>2. CASE j = job
      <4>1. \A s \in sessions : s.order \in Nat /\ s.order <= order
        BY Typed DEF IInv, OrderIsLatest
      <4>2. QED
        BY <1>0, <1>1, <1>4, <2>1, <3>2, <4>1
    <3>3. QED
      BY <1>4, <2>3, <2>5, <3>1, <3>2
  <2>6. JobsAreCutoffs(c)'
    BY <1>4, <2>5 DEF JobsAreCutoffs, Concerns
  <2>7. QED
    BY <1>0, <1>4, <2>1, <2>3, <2>4, <2>6
<1>5. CASE enqueue_target(c)
  <2> DEFINE st == IF c \in Bans THEN "enqueue_agents" ELSE "commit"
             js == enqueue_revocation_job(c, Target[c])
  <2>1. /\ At(c, "enqueue") /\ order < MaxOrder /\ order' = order + 1
        /\ tx' = [tx EXCEPT ![c].jobs = js, ![c].step = st]
    BY <1>5 DEF enqueue_target
  <2>2. st \in {"enqueue_agents", "commit"} /\ (c \in Bans => st = "enqueue_agents")
        /\ (c \notin Bans => st = "commit") /\ st \in Step
    BY DEF Step
  <2> HIDE DEF st, js
  <2>3. tx' = [tx EXCEPT ![c] = [tx[c] EXCEPT !.jobs = js, !.step = st]]
    BY <1>0, <2>1
  <2>4. tx'[c].jobs = js /\ tx'[c].step = st
    BY <1>0, <2>3 DEF TxRow
  <2>5. /\ js \in SUBSET Job
        /\ JobsAreCutoffs(c)'
        /\ Fresh(c) => \E j \in tx'[c].jobs : j.pubkey = Target[c]
    BY <1>0, <1>4, <2>1, <2>2, <2>4 DEF js
  <2>6. tx' \in [Tx -> TxRow] /\ \A u \in Tx \ {c} : tx'[u] = tx[u]
    BY <1>0, <2>2, <2>3, <2>5 DEF TxRow
  <2>7. RestrictHolds(c)'
    BY <1>0, <1>1, <1>2, <2>1, <2>2, <2>4 DEF RestrictHolds, At
  <2>8. JobsAreComplete(c)'
    BY <1>2, <2>2, <2>4, <2>5 DEF JobsAreComplete
  <2>9. order' \in 0..MaxOrder /\ order' >= order
    BY <1>0, <2>1
  <2>10. QED
    BY <1>3, <2>1, <2>5, <2>6, <2>7, <2>8, <2>9 DEF At
<1>6. CASE enqueue_agents(c)
  <2> DEFINE rest == {a \in OwnedAgents(Target[c]) : ~Enqueued(c, a)}
  <2>0. At(c, "enqueue_agents") /\ c \in Bans /\ c \notin Removals
    BY <1>0, <1>6, AdmissionAssumption DEF enqueue_agents, RestrictHolds, At
  <2>1. CASE rest = {}
    <3>1. Goto(c, "commit") /\ order' = order
      BY <1>6, <2>1 DEF enqueue_agents
    <3>2. /\ tx' \in [Tx -> TxRow] /\ \A u \in Tx \ {c} : tx'[u] = tx[u]
          /\ tx'[c].step = "commit" /\ tx'[c].jobs = tx[c].jobs
      BY <1>0, <3>1, GotoKeeps DEF Step
    <3>3. RestrictHolds(c)'
      BY <1>0, <1>1, <1>2, <2>0, <3>2 DEF RestrictHolds, At
    <3>4. JobsAreCutoffs(c)'
      BY <1>0, <1>1, <2>0, <3>1, <3>2 DEF JobsAreCutoffs, At, Concerns
    <3>5. ASSUME Fresh(c), NEW a \in People, owner[a] = Target[c]
          PROVE  \E j \in tx[c].jobs : j.pubkey = a
      <4>1. a \in users
        BY <1>0, <3>5, Typed DEF IInv, OwnersAreUsers
      <4>2. Enqueued(c, a)
        BY <2>1, <3>5, <4>1 DEF OwnedAgents
      <4>3. PICK j \in tx[c].jobs \cup jobs : j.event = <<c, a>>
        BY <4>2 DEF Enqueued
      <4>4. j.event[1] = c
        BY <4>3
      <4>5. j \in tx[c].jobs
        BY <3>5, <4>4 DEF Fresh
      <4>6. j.event = <<c, j.pubkey>>
        BY <1>0, <4>5 DEF JobsAreCutoffs
      <4>7. QED
        BY <4>3, <4>5, <4>6
    <3>6. JobsAreComplete(c)'
      BY <1>0, <1>1, <1>2, <2>0, <3>2, <3>5 DEF JobsAreComplete, At
    <3>7. QED
      BY <1>0, <1>3, <2>0, <3>1, <3>2, <3>3, <3>4, <3>6 DEF At
  <2>2. CASE rest # {}
    <3>1. PICK a \in rest : tx' = [tx EXCEPT ![c].jobs = enqueue_revocation_job(c, a)]
      BY <1>6, <2>2 DEF enqueue_agents
    <3>2. order < MaxOrder /\ order' = order + 1
      BY <1>6, <2>2 DEF enqueue_agents
    <3> DEFINE js == enqueue_revocation_job(c, a)
    <3>3. a \in People /\ owner[a] = Target[c]
      BY DEF OwnedAgents, IInv, TypeOK
    <3>4. tx' = [tx EXCEPT ![c] = [tx[c] EXCEPT !.jobs = js]]
      BY <1>0, <3>1
    <3> HIDE DEF js
    <3>5. tx'[c].jobs = js /\ tx'[c].step = "enqueue_agents"
      BY <1>0, <2>0, <3>4 DEF TxRow, At
    <3>6. /\ js \in SUBSET Job
          /\ JobsAreCutoffs(c)'
          /\ \A j \in tx[c].jobs : j \in tx'[c].jobs
      BY <1>4, <2>0, <3>2, <3>3, <3>5 DEF js
    <3>7. tx' \in [Tx -> TxRow] /\ \A u \in Tx \ {c} : tx'[u] = tx[u]
      BY <1>0, <3>4, <3>6 DEF TxRow
    <3>8. RestrictHolds(c)'
      BY <1>0, <1>1, <1>2, <2>0, <3>5 DEF RestrictHolds, At
    <3>9. JobsAreComplete(c)'
      BY <1>0, <1>2, <2>0, <3>5, <3>6 DEF JobsAreComplete, At
    <3>10. order' \in 0..MaxOrder /\ order' >= order
      BY <1>0, <3>2
    <3>11. QED
      BY <1>3, <2>0, <3>6, <3>7, <3>8, <3>9, <3>10 DEF At
  <2>3. QED
    BY <2>1, <2>2
<1>7. QED
  BY <1>5, <1>6

(* A transaction that ends without a commit.                               *)
LEMMA RollbackSound ==
    ASSUME IInv, NEW t \in Tx, rollback(t)
    PROVE  IInv'
<1>1. /\ Finish(t) /\ tx[t].step # "idle"
      /\ UNCHANGED <<members, users, owner, bans, sessions, jobs, order>>
      /\ deliveries' = deliveries
  BY DEF rollback, identity, At
<1>2. /\ tx' \in [Tx -> TxRow] /\ tx'[t] = Idle
      /\ \A u \in Tx \ {t} : tx'[u] = tx[u]
      /\ locks' \subseteq LockRow /\ LocksExclude'
      /\ \A u \in Tx \ {t} : \A r, md : Holds(u, r, md) => Holds(u, r, md)'
  BY <1>1, FinishKeeps
<1>3. order \in 0..MaxOrder /\ order \in Nat
      /\ deliveries \in [Commands -> 0..MaxDeliveries]
  BY Typed DEF IInv, TypeOK
<1>4. Local(t)
  BY <1>1, <1>2, <1>3 DEF Local
<1>5. /\ tx'[t].step = "idle" /\ tx'[t].n = 1 /\ tx'[t].order = 0
      /\ tx'[t].owners = {} /\ tx'[t].jobs = {}
  BY <1>2 DEF Idle
<1>6. CASE t \in Meetings
  <2>1. 1 \in 1..Len(Roster[t])
    <3>1. Roster[t] \in Seq(People) /\ Roster[t] # << >>
      BY <1>6, AdmissionAssumption
    <3>2. QED
      BY <3>1
  <2>2. CreateHolds(t)' /\ DrawnLast(t)'
    BY <1>5 DEF CreateHolds, DrawnLast, Locked, Checked
  <2>3. QED
    BY <1>1, <1>3, <1>4, <1>5, <1>6, <2>1, <2>2, CreateStepKeeps
<1>7. CASE t \in Commands
  <2>1. RestrictHolds(t)' /\ JobsAreCutoffs(t)' /\ JobsAreComplete(t)'
    BY <1>5 DEF RestrictHolds, JobsAreCutoffs, JobsAreComplete
  <2>2. OnceMeansFresh'
    <3>1. \A d \in Commands : d \in Tx /\ (tx'[d].step # "idle" => tx[d].step # "idle")
      BY <1>2, <1>5, Typed
    <3>2. \A d : Fresh(d)' = Fresh(d)
      BY <1>1 DEF Fresh
    <3>3. QED
      BY <1>1, <3>1, <3>2 DEF IInv, OnceMeansFresh
  <2>3. QED
    BY <1>1, <1>3, <1>4, <1>7, <2>1, <2>2, RestrictStepKeeps
<1>8. QED
  BY <1>6, <1>7 DEF Tx

(* The Meeting of a Create that commits: nobody in it is restricted, and   *)
(* no command under way concerns it.                                       *)
LEMMA NewSessionSound ==
    ASSUME IInv, NEW m \in Meetings, tx[m].step = "commit",
           NEW s, s = [meeting |-> m, order |-> tx[m].order, owners |-> tx[m].owners]
    PROVE  /\ s \in Session /\ s.order <= order
           /\ \A p, o \in People : <<p, o>> \in s.owners => owner[p] = o
           /\ \A p \in Participants(m) : ~Restricted(s, p)
           /\ \A c \in Commands : \A j \in tx[c].jobs :
                ~(j.pubkey \in Participants(m) /\ Concerns(c, j.pubkey, s.owners))
           /\ \A j \in jobs :
                j.pubkey \in Participants(m) /\ Concerns(j.event[1], j.pubkey, s.owners) =>
                    j.order < s.order
<1>0. /\ s.meeting = m /\ s.order = tx[m].order /\ s.owners = tx[m].owners
      /\ CreateHolds(m) /\ tx[m] \in TxRow /\ tx[m].n = Len(Roster[m])
      /\ tx[m].owners \in SUBSET (People \X People) /\ tx[m].order \in Nat
  <2>1. tx[m] \in TxRow
    BY Typed
  <2>2. QED
    BY <2>1 DEF IInv, CreateHolds, TxRow
<1>1. s \in Session /\ s.order <= order
  BY <1>0 DEF Session, IInv, OrderIsLatest
<1>2. \A p, o \in People : <<p, o>> \in s.owners => owner[p] = o /\ o \notin bans
  BY <1>0 DEF CreateHolds
<1>3. \A k \in 1..Len(Roster[m]) : Locked(m, k) /\ Checked(m, k)
  BY <1>0, Typed DEF Locked, Checked
<1>4. \A p \in Participants(m) : p \in members /\ p \notin bans /\ p \in People
  <2>1. \A k \in 1..Len(Roster[m]) : Roster[m][k] \in members /\ Roster[m][k] \notin bans
    BY <1>0, <1>3 DEF CreateHolds
  <2>2. members \subseteq People
    BY DEF IInv, TypeOK
  <2>3. QED
    BY <2>1, <2>2 DEF Participants
<1>5. \A p \in Participants(m) : ~Restricted(s, p)
  <2>1. bans \subseteq People
    BY DEF IInv, TypeOK
  <2>2. QED
    BY <1>2, <1>4, <2>1 DEF Restricted
<1>6. ASSUME NEW c \in Commands, NEW j \in tx[c].jobs,
             j.pubkey \in Participants(m), Concerns(c, j.pubkey, s.owners)
      PROVE  FALSE
  <2>1. /\ tx[c].step \in {"enqueue_agents", "commit"}
        /\ j.pubkey = Target[c] \/ (c \in Bans /\ owner[j.pubkey] = Target[c])
    BY DEF IInv, JobsAreCutoffs
  <2>2. /\ \A k \in 1..Len(Roster[m]) : Roster[m][k] # Target[c]
        /\ c \in Bans => \A p \in People : <<p, Target[c]>> \notin tx[m].owners
    BY <1>3, <2>1, Serialised
  <2>3. j.pubkey # Target[c]
    BY <1>6, <2>2 DEF Participants
  <2>4. QED
    BY <1>0, <1>4, <1>6, <2>1, <2>2, <2>3 DEF Concerns
<1>7. \A j \in jobs :
        j.pubkey \in Participants(m) /\ Concerns(j.event[1], j.pubkey, s.owners) =>
            j.order < s.order
  BY <1>0 DEF IInv, DrawnLast
<1>8. QED
  BY <1>1, <1>2, <1>5, <1>6, <1>7

(* The commit of a Create.                                                 *)
LEMMA CommitCreateSound ==
    ASSUME IInv, NEW m \in Meetings, commit_create(m)
    PROVE  IInv'
<1> DEFINE s == [meeting |-> m, order |-> tx[m].order, owners |-> tx[m].owners]
<1>1. /\ tx[m].step = "commit" /\ sessions' = sessions \cup {s} /\ Finish(m)
      /\ members' = members /\ users' = users /\ owner' = owner /\ bans' = bans
      /\ jobs' = jobs /\ order' = order /\ deliveries' = deliveries
  BY DEF commit_create, identity, At
<1>2. /\ s \in Session /\ s.order <= order
      /\ \A p, o \in People : <<p, o>> \in s.owners => owner[p] = o
      /\ \A p \in Participants(m) : ~Restricted(s, p)
      /\ \A c \in Commands : \A j \in tx[c].jobs :
           ~(j.pubkey \in Participants(m) /\ Concerns(c, j.pubkey, s.owners))
  BY <1>1, NewSessionSound
<1>3. s.meeting = m
  OBVIOUS
<1> HIDE DEF s
<1>4. m \in Tx /\ m \notin Commands
  BY AdmissionAssumption DEF Tx
<1>5. /\ tx' \in [Tx -> TxRow] /\ tx'[m] = Idle
      /\ \A u \in Tx \ {m} : tx'[u] = tx[u]
      /\ locks' \subseteq LockRow /\ LocksExclude'
      /\ \A u \in Tx \ {m} : \A r, md : Holds(u, r, md) => Holds(u, r, md)'
  BY <1>1, <1>4, FinishKeeps
<1>6. /\ tx'[m].step = "idle" /\ tx'[m].n = 1 /\ tx'[m].order = 0
      /\ tx'[m].owners = {} /\ tx'[m].jobs = {}
  BY <1>5 DEF Idle
<1>7. 1 \in 1..Len(Roster[m])
  <2>1. Roster[m] \in Seq(People) /\ Roster[m] # << >>
    BY AdmissionAssumption
  <2>2. QED
    BY <2>1
<1>8. TypeOK'
  <2>1. \A u \in Meetings : tx'[u].n \in 1..Len(Roster[u])
    BY <1>5, <1>6, <1>7, Typed
  <2>2. sessions' \subseteq Session
    BY <1>1, <1>2 DEF IInv, TypeOK
  <2>3. QED
    BY <1>1, <1>5, <2>1, <2>2 DEF IInv, TypeOK, TxRow, LockRow
<1>9. ASSUME NEW u \in Meetings PROVE CreateHolds(u)' /\ DrawnLast(u)'
  <2>1. CASE u = m
    BY <1>6, <2>1 DEF CreateHolds, DrawnLast, Locked, Checked
  <2>2. CASE u # m
    <3>1. tx'[u] = tx[u] /\ CreateHolds(u) /\ DrawnLast(u)
          /\ \A r, md : Holds(u, r, md) => Holds(u, r, md)'
      BY <1>5, <2>2, Typed DEF IInv
    <3>2. Participant(u)' = Participant(u)
      BY <3>1 DEF Participant
    <3>3. \A k : Locked(u, k)' = Locked(u, k) /\ Checked(u, k)' = Checked(u, k)
      BY <3>1 DEF Locked, Checked
    <3>4. CreateHolds(u)'
      BY <1>1, <3>1, <3>2, <3>3 DEF CreateHolds
    <3>5. DrawnLast(u)'
      BY <1>1, <3>1 DEF DrawnLast
    <3>6. QED
      BY <3>4, <3>5
  <2>3. QED
    BY <2>1, <2>2
<1>10. \A c : Fresh(c)' = Fresh(c)
  BY <1>1 DEF Fresh
<1>11. ASSUME NEW c \in Commands
       PROVE  RestrictHolds(c)' /\ JobsAreCutoffs(c)' /\ JobsAreComplete(c)'
  <2>1. tx'[c] = tx[c] /\ RestrictHolds(c) /\ JobsAreCutoffs(c) /\ JobsAreComplete(c)
        /\ \A r, md : Holds(c, r, md) => Holds(c, r, md)'
    BY <1>4, <1>5, Typed DEF IInv
  <2>2. RestrictHolds(c)'
    BY <1>1, <2>1 DEF RestrictHolds
  <2>3. JobsAreCutoffs(c)'
    BY <1>1, <1>2, <1>3, <2>1 DEF JobsAreCutoffs, Concerns
  <2>4. JobsAreComplete(c)'
    BY <1>1, <1>10, <2>1 DEF JobsAreComplete
  <2>5. QED
    BY <2>2, <2>3, <2>4
<1>12. OnceMeansFresh'
  <2>1. \A c \in Commands : tx'[c] = tx[c]
    BY <1>4, <1>5, Typed
  <2>2. QED
    BY <1>1, <1>10, <2>1 DEF IInv, OnceMeansFresh
<1>13. OrderIsLatest'
  <2>1. \A u \in Meetings : tx'[u].order <= order'
    BY <1>1, <1>5, <1>6, Typed DEF IInv, OrderIsLatest
  <2>2. QED
    BY <1>1, <1>2, <2>1 DEF IInv, OrderIsLatest
<1>14. OwnersAreUsers' /\ OwnersAreRecorded'
  BY <1>1, <1>2 DEF IInv, OwnersAreUsers, OwnersAreRecorded
<1>15. MaxDeliveries = 1 => JobsCoverRosters'
  <2>1. \A r, p : Restricted(r, p)' = Restricted(r, p) /\ Covered(r, p)' = Covered(r, p)
    BY <1>1 DEF Restricted, Covered
  <2>2. QED
    BY <1>1, <1>2, <1>3, <2>1 DEF IInv, JobsCoverRosters
<1>16. QED
  BY <1>5, <1>8, <1>9, <1>11, <1>12, <1>13, <1>14, <1>15 DEF IInv

(* The commit of a command: no Create under way validated its target, and  *)
(* every Meeting it concerns lies before one of its jobs.                  *)
LEMMA CommitRestrictionSound ==
    ASSUME IInv, NEW c \in Commands, commit_restriction(c)
    PROVE  IInv'
<1>1. /\ tx[c].step = "commit" /\ Finish(c)
      /\ jobs' = jobs \cup tx[c].jobs
      /\ bans' = IF c \in Bans THEN bans \cup {Target[c]} ELSE bans
      /\ members' = IF c \in Removals THEN members \ {Target[c]} ELSE members
      /\ users' = users /\ owner' = owner /\ order' = order
      /\ sessions' = sessions /\ deliveries' = deliveries
  BY DEF commit_restriction, At
<1>2. /\ c \in Tx /\ c \notin Meetings /\ Target[c] \in People
      /\ RestrictHolds(c) /\ JobsAreCutoffs(c) /\ JobsAreComplete(c) /\ tx[c] \in TxRow
  BY Typed DEF IInv
<1>3. /\ tx' \in [Tx -> TxRow] /\ tx'[c] = Idle
      /\ \A u \in Tx \ {c} : tx'[u] = tx[u]
      /\ locks' \subseteq LockRow /\ LocksExclude'
      /\ \A u \in Tx \ {c} : \A r, md : Holds(u, r, md) => Holds(u, r, md)'
  BY <1>1, <1>2, FinishKeeps
<1>4. tx'[c].step = "idle" /\ tx'[c].jobs = {}
  BY <1>3 DEF Idle
<1>5. /\ tx[c].jobs \subseteq Job
      /\ \A j \in tx[c].jobs : /\ j.event[1] = c /\ j.order <= order
                               /\ j.pubkey = Target[c] \/ c \in Bans
  BY <1>2 DEF TxRow, JobsAreCutoffs
<1>6. /\ \A q \in bans' : q \in bans \/ (q = Target[c] /\ c \in Bans)
      /\ \A q \in members : q \in members' \/ q = Target[c]
      /\ members' \subseteq members
  BY <1>1
<1>7. TypeOK'
  <2>1. \A u \in Meetings : tx'[u].n \in 1..Len(Roster[u])
    BY <1>2, <1>3, Typed
  <2>2. /\ jobs' \subseteq Job /\ bans' \subseteq People /\ members' \subseteq People
    BY <1>1, <1>2, <1>5, <1>6 DEF IInv, TypeOK
  <2>3. QED
    BY <1>1, <1>3, <2>1, <2>2 DEF IInv, TypeOK, TxRow, LockRow
<1>8. ASSUME NEW m \in Meetings PROVE CreateHolds(m)' /\ DrawnLast(m)'
  <2>1. tx'[m] = tx[m] /\ CreateHolds(m) /\ DrawnLast(m)
        /\ \A r, md : Holds(m, r, md) => Holds(m, r, md)'
    BY <1>2, <1>3, Typed DEF IInv
  <2>2. /\ \A k \in 1..Len(Roster[m]) : Locked(m, k) => Roster[m][k] # Target[c]
        /\ c \in Bans => \A p \in People : <<p, Target[c]>> \notin tx[m].owners
    BY <1>1, Serialised
  <2>3. Participant(m)' = Participant(m)
    BY <2>1 DEF Participant
  <2>4. \A k : /\ Locked(m, k)' = Locked(m, k) /\ Checked(m, k)' = Checked(m, k)
               /\ Checked(m, k) => Locked(m, k)
    BY <2>1 DEF Locked, Checked
  <2>5. CreateHolds(m)'
    <3>1. \A k \in 1..Len(Roster[m]) :
            Locked(m, k) => /\ Holds(m, Member(Roster[m][k]), "share")'
                            /\ Roster[m][k] \in members'
      BY <1>6, <2>1, <2>2 DEF CreateHolds
    <3>2. \A k \in 1..Len(Roster[m]) : Checked(m, k) => Roster[m][k] \notin bans'
      BY <1>6, <2>1, <2>2, <2>4 DEF CreateHolds
    <3>3. ASSUME NEW p \in People, NEW o \in People, <<p, o>> \in tx[m].owners
          PROVE  /\ owner[p] = o
                 /\ Holds(m, User(o), "share")'
                 /\ o \in bans' => tx[m].step = "owner_ban" /\ owner[Participant(m)] = o
      BY <1>6, <2>1, <2>2, <3>3 DEF CreateHolds
    <3>4. QED
      BY <1>1, <2>1, <2>3, <2>4, <3>1, <3>2, <3>3 DEF CreateHolds
  <2>6. DrawnLast(m)'
    <3>1. SUFFICES ASSUME tx[m].step = "commit", NEW j \in jobs',
                          j.pubkey \in Participants(m),
                          Concerns(j.event[1], j.pubkey, tx[m].owners)
                   PROVE  j.order < tx[m].order
      BY <2>1 DEF DrawnLast
    <3>2. CASE j \in jobs
      BY <2>1, <3>1, <3>2 DEF DrawnLast
    <3>3. CASE j \in tx[c].jobs
      <4>1. \A s : s = [meeting |-> m, order |-> tx[m].order, owners |-> tx[m].owners] =>
               ~(j.pubkey \in Participants(m) /\ Concerns(c, j.pubkey, s.owners))
        BY <3>1, <3>3, NewSessionSound
      <4>2. ~(j.pubkey \in Participants(m) /\ Concerns(c, j.pubkey, tx[m].owners))
        <5> DEFINE s == [meeting |-> m, order |-> tx[m].order, owners |-> tx[m].owners]
        <5>1. s.owners = tx[m].owners
          OBVIOUS
        <5>2. ~(j.pubkey \in Participants(m) /\ Concerns(c, j.pubkey, s.owners))
          BY <4>1
        <5>3. QED
          BY <5>1, <5>2
      <4>3. QED
        BY <1>5, <3>1, <3>3, <4>2
    <3>4. QED
      BY <1>1, <3>2, <3>3
  <2>7. QED
    BY <2>5, <2>6
<1>9. \A d \in Commands \ {c} : Fresh(d)' = Fresh(d)
  BY <1>1, <1>5 DEF Fresh
<1>10. ASSUME NEW d \in Commands
       PROVE  RestrictHolds(d)' /\ JobsAreCutoffs(d)' /\ JobsAreComplete(d)'
  <2>1. CASE d = c
    BY <1>4, <2>1 DEF RestrictHolds, JobsAreCutoffs, JobsAreComplete
  <2>2. CASE d # c
    <3>1. tx'[d] = tx[d] /\ RestrictHolds(d) /\ JobsAreCutoffs(d) /\ JobsAreComplete(d)
          /\ \A r, md : Holds(d, r, md) => Holds(d, r, md)'
      BY <1>3, <2>2, Typed DEF IInv
    <3>2. RestrictHolds(d)'
      BY <1>1, <1>6, <3>1 DEF RestrictHolds
    <3>3. JobsAreCutoffs(d)'
      BY <1>1, <3>1 DEF JobsAreCutoffs, Concerns
    <3>4. JobsAreComplete(d)'
      BY <1>1, <1>9, <2>2, <3>1 DEF JobsAreComplete
    <3>5. QED
      BY <3>2, <3>3, <3>4
  <2>3. QED
    BY <2>1, <2>2
<1>11. OnceMeansFresh'
  <2>1. SUFFICES ASSUME MaxDeliveries = 1, NEW d \in Commands
                 PROVE  /\ deliveries'[d] = 0 => tx'[d].step = "idle"
                        /\ deliveries'[d] = 0 \/ tx'[d].step # "idle" => Fresh(d)'
    BY DEF OnceMeansFresh
  <2>2. CASE d = c
    BY <1>1, <1>4, <2>1, <2>2 DEF IInv, OnceMeansFresh
  <2>3. CASE d # c
    <3>1. tx'[d] = tx[d] /\ deliveries'[d] = deliveries[d]
      BY <1>1, <1>3, <2>3, Typed
    <3>2. QED
      BY <1>9, <2>1, <2>3, <3>1 DEF IInv, OnceMeansFresh
  <2>4. QED
    BY <2>2, <2>3
<1>12. OrderIsLatest'
  <2>1. \A m \in Meetings : tx'[m].order <= order'
    BY <1>1, <1>2, <1>3, Typed DEF IInv, OrderIsLatest
  <2>2. QED
    BY <1>1, <1>5, <2>1 DEF IInv, OrderIsLatest
<1>13. OwnersAreUsers' /\ OwnersAreRecorded'
  BY <1>1 DEF IInv, OwnersAreUsers, OwnersAreRecorded
<1>14. MaxDeliveries = 1 => JobsCoverRosters'
  <2>1. SUFFICES ASSUME MaxDeliveries = 1, NEW s \in sessions,
                        NEW p \in Participants(s.meeting), Restricted(s, p)'
                 PROVE  Covered(s, p)'
    BY <1>1 DEF JobsCoverRosters
  <2>2. CASE Restricted(s, p)
    <3>1. Covered(s, p)
      BY <2>1, <2>2 DEF IInv, JobsCoverRosters
    <3>2. QED
      BY <1>1, <3>1 DEF Covered
  <2>3. CASE ~Restricted(s, p)
    <3>1. p = Target[c] \/ (c \in Bans /\ <<p, Target[c]>> \in s.owners)
      BY <1>6, <2>1, <2>3 DEF Restricted
    <3>2. Fresh(c)
      BY <1>1, <2>1 DEF IInv, OnceMeansFresh
    <3>3. p = Target[c] => \E j \in tx[c].jobs : j.pubkey = p
      BY <1>1, <1>2, <3>2 DEF JobsAreComplete
    <3>4. c \in Bans /\ <<p, Target[c]>> \in s.owners => \E j \in tx[c].jobs : j.pubkey = p
      <4>1. ASSUME c \in Bans, <<p, Target[c]>> \in s.owners
            PROVE  \E j \in tx[c].jobs : j.pubkey = p
        <5>1. p \in People
          BY <4>1 DEF IInv, TypeOK, Session
        <5>2. owner[p] = Target[c]
          BY <1>2, <4>1, <5>1 DEF IInv, OwnersAreRecorded
        <5>3. QED
          BY <1>1, <1>2, <3>2, <4>1, <5>1, <5>2 DEF JobsAreComplete
      <4>2. QED
        BY <4>1
    <3>5. PICK j \in tx[c].jobs : j.pubkey = p
      BY <3>1, <3>3, <3>4
    <3>6. j.order > s.order
      BY <1>2, <2>1, <3>1, <3>5 DEF JobsAreCutoffs, Concerns
    <3>7. QED
      BY <1>1, <3>5, <3>6 DEF Covered
  <2>4. QED
    BY <2>2, <2>3
<1>15. QED
  BY <1>3, <1>7, <1>8, <1>10, <1>11, <1>12, <1>13, <1>14 DEF IInv

(* Identities change under the feet of Creates and commands.               *)
LEMMA IdentitySound ==
    ASSUME IInv, NEW p \in People, Identity(p)
    PROVE  IInv'
<1>1. /\ tx' = tx /\ locks' = locks /\ order' = order /\ sessions' = sessions
      /\ jobs' = jobs /\ deliveries' = deliveries
  BY DEF Identity, add_relay_member, ensure_user, lift_ban, set_agent_owner
<1>2. /\ LocksExclude' /\ OnceMeansFresh' /\ OrderIsLatest'
      /\ \A u, r, md : Holds(u, r, md)' = Holds(u, r, md)
      /\ \A c : Fresh(c)' = Fresh(c)
      /\ \A m \in Meetings : DrawnLast(m)' /\ Participant(m)' = Participant(m)
      /\ \A m, k : Locked(m, k)' = Locked(m, k) /\ Checked(m, k)' = Checked(m, k)
      /\ \A s, q : Covered(s, q)' = Covered(s, q)
  BY <1>1 DEF IInv, LocksExclude, OnceMeansFresh, OrderIsLatest, Holds, Fresh, DrawnLast,
              Participant, Locked, Checked, Covered
<1>3. CommunityIsFree => \A c \in Commands : /\ tx[c].step \in {"idle", "community"}
                                             /\ tx[c].jobs = {}
  <2>1. SUFFICES ASSUME CommunityIsFree, NEW c \in Commands
                 PROVE  tx[c].step \in {"idle", "community"} /\ tx[c].jobs = {}
    OBVIOUS
  <2>2. ~Holds(c, Community, "exclusive")
    <3>1. [tx |-> c, row |-> Community, mode |-> "exclusive"].row = Community
      OBVIOUS
    <3>2. QED
      BY <2>1, <3>1 DEF CommunityIsFree, Holds
  <2>3. QED
    BY <2>2 DEF IInv, RestrictHolds, JobsAreCutoffs
(* It is enough that what a Create and a command rely on still holds.      *)
<1>4. ASSUME TypeOK', OwnersAreUsers',
             \A q \in bans' : q \in bans,
             \A q \in members : q \in members',
             \A q \in People : owner[q] # Null => owner'[q] = owner[q],
             \/ CommunityIsFree
             \/ members' = members /\ owner' = owner
      PROVE  IInv'
  <2>1. ASSUME NEW m \in Meetings PROVE CreateHolds(m)'
    <3>1. CreateHolds(m) /\ Participant(m) \in People /\ tx'[m] = tx[m]
      BY <1>1, Typed DEF IInv
    <3>2. \A k \in 1..Len(Roster[m]) :
            Locked(m, k)' => /\ Holds(m, Member(Roster[m][k]), "share")'
                             /\ Roster[m][k] \in members'
      BY <1>2, <1>4, <3>1 DEF CreateHolds
    <3>3. \A k \in 1..Len(Roster[m]) : Checked(m, k)' => Roster[m][k] \notin bans'
      BY <1>2, <1>4, <3>1 DEF CreateHolds
    <3>4. \A q, o \in People : <<q, o>> \in tx'[m].owners =>
            /\ owner'[q] = o
            /\ Holds(m, User(o), "share")'
            /\ o \in bans' => tx'[m].step = "owner_ban" /\ owner'[Participant(m)'] = o
      BY <1>2, <1>4, <3>1, Typed DEF CreateHolds
    <3>5. QED
      BY <1>1, <3>1, <3>2, <3>3, <3>4 DEF CreateHolds
  <2>2. ASSUME NEW c \in Commands
        PROVE  RestrictHolds(c)' /\ JobsAreCutoffs(c)' /\ JobsAreComplete(c)'
    <3>1. RestrictHolds(c) /\ JobsAreCutoffs(c) /\ JobsAreComplete(c) /\ tx'[c] = tx[c]
      BY <1>1 DEF IInv
    <3>2. CASE CommunityIsFree
      BY <1>3, <3>1, <3>2 DEF RestrictHolds, JobsAreCutoffs, JobsAreComplete
    <3>3. CASE members' = members /\ owner' = owner
      <4>1. RestrictHolds(c)'
        BY <1>2, <3>1, <3>3 DEF RestrictHolds
      <4>2. JobsAreCutoffs(c)'
        BY <1>1, <3>1, <3>3 DEF JobsAreCutoffs, Concerns
      <4>3. JobsAreComplete(c)'
        BY <1>2, <3>1, <3>3 DEF JobsAreComplete
      <4>4. QED
        BY <4>1, <4>2, <4>3
    <3>4. QED
      BY <1>4, <3>2, <3>3
  <2>3. OwnersAreRecorded'
    BY <1>1, <1>4, Typed DEF IInv, OwnersAreRecorded
  <2>4. MaxDeliveries = 1 => JobsCoverRosters'
    <3>1. \A s, q : Restricted(s, q)' => Restricted(s, q)
      BY <1>4 DEF Restricted
    <3>2. QED
      BY <1>1, <1>2, <3>1 DEF IInv, JobsCoverRosters
  <2>5. QED
    BY <1>2, <1>4, <2>1, <2>2, <2>3, <2>4 DEF IInv
<1>5. CASE add_relay_member(p)
  <2>1. /\ CommunityIsFree /\ members' = members \cup {p}
        /\ users' = users /\ owner' = owner /\ bans' = bans
    BY <1>5 DEF add_relay_member
  <2>2. TypeOK' /\ OwnersAreUsers'
    BY <1>1, <2>1 DEF IInv, TypeOK, OwnersAreUsers
  <2>3. QED
    BY <1>4, <2>1, <2>2
<1>6. CASE ensure_user(p)
  <2>1. /\ users' = users \cup {p}
        /\ members' = members /\ owner' = owner /\ bans' = bans
    BY <1>6 DEF ensure_user
  <2>2. TypeOK' /\ OwnersAreUsers'
    BY <1>1, <2>1 DEF IInv, TypeOK, OwnersAreUsers
  <2>3. QED
    BY <1>4, <2>1, <2>2
<1>7. CASE lift_ban(p)
  <2>1. /\ bans' = bans \ {p}
        /\ members' = members /\ owner' = owner /\ users' = users
    BY <1>7 DEF lift_ban
  <2>2. TypeOK' /\ OwnersAreUsers'
    BY <1>1, <2>1 DEF IInv, TypeOK, OwnersAreUsers
  <2>3. QED
    BY <1>4, <2>1, <2>2
<1>8. ASSUME NEW o \in People, set_agent_owner(p, o) PROVE IInv'
  <2>1. /\ CommunityIsFree /\ p \in users /\ o \in users /\ owner[p] = Null
        /\ owner' = [owner EXCEPT ![p] = o]
        /\ members' = members /\ bans' = bans /\ users' = users
    BY <1>8 DEF set_agent_owner
  <2>2. owner \in [People -> People \cup {Null}]
    BY DEF IInv, TypeOK
  <2>3. /\ owner' \in [People -> People \cup {Null}] /\ owner'[p] = o
        /\ \A q \in People \ {p} : owner'[q] = owner[q]
    BY <2>1, <2>2
  <2>4. TypeOK'
    BY <1>1, <2>1, <2>3 DEF IInv, TypeOK
  <2>5. OwnersAreUsers'
    BY <2>1, <2>3 DEF IInv, OwnersAreUsers
  <2>6. \A q \in People : owner[q] # Null => owner'[q] = owner[q]
    BY <2>1, <2>3
  <2>7. QED
    BY <1>4, <2>1, <2>4, <2>5, <2>6
<1>9. QED
  BY <1>5, <1>6, <1>7, <1>8 DEF Identity

(* IInv is an inductive invariant.                                         *)
LEMMA Invariance == Spec => []IInv
<1>1. Init => IInv
  <2> SUFFICES ASSUME Init PROVE IInv
    OBVIOUS
  <2>1. Idle \in TxRow /\ Idle.step = "idle" /\ Idle.n = 1 /\ Idle.order = 0
        /\ Idle.owners = {} /\ Idle.jobs = {}
    BY DEF Idle, TxRow, Step
  <2>2. /\ \A m \in Meetings : m \in Tx /\ tx[m] = Idle
        /\ \A c \in Commands : c \in Tx /\ tx[c] = Idle
    BY DEF Init, Tx
  <2>3. \A m \in Meetings : 1 \in 1..Len(Roster[m])
    <3>1. \A m \in Meetings : Roster[m] \in Seq(People) /\ Roster[m] # << >>
      BY AdmissionAssumption
    <3>2. QED
      BY <3>1
  <2>4. TypeOK
    BY <2>1, <2>2, <2>3, AdmissionAssumption DEF Init, TypeOK, TxRow
  <2>5. \A m \in Meetings : CreateHolds(m) /\ DrawnLast(m)
    BY <2>1, <2>2 DEF CreateHolds, DrawnLast, Locked, Checked
  <2>6. \A c \in Commands : RestrictHolds(c) /\ JobsAreCutoffs(c) /\ JobsAreComplete(c)
    BY <2>1, <2>2 DEF RestrictHolds, JobsAreCutoffs, JobsAreComplete
  <2>7. OnceMeansFresh /\ OrderIsLatest /\ OwnersAreRecorded /\ JobsCoverRosters
    BY <2>1, <2>2 DEF Init, OnceMeansFresh, Fresh, OrderIsLatest, OwnersAreRecorded,
                      JobsCoverRosters
  <2>8. LocksExclude /\ OwnersAreUsers
    BY DEF Init, LocksExclude, OwnersAreUsers
  <2>9. QED
    BY <2>4, <2>5, <2>6, <2>7, <2>8 DEF IInv
<1>2. IInv /\ [Next]_vars => IInv'
  <2> SUFFICES ASSUME IInv, [Next]_vars PROVE IInv'
    OBVIOUS
  <2>1. ASSUME NEW m \in Meetings, Create(m) PROVE IInv'
    BY <2>1, CreateStepSound, CommitCreateSound DEF Create
  <2>2. ASSUME NEW c \in Commands, Restrict(c) PROVE IInv'
    BY <2>2, RestrictLockSound, EnqueueSound, CommitRestrictionSound DEF Restrict
  <2>3. CASE UNCHANGED vars
    <3>1. /\ members' = members /\ users' = users /\ owner' = owner /\ bans' = bans
          /\ order' = order /\ sessions' = sessions /\ jobs' = jobs /\ locks' = locks
          /\ tx' = tx /\ deliveries' = deliveries
      BY <2>3 DEF vars, identity
    <3>2. /\ \A m \in Meetings : CreateHolds(m)' /\ DrawnLast(m)'
          /\ \A c \in Commands : RestrictHolds(c)' /\ JobsAreCutoffs(c)' /\ JobsAreComplete(c)'
      BY <3>1 DEF IInv, CreateHolds, DrawnLast, RestrictHolds, JobsAreCutoffs,
                  JobsAreComplete, Locked, Checked, Participant, Holds, Fresh, Concerns
    <3>3. TypeOK'
      BY <3>1 DEF IInv, TypeOK
    <3>4. LocksExclude' /\ OwnersAreUsers' /\ OrderIsLatest' /\ OwnersAreRecorded'
      BY <3>1 DEF IInv, LocksExclude, OwnersAreUsers, OrderIsLatest, OwnersAreRecorded
    <3>5. OnceMeansFresh'
      BY <3>1 DEF IInv, OnceMeansFresh, Fresh
    <3>6. MaxDeliveries = 1 => JobsCoverRosters'
      <4>1. \A s, q : Restricted(s, q)' => Restricted(s, q)
        BY <3>1 DEF Restricted
      <4>2. \A s, q : Covered(s, q)' <=> Covered(s, q)
        BY <3>1 DEF Covered
      <4>3. QED
        BY <3>1, <4>1, <4>2 DEF IInv, JobsCoverRosters
    <3>7. QED
      BY <3>2, <3>3, <3>4, <3>5, <3>6 DEF IInv
  <2>4. QED
    BY <2>1, <2>2, <2>3, RollbackSound, IdentitySound DEF Next
<1>3. QED
  BY <1>1, <1>2, PTL DEF Spec

(* create_meeting_tx against ban_member_with_revocation and                *)
(* remove_relay_member_with_revocation: when every command arrives once,   *)
(* no Meeting keeps a restricted participant, or the agent of a banned     *)
(* owner, without a revocation job that reaches it.                        *)
THEOREM RostersAreCovered ==
    ASSUME MaxDeliveries = 1
    PROVE  Spec => []JobsCoverRosters
<1>1. IInv => JobsCoverRosters
  BY DEF IInv
<1>2. QED
  BY <1>1, Invariance, PTL

(* The commit of create_meeting_tx: the Meeting lies after every job that  *)
(* exists for someone its Create validated, however often the commands     *)
(* arrive.                                                                 *)
THEOREM NewAreSpared == Spec => NewMeetingsAreSpared
<1>1. IInv /\ [Next]_vars =>
        [ \A s \in sessions' \ sessions : \A j \in jobs :
            j.pubkey \in Participants(s.meeting) /\ Validated(s, j) =>
                j.order < s.order ]_vars
  <2> SUFFICES ASSUME IInv, Next, NEW s \in sessions' \ sessions, NEW j \in jobs,
                      j.pubkey \in Participants(s.meeting), Validated(s, j)
               PROVE  j.order < s.order
    OBVIOUS
  <2>1. PICK m \in Meetings : commit_create(m)
    BY DEF Next, Create, Restrict, Identity, create_meeting, create_moderated_meeting,
           lock_member, has_active_ban, lock_identity, lock_typed_identity, lock_owner,
           has_active_owner_ban, insert_session, deliver, acquire_membership_write_lock,
           ban_lock_member, ban_lock_user, delete_member, enqueue_target, enqueue_agents,
           commit_restriction, rollback, add_relay_member, ensure_user, lift_ban,
           set_agent_owner
  <2>2. /\ tx[m].step = "commit"
        /\ s = [meeting |-> m, order |-> tx[m].order, owners |-> tx[m].owners]
    BY <2>1 DEF commit_create, At
  <2>3. s.meeting = m
    BY <2>2
  <2>4. Concerns(j.event[1], j.pubkey, s.owners)
    BY DEF Validated, Concerns
  <2>5. QED
    BY <2>2, <2>3, <2>4, NewSessionSound
<1>2. QED
  BY <1>1, Invariance, PTL DEF Spec, NewMeetingsAreSpared
=============================================================================
