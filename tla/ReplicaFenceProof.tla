------------------------- MODULE ReplicaFenceProof -------------------------
(***************************************************************************)
(* The fence and the channel windows it routes, for every number of        *)
(* transactions, floor, margin, page size and length of the clock.         *)
(***************************************************************************)
EXTENDS ReplicaFence, WellFoundedInduction, TLAPS

(* What is not on the replica, and whatever commits from now on, was       *)
(* created after b: the rows the replica still has to replay, the rows of  *)
(* open transactions, and those of transactions to come, which the guard   *)
(* keeps above the floor.                                                  *)
Open(t) == tx[t].st \in {"open", "guarded", "prepared"}

Beyond(b) ==
    /\ \A i \in DOMAIN wal : i > replayed /\ wal[i].op = "insert" => tx[wal[i].row].created > b
    /\ \A t \in Txs : Open(t) => tx[t].created > b
    /\ clock - Floor > b

(* A transaction's row is at most Floor older than its start, and a        *)
(* transaction with a commit record is over.                               *)
RowsAreYoung == \A t \in Txs : Open(t) => tx[t].created >= tx[t].since - Floor

LoggedAreDone == \A i \in DOMAIN wal : tx[wal[i].row].st = "done"

(* The probe after its scan: no open transaction started before lower, and *)
(* every row logged after the captured position is young.  A soft delete   *)
(* logged there may be of any row.                                         *)
ProbeIsSound ==
    /\ probe.pc \in {"scan", "lsn", "replica", "advance"} => clock >= probe.lower
    /\ probe.pc \in {"lsn", "replica", "advance"} =>
         \A t \in Txs : Open(t) => tx[t].since >= probe.lower
    /\ probe.pc \in {"replica", "advance"} =>
         \A i \in DOMAIN wal :
             i > probe.lsn /\ wal[i].op = "insert" => tx[wal[i].row].created >= probe.lower - Floor
    /\ probe.pc = "advance" => replayed >= probe.lsn

FenceIsSound == fence # Closed => Beyond(fence)

RequestIsSound ==
    /\ DOMAIN req = {"pc", "ts", "page", "truth"}
    /\ req.pc = "window" => req.ts \in Time /\ Beyond(req.ts)
    /\ req.pc = "window_served" => req.truth \subseteq req.page

IInv ==
    /\ TypeOK
    /\ RowsAreYoung
    /\ LoggedAreDone
    /\ ProbeIsSound
    /\ FenceIsSound
    /\ RequestIsSound

(* A set of clock values has a least one.                                  *)
LEMMA LeastExists ==
    ASSUME NEW S \in SUBSET Time, S # {}
    PROVE  Least(S) \in S /\ \A x \in S : Least(S) <= x
<1> DEFINE Less == {ss \in Nat \X Nat : ss[1] < ss[2]}
<1>1. IsWellFoundedOn(Less, Nat)
  BY NatLessThanWellFounded DEF OpToRel
<1>2. S \subseteq Nat
  BY FenceAssumption DEF Time
<1>3. PICK x \in S : \A y \in S : ~ (<<y, x>> \in Less)
  BY <1>1, <1>2, WFMin
<1>4. ASSUME NEW y \in S PROVE x <= y
  <2>1. x \in Nat /\ y \in Nat
    BY <1>2
  <2>2. y < x => <<y, x>> \in Less
    BY <2>1
  <2>3. ~(y < x)
    BY Zenon, <1>3, <2>2
  <2>4. QED
    BY <2>1, <2>3
<1>5. QED
  BY <1>4 DEF Least

(* Every record of the WAL is of a transaction's row.                      *)
LEMMA Logged ==
    ASSUME TypeOK
    PROVE  /\ Len(wal) \in Nat /\ DOMAIN wal = 1..Len(wal)
           /\ \A i \in 1..Len(wal) : wal[i] \in Record /\ wal[i].row \in Txs
<1>1. /\ Len(wal) \in Nat /\ DOMAIN wal = 1..Len(wal)
      /\ \A i \in 1..Len(wal) : wal[i] \in Record
  BY DEF TypeOK
<1>2. \A e \in Record : e.row \in Txs
  BY DEF Record
<1>3. QED
  BY <1>1, <1>2

(* A bound that something is beyond may be lowered.                        *)
LEMMA BeyondLess ==
    ASSUME TypeOK, NEW b \in Int, NEW c \in Int, c <= b, Beyond(b)
    PROVE  Beyond(c)
<1>1. \A t \in Txs : tx[t].created \in Int
  BY FenceAssumption DEF TypeOK, Tx, Time
<1>2. \A i \in DOMAIN wal : wal[i].row \in Txs
  BY Logged
<1>3. clock \in Int /\ Floor \in Int
  BY FenceAssumption DEF TypeOK, Time
<1>4. QED
  BY <1>1, <1>2, <1>3 DEF Beyond

(* Steps of the probe and of a request leave the writer alone.             *)
LEMMA WriterQuiet ==
    ASSUME UNCHANGED writer
    PROVE  /\ \A t : Open(t)' = Open(t)
           /\ \A b : Beyond(b)' = Beyond(b)
           /\ RowsAreYoung' = RowsAreYoung
           /\ LoggedAreDone' = LoggedAreDone
BY DEF writer, Open, Beyond, RowsAreYoung, LoggedAreDone

(* A record more in the WAL.                                               *)
LEMMA Appended ==
    ASSUME wal \in Seq(Record), NEW e \in Record, wal' = Append(wal, e),
           replayed \in 0..Len(wal), probe.lsn \in 0..Len(wal)
    PROVE  /\ wal' \in Seq(Record) /\ Len(wal') = Len(wal) + 1
           /\ replayed \in 0..Len(wal') /\ probe.lsn \in 0..Len(wal')
           /\ 0..Len(wal) \subseteq 0..Len(wal')
           /\ DOMAIN wal \subseteq DOMAIN wal'
           /\ \A i \in DOMAIN wal' : \/ i \in DOMAIN wal /\ wal'[i] = wal[i]
                                     \/ i = Len(wal) + 1 /\ wal'[i] = e
<1>1. /\ Len(wal) \in Nat /\ DOMAIN wal = 1..Len(wal)
      /\ wal' \in Seq(Record) /\ Len(wal') = Len(wal) + 1
      /\ DOMAIN wal' = 1..(Len(wal) + 1)
      /\ \A i \in 1..Len(wal) : wal'[i] = wal[i]
      /\ wal'[Len(wal) + 1] = e
  OBVIOUS
<1>2. /\ replayed \in 0..Len(wal') /\ probe.lsn \in 0..Len(wal')
      /\ 0..Len(wal) \subseteq 0..Len(wal')
  BY <1>1
<1>3. \A i \in 1..(Len(wal) + 1) : i \in 1..Len(wal) \/ i = Len(wal) + 1
  BY <1>1
<1>4. DOMAIN wal \subseteq DOMAIN wal'
  BY <1>1
<1>5. ASSUME NEW i \in DOMAIN wal'
      PROVE  \/ i \in DOMAIN wal /\ wal'[i] = wal[i]
             \/ i = Len(wal) + 1 /\ wal'[i] = e
  BY <1>1, <1>3
<1>6. QED
  BY <1>1, <1>2, <1>4, <1>5

(* The writer and the replica take a bound of Beyond no row.               *)
LEMMA WriterMovesOn ==
    ASSUME IInv, Tick \/ Replay \/ \E t \in Txs : WriterStep(t)
    PROVE  /\ TypeOK' /\ RowsAreYoung' /\ LoggedAreDone' /\ ProbeIsSound'
           /\ \A b \in Int : Beyond(b) => Beyond(b)'
           /\ UNCHANGED <<fence, req>>
<1> USE FenceAssumption
<1>0. 0 \in Time
  BY DEF Time
<1>1. /\ clock \in Time /\ tx \in [Txs -> Tx] /\ wal \in Seq(Record)
      /\ replayed \in 0..Len(wal) /\ Len(wal) \in Nat
      /\ DOMAIN wal = 1..Len(wal)
      /\ \A i \in DOMAIN wal : wal[i] \in Record /\ wal[i].row \in Txs
      /\ \A t \in Txs : tx[t].created \in Time /\ tx[t].since \in Time
      /\ probe.lower \in Time /\ probe.lsn \in 0..Len(wal)
      /\ probe \in [pc : {"idle", "scan", "lsn", "replica", "advance"},
                  lower : Time, lsn : 0..Len(wal)]
      /\ fence \in Stamp \cup {Closed}
  BY Logged DEF IInv, TypeOK, Tx
<1>2. CASE Tick
  BY <1>1, <1>2 DEF Tick, IInv, TypeOK, RowsAreYoung, LoggedAreDone, ProbeIsSound, Beyond,
                   Open, Time
<1>3. CASE Replay
  BY <1>1, <1>3 DEF Replay, IInv, TypeOK, RowsAreYoung, LoggedAreDone, ProbeIsSound, Beyond,
                   Open, Time
<1>4. ASSUME NEW t \in Txs, WriterStep(t)
      PROVE  /\ TypeOK' /\ RowsAreYoung' /\ LoggedAreDone' /\ ProbeIsSound'
             /\ \A b \in Int : Beyond(b) => Beyond(b)'
             /\ UNCHANGED <<fence, req>>
  <2>1. CASE Begin(t)
    <3>1. PICK c \in Time :
            /\ c >= clock - Floor
            /\ tx' = [tx EXCEPT ![t] = [st |-> "open", since |-> clock, created |-> c]]
      BY <2>1 DEF Begin
    <3>2. /\ tx' \in [Txs -> Tx] /\ tx'[t] = [st |-> "open", since |-> clock, created |-> c]
          /\ \A u \in Txs \ {t} : tx'[u] = tx[u]
      BY <1>1, <3>1 DEF Tx
    <3>3. \A i \in DOMAIN wal : wal[i].row # t
      BY <2>1 DEF IInv, LoggedAreDone, Begin
    <3>4. UNCHANGED <<clock, wal, replayed, fence, probe, req>>
      BY <2>1 DEF Begin
    <3>5. TypeOK'
      BY <1>1, <3>2, <3>4 DEF TypeOK
    <3>6. RowsAreYoung' /\ LoggedAreDone'
      BY <1>1, <3>1, <3>2, <3>3, <3>4 DEF IInv, RowsAreYoung, LoggedAreDone, Open, Time
    <3>7. ProbeIsSound'
      BY <1>1, <3>1, <3>2, <3>3, <3>4 DEF IInv, ProbeIsSound, Open, Time
    <3>8. \A b \in Int : Beyond(b) => Beyond(b)'
      BY <1>1, <3>1, <3>2, <3>3, <3>4 DEF Beyond, Open, Time
    <3>9. QED
      BY <3>4, <3>5, <3>6, <3>7, <3>8
  <2>2. CASE events_created_at_floor_guard(t) \/ Prepare(t) \/ Abort(t)
    <3>1. /\ tx' \in [Txs -> Tx] /\ \A u \in Txs \ {t} : tx'[u] = tx[u]
          /\ Open(t) /\ Open(t)' => /\ tx'[t].created = tx[t].created
                                    /\ \/ tx'[t].since = tx[t].since
                                       \/ tx'[t].since = clock /\ FloorHolds(t)
          /\ UNCHANGED <<clock, wal, replayed, fence, probe, req>>
      <4>1. CASE events_created_at_floor_guard(t)
        BY <1>1, <4>1 DEF events_created_at_floor_guard, Tx, Open
      <4>2. CASE Prepare(t)
        BY <1>1, <4>2 DEF Prepare, Tx, Open
      <4>3. CASE Abort(t)
        <5>0. [NoTx EXCEPT !.st = "done"] = [st |-> "done", since |-> 0, created |-> 0]
          BY DEF NoTx
        <5>1. tx' = [tx EXCEPT ![t] = [st |-> "done", since |-> 0, created |-> 0]]
          BY <4>3, <5>0 DEF Abort
        <5>2. [st |-> "done", since |-> 0, created |-> 0] \in Tx
          BY <1>0 DEF Tx
        <5>3. ~Open(t)'
          BY <1>1, <5>1 DEF Open
        <5>4. QED
          BY <1>1, <4>3, <5>1, <5>2, <5>3 DEF Abort
      <4>4. QED BY <2>2, <4>1, <4>2, <4>3
    <3>2. \A i \in DOMAIN wal : wal[i].row # t
      BY <2>2 DEF IInv, LoggedAreDone, events_created_at_floor_guard, Prepare, Abort
    <3>3. TypeOK'
      BY <1>1, <3>1 DEF TypeOK
    <3>4. Open(t)
      BY <2>2 DEF Open, events_created_at_floor_guard, Prepare, Abort
    <3>5. \A u \in Txs : Open(u)' => Open(u)
      BY <3>1, <3>4 DEF Open
    <3>6. RowsAreYoung' /\ LoggedAreDone'
      BY <1>1, <3>1, <3>2, <3>5 DEF IInv, RowsAreYoung, LoggedAreDone, FloorHolds, Open, Time
    <3>7. ProbeIsSound'
      BY <1>1, <3>1, <3>2, <3>5 DEF IInv, ProbeIsSound, Time, Open
    <3>8. \A b \in Int : Beyond(b) => Beyond(b)'
      BY <1>1, <3>1, <3>2, <3>5 DEF Beyond, Time, Open
    <3>9. QED
      BY <3>1, <3>3, <3>6, <3>7, <3>8
  <2>3. CASE Commit(t)
    <3>1. /\ tx' \in [Txs -> Tx] /\ \A u \in Txs \ {t} : tx'[u] = tx[u]
          /\ tx'[t].created = tx[t].created /\ tx'[t].st = "done"
          /\ Open(t)
          /\ UNCHANGED <<clock, replayed, fence, probe, req>>
      <4>1. tx' = [tx EXCEPT ![t] = [tx[t] EXCEPT !.st = "done", !.since = 0]]
        BY <1>1, <2>3 DEF Commit
      <4>2. [tx[t] EXCEPT !.st = "done", !.since = 0] \in Tx
        BY <1>0, <1>1 DEF Tx
      <4>3. QED
        BY <1>1, <2>3, <4>1, <4>2 DEF Commit, Tx, Open
    <3>2. PICK e \in Record :
            /\ e.op = "insert" /\ e.row = t /\ wal' = Append(wal, e)
      BY <2>3 DEF Commit, Record
    <3>3. /\ TypeOK' /\ DOMAIN wal \subseteq DOMAIN wal'
          /\ \A i \in DOMAIN wal' : \/ i \in DOMAIN wal /\ wal'[i] = wal[i]
                                    \/ i = Len(wal) + 1 /\ wal'[i] = e
      BY <1>1, <3>1, <3>2, Appended DEF TypeOK
    <3>5. RowsAreYoung' /\ LoggedAreDone'
      BY <1>1, <3>1, <3>2, <3>3 DEF IInv, RowsAreYoung, LoggedAreDone, Open
    <3>6. \A u \in Txs : tx'[u].created = tx[u].created /\ (Open(u)' => Open(u) /\ tx'[u] = tx[u])
      BY <3>1 DEF Open
    <3>7. ProbeIsSound'
      <4>1. ASSUME probe.pc \in {"replica", "advance"}, NEW i \in DOMAIN wal',
                   i > probe.lsn, wal'[i].op = "insert"
            PROVE  tx'[wal'[i].row].created >= probe.lower - Floor
        <5>1. CASE i \in DOMAIN wal /\ wal'[i] = wal[i]
          <6>1. tx[wal[i].row].created >= probe.lower - Floor
            BY <4>1, <5>1 DEF IInv, ProbeIsSound
          <6>2. QED
            BY <1>1, <3>6, <5>1, <6>1
        <5>2. CASE wal'[i] = e
          <6>1. tx[t].since >= probe.lower
            BY <3>1, <4>1 DEF IInv, ProbeIsSound
          <6>2. tx[t].created >= tx[t].since - Floor
            BY <3>1 DEF IInv, RowsAreYoung
          <6>3. tx'[wal'[i].row].created = tx[t].created
            BY <3>1, <3>2, <5>2
          <6>4. QED
            BY <1>1, <6>1, <6>2, <6>3 DEF Time
        <5>3. QED
          BY <3>3, <5>1, <5>2
      <4>2. probe' = probe /\ clock' = clock /\ replayed' = replayed
        BY <3>1
      <4>3. /\ probe.pc \in {"scan", "lsn", "replica", "advance"} => clock >= probe.lower
            /\ probe.pc = "advance" => replayed >= probe.lsn
            /\ probe.pc \in {"lsn", "replica", "advance"} =>
                 \A u \in Txs : Open(u) => tx[u].since >= probe.lower
        BY DEF IInv, ProbeIsSound
      <4>4. QED
        BY <3>6, <4>1, <4>2, <4>3 DEF ProbeIsSound
    <3>8. \A b \in Int : Beyond(b) => Beyond(b)'
      BY <1>1, <3>1, <3>2, <3>3, <3>6 DEF Beyond
    <3>9. QED
      BY <3>1, <3>3, <3>5, <3>7, <3>8
  <2>4. CASE soft_delete_event(t)
    <3>1. UNCHANGED <<clock, tx, replayed, fence, probe, req>>
      BY <2>4 DEF soft_delete_event
    <3>2. PICK e \in Record :
            /\ e.op = "delete" /\ e.row = t /\ wal' = Append(wal, e)
      BY <2>4 DEF soft_delete_event, Record
    <3>3. /\ TypeOK' /\ DOMAIN wal \subseteq DOMAIN wal'
          /\ \A i \in DOMAIN wal' : \/ i \in DOMAIN wal /\ wal'[i] = wal[i]
                                    \/ i = Len(wal) + 1 /\ wal'[i] = e
      BY <1>1, <3>1, <3>2, Appended DEF TypeOK
    <3>4. tx[t].st = "done"
      BY <1>1, <2>4 DEF soft_delete_event, Live, Rows, IInv, LoggedAreDone
    <3>5. RowsAreYoung' /\ LoggedAreDone'
      BY <1>1, <3>1, <3>2, <3>3, <3>4 DEF IInv, RowsAreYoung, LoggedAreDone, Open
    <3>6. ProbeIsSound'
      BY <1>1, <3>1, <3>2, <3>3 DEF IInv, ProbeIsSound, Time, Open
    <3>7. \A b \in Int : Beyond(b) => Beyond(b)'
      BY <1>1, <3>1, <3>2, <3>3 DEF Beyond, Open
    <3>8. QED
      BY <3>1, <3>3, <3>5, <3>6, <3>7
  <2>5. QED
    BY <1>4, <2>1, <2>2, <2>3, <2>4 DEF WriterStep
<1>5. QED
  BY <1>2, <1>3, <1>4

(* A sample of the clock, a scan and a capture of the WAL position make a  *)
(* sound probe; a fence set from a sound probe is sound.                   *)
LEMMA ProbeStepSound ==
    ASSUME IInv, ProbeStep
    PROVE  IInv'
<1> USE FenceAssumption
<1>1. UNCHANGED <<writer, req>>
  BY DEF ProbeStep, sample_clock, scan_activity, capture_lsn, replica_covers, advance,
         probe_error
<1>2. /\ UNCHANGED <<clock, tx, wal, replayed, req>>
      /\ \A t : Open(t)' = Open(t)
      /\ \A b : Beyond(b)' = Beyond(b)
      /\ RowsAreYoung' /\ LoggedAreDone' /\ RequestIsSound'
  BY <1>1, WriterQuiet DEF writer, IInv, RequestIsSound
<1>3. /\ clock \in Time /\ tx \in [Txs -> Tx] /\ wal \in Seq(Record)
      /\ replayed \in 0..Len(wal) /\ Len(wal) \in Nat
      /\ DOMAIN wal = 1..Len(wal)
      /\ \A i \in DOMAIN wal : wal[i] \in Record /\ wal[i].row \in Txs
      /\ \A t \in Txs : tx[t].created \in Time /\ tx[t].since \in Time
      /\ probe \in [pc : {"idle", "scan", "lsn", "replica", "advance"},
                  lower : Time, lsn : 0..Len(wal)]
      /\ fence \in Stamp \cup {Closed}
  BY Logged DEF IInv, TypeOK, Tx
<1>4. Idle \in [pc : {"idle", "scan", "lsn", "replica", "advance"},
                lower : Time, lsn : 0..Len(wal)]
  BY <1>3 DEF Idle, Time
<1>5. ASSUME fence' = fence, TypeOK', ProbeIsSound' PROVE IInv'
  BY <1>2, <1>5 DEF IInv, FenceIsSound
<1>6. CASE sample_clock
  <2>1. /\ probe' = [pc |-> "scan", lower |-> clock, lsn |-> 0] /\ fence' = fence
    BY <1>6 DEF sample_clock, Idle
  <2>2. TypeOK'
    BY <1>2, <1>3, <2>1 DEF TypeOK
  <2>3. ProbeIsSound'
    BY <1>2, <1>3, <2>1 DEF ProbeIsSound, Time
  <2>4. QED
    BY <1>5, <2>1, <2>2, <2>3
<1>7. CASE scan_activity
  <2> DEFINE S == {probe.lower} \cup OpenSince
  <2>1. S \in SUBSET Time /\ S # {}
    BY <1>3 DEF OpenSince
  <2>2. /\ Least(S) \in Time /\ Least(S) <= probe.lower
        /\ \A t \in Txs : Open(t) => Least(S) <= tx[t].since
    <3>1. Least(S) \in S /\ \A x \in S : Least(S) <= x
      BY <2>1, LeastExists
    <3>2. \A t \in Txs : Open(t) => tx[t].since \in S
      BY DEF OpenSince, Open
    <3>3. QED
      BY <2>1, <3>1, <3>2
  <2>3. /\ probe.pc = "scan" /\ fence' = fence
        /\ probe' = [pc |-> "lsn", lower |-> Least(S), lsn |-> probe.lsn]
    BY <1>3, <1>7 DEF scan_activity
  <2> HIDE DEF S
  <2>4. TypeOK'
    BY <1>2, <1>3, <2>2, <2>3 DEF TypeOK
  <2>5. ProbeIsSound'
    BY <1>2, <1>3, <2>2, <2>3 DEF IInv, ProbeIsSound, Time
  <2>6. QED
    BY <1>5, <2>3, <2>4, <2>5
<1>8. CASE capture_lsn
  <2>1. /\ probe.pc = "lsn" /\ fence' = fence
        /\ probe' = [pc |-> "replica", lower |-> probe.lower, lsn |-> Len(wal)]
    BY <1>3, <1>8 DEF capture_lsn
  <2>2. TypeOK'
    BY <1>2, <1>3, <2>1 DEF TypeOK
  <2>3. ProbeIsSound'
    BY <1>2, <1>3, <2>1 DEF IInv, ProbeIsSound, Time
  <2>4. QED
    BY <1>5, <2>1, <2>2, <2>3
<1>9. CASE replica_covers
  <2>1. /\ probe.pc = "replica" /\ fence' = fence
        /\ \/ /\ replayed >= probe.lsn
              /\ probe' = [pc |-> "advance", lower |-> probe.lower, lsn |-> probe.lsn]
           \/ probe' = Idle
    BY <1>3, <1>9 DEF replica_covers
  <2>2. TypeOK'
    BY <1>2, <1>3, <1>4, <2>1 DEF TypeOK
  <2>3. ProbeIsSound'
    BY <1>2, <1>3, <2>1 DEF IInv, ProbeIsSound, Idle
  <2>4. QED
    BY <1>5, <2>1, <2>2, <2>3
<1>10. CASE advance
  <2>1. /\ probe.pc = "advance" /\ probe' = Idle
        /\ fence' = probe.lower - Floor - Margin
    BY <1>10 DEF advance, NewFence
  <2>2. /\ fence' \in Stamp /\ fence' \in Int
        /\ fence' < probe.lower - Floor /\ probe.lower \in Int
    BY <1>3, <2>1 DEF Time, Stamp
  <2>3. Beyond(fence')
    <3>1. \A i \in DOMAIN wal :
            i > replayed /\ wal[i].op = "insert" => tx[wal[i].row].created > fence'
      <4>1. ASSUME NEW i \in DOMAIN wal, i > replayed, wal[i].op = "insert"
            PROVE  tx[wal[i].row].created > fence'
        <5>1. replayed >= probe.lsn
          BY <2>1 DEF IInv, ProbeIsSound
        <5>2. i > probe.lsn
          BY <1>3, <4>1, <5>1
        <5>3. tx[wal[i].row].created >= probe.lower - Floor
          BY <2>1, <4>1, <5>2 DEF IInv, ProbeIsSound
        <5>4. wal[i].row \in Txs /\ tx[wal[i].row].created \in Int
          BY <1>3, <4>1 DEF Time
        <5>5. QED
          BY <1>3, <2>2, <5>3, <5>4
      <4>2. QED
        BY <4>1
    <3>2. \A t \in Txs : Open(t) => tx[t].created > fence'
      <4>1. ASSUME NEW t \in Txs, Open(t) PROVE tx[t].created > fence'
        <5>1. tx[t].since >= probe.lower
          BY <2>1, <4>1 DEF IInv, ProbeIsSound
        <5>2. tx[t].created >= tx[t].since - Floor
          BY <4>1 DEF IInv, RowsAreYoung
        <5>3. QED
          BY <1>3, <2>2, <5>1, <5>2 DEF Time
      <4>2. QED
        BY <4>1
    <3>3. clock - Floor > fence'
      <4>1. clock >= probe.lower
        BY <2>1 DEF IInv, ProbeIsSound
      <4>2. QED
        BY <1>3, <2>2, <4>1 DEF Time
    <3>4. QED
      BY <3>1, <3>2, <3>3 DEF Beyond
  <2>4. FenceIsSound'
    BY <1>2, <2>3 DEF FenceIsSound, Beyond, Open
  <2>5. ProbeIsSound'
    BY <2>1 DEF ProbeIsSound, Idle
  <2>6. TypeOK'
    BY <1>2, <1>3, <1>4, <2>1, <2>2 DEF TypeOK
  <2>7. QED
    BY <1>2, <2>4, <2>5, <2>6 DEF IInv
<1>11. CASE probe_error
  <2>1. probe' = Idle /\ fence' = Closed
    BY <1>11 DEF probe_error
  <2>2. ProbeIsSound' /\ FenceIsSound'
    BY <2>1 DEF ProbeIsSound, FenceIsSound, Idle
  <2>3. TypeOK'
    BY <1>2, <1>3, <1>4, <2>1 DEF TypeOK
  <2>4. QED
    BY <1>2, <2>2, <2>3 DEF IInv
<1>12. QED
  BY <1>6, <1>7, <1>8, <1>9, <1>10, <1>11 DEF ProbeStep

(* A window is read under the bound its fence gave it.                     *)
LEMMA RequestStepSound ==
    ASSUME IInv, RequestStep
    PROVE  IInv'
<1> USE FenceAssumption
<1>1. UNCHANGED <<writer, fence, probe>>
  BY DEF RequestStep, route_channel_window, read_channel_window, route_thread_replies,
         read_thread_replies, serve_thread_replies
<1>2. /\ UNCHANGED <<clock, tx, wal, replayed, fence, probe>>
      /\ \A t : Open(t)' = Open(t)
      /\ \A b : Beyond(b)' = Beyond(b)
      /\ RowsAreYoung' /\ LoggedAreDone' /\ ProbeIsSound' /\ FenceIsSound'
  BY <1>1, WriterQuiet DEF writer, IInv, ProbeIsSound, FenceIsSound
<1>3. TypeOK'
  BY <1>2 DEF IInv, TypeOK
<1>4. RequestIsSound'
  <2>1. CASE route_channel_window
    <3>1. PICK ts \in Time : Covers(ts) /\ req' = [NoReq EXCEPT !.pc = "window", !.ts = ts]
      BY <2>1 DEF route_channel_window
    <3>2. req'.pc = "window" /\ req'.ts = ts /\ DOMAIN req' = {"pc", "ts", "page", "truth"}
      BY <3>1 DEF NoReq
    <3>3. fence # Closed /\ ts <= fence /\ fence \in Int /\ ts \in Int
      BY <3>1 DEF Covers, IInv, TypeOK, Stamp, Time
    <3>4. Beyond(ts)
      BY <3>3, BeyondLess DEF IInv, FenceIsSound
    <3>5. QED
      BY <1>2, <3>1, <3>2, <3>4 DEF RequestIsSound
  <2>2. CASE read_channel_window
    <3>1. req.ts \in Time /\ Beyond(req.ts)
      BY <2>2 DEF read_channel_window, IInv, RequestIsSound
    <3>2. /\ req'.pc = "window_served" /\ DOMAIN req' = {"pc", "ts", "page", "truth"}
          /\ req'.page = Upto(Live(replayed), req.ts)
          /\ req'.truth = Upto(Live(Len(wal)), req.ts)
      BY <2>2 DEF read_channel_window
    <3>3. /\ wal \in Seq(Record) /\ replayed \in 0..Len(wal) /\ DOMAIN wal = 1..Len(wal)
          /\ Len(wal) \in Nat /\ \A t \in Txs : tx[t].created \in Time
          /\ \A i \in DOMAIN wal : wal[i].row \in Txs
      BY Logged DEF IInv, TypeOK, Tx
    <3>4. Upto(Live(Len(wal)), req.ts) \subseteq Upto(Live(replayed), req.ts)
      <4> SUFFICES ASSUME NEW t \in Live(Len(wal)), tx[t].created <= req.ts
                   PROVE  t \in Live(replayed)
        BY DEF Upto
      <4>1. PICK i \in DOMAIN wal : wal[i].row = t /\ wal[i].op = "insert"
        BY <3>3 DEF Live, Rows
      <4>2. i \in 1..replayed
        BY <3>1, <3>3, <4>1 DEF Beyond, Time
      <4>3. t \in Rows(replayed)
        BY <4>1, <4>2 DEF Rows
      <4>4. Deleted(replayed) \subseteq Deleted(Len(wal))
        BY <3>3 DEF Deleted
      <4>5. QED
        BY <4>3, <4>4 DEF Live
    <3>5. QED
      BY <3>2, <3>4 DEF RequestIsSound
  <2>3. CASE route_thread_replies
    <3>1. PICK ts \in Time \cup {-1} : req' = [NoReq EXCEPT !.pc = "thread", !.ts = ts]
      BY <2>3 DEF route_thread_replies
    <3>2. QED
      BY <3>1 DEF RequestIsSound, NoReq
  <2>4. CASE read_thread_replies
    <3>1. DOMAIN req = {"pc", "ts", "page", "truth"}
      BY DEF IInv, RequestIsSound
    <3>2. CASE \E P \in FirstRows(Live(replayed), req.ts) :
                 req' = [req EXCEPT !.pc = "thread_tail", !.page = P,
                                    !.truth = After(Live(Len(wal)), req.ts)]
      BY <3>1, <3>2 DEF RequestIsSound
    <3>3. CASE req' = NoReq
      BY <3>3 DEF RequestIsSound, NoReq
    <3>4. QED
      BY <2>4, <3>2, <3>3 DEF read_thread_replies
  <2>5. CASE serve_thread_replies
    <3>1. DOMAIN req = {"pc", "ts", "page", "truth"}
      BY DEF IInv, RequestIsSound
    <3>2. CASE req' = [req EXCEPT !.pc = "thread_served"]
      BY <3>1, <3>2 DEF RequestIsSound
    <3>3. CASE req' = NoReq
      BY <3>3 DEF RequestIsSound, NoReq
    <3>4. QED
      BY <2>5, <3>2, <3>3 DEF serve_thread_replies
  <2>6. QED
    BY <2>1, <2>2, <2>3, <2>4, <2>5 DEF RequestStep
<1>5. QED
  BY <1>2, <1>3, <1>4 DEF IInv

(* IInv is an inductive invariant.                                         *)
LEMMA Invariance == Spec => []IInv
<1>1. Init => IInv
  <2> SUFFICES ASSUME Init PROVE IInv
    OBVIOUS
  <2>1. wal = <<>> /\ Len(wal) = 0 /\ DOMAIN wal = {} /\ wal \in Seq(Record)
    BY DEF Init
  <2>2. 0 \in Time
    BY FenceAssumption DEF Time
  <2>3. \A t \in Txs : tx[t] \in Tx /\ ~Open(t)
    BY <2>2 DEF Init, NoTx, Tx, Open
  <2>4. TypeOK
    BY <2>1, <2>2, <2>3 DEF Init, TypeOK, Idle
  <2>5. QED
    BY <2>1, <2>3, <2>4 DEF Init, IInv, RowsAreYoung, LoggedAreDone, ProbeIsSound,
                            FenceIsSound, RequestIsSound, Idle, NoReq
<1>2. IInv /\ [Next]_vars => IInv'
  <2> SUFFICES ASSUME IInv, [Next]_vars PROVE IInv'
    OBVIOUS
  <2>1. CASE Tick \/ Replay \/ \E t \in Txs : WriterStep(t)
    <3>1. /\ TypeOK' /\ RowsAreYoung' /\ LoggedAreDone' /\ ProbeIsSound'
          /\ \A b \in Int : Beyond(b) => Beyond(b)'
          /\ fence' = fence /\ req' = req
      BY <2>1, WriterMovesOn
    <3>2. FenceIsSound'
      <4>1. fence # Closed => fence \in Int
        BY FenceAssumption DEF IInv, TypeOK, Stamp
      <4>2. fence # Closed => Beyond(fence)'
        BY <3>1, <4>1 DEF IInv, FenceIsSound
      <4>3. QED
        BY <3>1, <4>2 DEF FenceIsSound, Beyond
    <3>3. RequestIsSound'
      <4>1. req.pc = "window" => req.ts \in Time /\ Beyond(req.ts)'
        BY <3>1, FenceAssumption DEF IInv, RequestIsSound, Time
      <4>2. QED
        BY <3>1, <4>1 DEF IInv, RequestIsSound, Beyond
    <3>4. QED
      BY <3>1, <3>2, <3>3 DEF IInv
  <2>2. CASE ProbeStep
    BY <2>2, ProbeStepSound
  <2>3. CASE RequestStep
    BY <2>3, RequestStepSound
  <2>4. CASE UNCHANGED vars
    <3>1. UNCHANGED writer /\ fence' = fence /\ probe' = probe /\ req' = req
      BY <2>4 DEF vars
    <3>2. TypeOK'
      BY <3>1 DEF IInv, TypeOK, writer
    <3>3. QED
      BY <3>1, <3>2, WriterQuiet
      DEF IInv, ProbeIsSound, FenceIsSound, RequestIsSound, writer
  <2>5. QED
    BY <2>1, <2>2, <2>3, <2>4 DEF Next
<1>3. QED
  BY <1>1, <1>2, PTL DEF Spec

(* The fence of the replica (replica_fence.rs): while it is open, no       *)
(* committed channel row at or below it is missing on the replica,         *)
(* whatever was open, prepared or being committed when the probe ran.      *)
THEOREM FenceHolds == Spec => []FenceComplete
<1>1. IInv => FenceComplete
  <2> SUFFICES ASSUME IInv, fence # Closed, NEW t \in Committed, tx[t].created <= fence
               PROVE  t \in Replica
    BY DEF FenceComplete
  <2>1. PICK i \in 1..Len(wal) : wal[i].row = t /\ wal[i].op = "insert"
    BY DEF Committed, Rows
  <2>2. /\ fence \in Int /\ tx[t].created \in Int /\ i \in DOMAIN wal
        /\ replayed \in Nat /\ Len(wal) \in Nat
    BY <2>1, Logged, FenceAssumption DEF IInv, TypeOK, Tx, Stamp, Time
  <2>3. ~(i > replayed)
    BY <2>1, <2>2 DEF IInv, FenceIsSound, Beyond
  <2>4. QED
    BY <2>1, <2>2, <2>3 DEF Replica, Rows
<1>2. QED
  BY <1>1, Invariance, PTL

(* A channel window routed to the replica (get_channel_window) misses no   *)
(* row that the writer would have served at the moment of the read,        *)
(* although the fence was consulted earlier and may have been closed or    *)
(* advanced since.  Rows deleted since may still be in it.                 *)
THEOREM WindowHolds == Spec => []WindowPageComplete
<1>1. IInv => WindowPageComplete
  BY DEF IInv, RequestIsSound, WindowPageComplete
<1>2. QED
  BY <1>1, Invariance, PTL
=============================================================================
