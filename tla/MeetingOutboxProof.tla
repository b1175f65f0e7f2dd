------------------------- MODULE MeetingOutboxProof -------------------------
(***************************************************************************)
(* The order of publication and the completeness of delivery, for every    *)
(* number of workers, Meetings, rows and faults.                           *)
(***************************************************************************)
EXTENDS MeetingOutbox, WellFoundedInduction, SequenceTheorems, FiniteSetTheorems, TLAPS

(* A worker with work has a first row.                                     *)
LEMMA ItemInBatch ==
    ASSUME TypeOK, NEW w \in Workers, phase[w] # "idle"
    PROVE  Item(w) \in batch[w] /\ Item(w) \in DOMAIN rows
<1> DEFINE Less == {ss \in Nat \X Nat : ss[1] < ss[2]}
<1>1. IsWellFoundedOn(Less, Nat)
  BY NatLessThanWellFounded DEF OpToRel
<1>2. batch[w] \subseteq DOMAIN rows /\ DOMAIN rows \subseteq Nat /\ batch[w] # {}
  <2>1. rows \in Seq(Sessions) /\ batch[w] # {} /\ batch \in [Workers -> SUBSET DOMAIN rows]
    BY DEF TypeOK
  <2>2. QED BY <2>1
<1>3. \E x \in batch[w] : \A y \in batch[w] : ~ (<<y, x>> \in Less)
  BY <1>1, <1>2, WFMin
<1>4. \E x \in batch[w] : \A y \in batch[w] : x <= y
  <2>1. batch[w] \subseteq Nat
    BY <1>2
  <2>2. PICK x \in batch[w] : \A y \in batch[w] : ~ (<<y, x>> \in Less)
    BY <1>3
  <2>3. ASSUME NEW y \in batch[w] PROVE x <= y
    <3>1. x \in Nat /\ y \in Nat
      BY <2>1
    <3>2. y < x => <<y, x>> \in Less
      BY <3>1
    <3>3. ~ (y < x)
      BY Zenon, <2>2, <3>2
    <3>4. QED
      BY <3>1, <3>3
  <2>4. QED
    BY <2>3
<1>5. QED
  BY <1>2, <1>4 DEF Item

(* What the queue operators do to the elements of a queue.                 *)
LEMMA RangeOfAppend ==
    ASSUME NEW S, NEW q \in Seq(S), NEW x \in S
    PROVE  /\ Append(q, x) \in Seq(S)
           /\ \A y : y \in Range(Append(q, x)) <=> (y \in Range(q) \/ y = x)
<1>1. /\ Append(q, x) \in Seq(S) /\ Len(q) \in Nat /\ DOMAIN q = 1..Len(q)
      /\ DOMAIN Append(q, x) = 1..(Len(q) + 1)
      /\ Append(q, x)[Len(q) + 1] = x
      /\ \A k \in 1..Len(q) : Append(q, x)[k] = q[k]
  OBVIOUS
<1>2. ASSUME NEW y PROVE y \in Range(Append(q, x)) <=> (y \in Range(q) \/ y = x)
  <2>1. ASSUME y \in Range(q) \/ y = x PROVE y \in Range(Append(q, x))
    BY <1>1, <2>1 DEF Range
  <2>2. ASSUME y \in Range(Append(q, x)) PROVE y \in Range(q) \/ y = x
    <3>1. PICK k \in 1..(Len(q) + 1) : Append(q, x)[k] = y
      BY <1>1, <2>2 DEF Range
    <3>2. k = Len(q) + 1 \/ k \in 1..Len(q)
      BY <1>1
    <3>3. QED BY <1>1, <3>1, <3>2 DEF Range
  <2>3. QED BY <2>1, <2>2
<1>3. QED BY <1>1, <1>2

LEMMA RangeOfTail ==
    ASSUME NEW S, NEW q \in Seq(S), q # << >>
    PROVE  /\ Tail(q) \in Seq(S) /\ Head(q) \in Range(q)
           /\ \A y \in Range(q) : y = Head(q) \/ y \in Range(Tail(q))
           /\ \A y \in Range(Tail(q)) : y \in Range(q)
<1>1. /\ Tail(q) \in Seq(S) /\ Len(q) \in Nat \ {0} /\ DOMAIN q = 1..Len(q)
      /\ Head(q) = q[1] /\ DOMAIN Tail(q) = 1..(Len(q) - 1)
      /\ \A k \in 1..(Len(q) - 1) : Tail(q)[k] = q[k + 1]
  OBVIOUS
<1>2. Head(q) \in Range(q)
  BY <1>1 DEF Range
<1>3. ASSUME NEW y \in Range(q) PROVE y = Head(q) \/ y \in Range(Tail(q))
  <2>1. PICK k \in 1..Len(q) : q[k] = y
    BY <1>1 DEF Range
  <2>2. k = 1 \/ (k - 1 \in 1..(Len(q) - 1) /\ (k - 1) + 1 = k)
    BY <1>1
  <2>3. QED BY <1>1, <2>1, <2>2 DEF Range
<1>4. ASSUME NEW y \in Range(Tail(q)) PROVE y \in Range(q)
  <2>1. PICK k \in 1..(Len(q) - 1) : Tail(q)[k] = y
    BY <1>1 DEF Range
  <2>2. k + 1 \in 1..Len(q)
    BY <1>1
  <2>3. QED BY <1>1, <2>1, <2>2 DEF Range
<1>5. QED BY <1>1, <1>2, <1>3, <1>4

LEMMA RangeOfSubSeq ==
    ASSUME NEW S, NEW q \in Seq(S), NEW m \in 0..Len(q), NEW n \in m..Len(q)
    PROVE  /\ SubSeq(q, m + 1, n) \in Seq(S)
           /\ \A y \in Range(SubSeq(q, m + 1, n)) : y \in Range(q)
<1>1. /\ Len(q) \in Nat /\ DOMAIN q = 1..Len(q) /\ m \in Nat /\ n \in Nat
      /\ m + 1 \in 1..(Len(q) + 1) /\ n \in ((m + 1) - 1)..Len(q)
  OBVIOUS
<1> DEFINE sub == SubSeq(q, m + 1, n)
<1>2. /\ sub \in Seq(S) /\ Len(sub) = n - (m + 1) + 1
      /\ \A k \in 1..(n - (m + 1) + 1) : sub[k] = q[(m + 1) + k - 1]
  BY <1>1, SubSeqProperties
<1> HIDE DEF sub
<1>3. ASSUME NEW y \in Range(sub) PROVE y \in Range(q)
  <2>1. PICK k \in 1..(n - m) : sub[k] = y
    BY <1>1, <1>2 DEF Range
  <2>2. sub[k] = q[m + k] /\ m + k \in 1..Len(q)
    BY <1>1, <1>2
  <2>3. QED BY <1>1, <2>1, <2>2 DEF Range
<1>4. QED BY <1>2, <1>3 DEF sub

LEMMA RangeIn ==
    ASSUME NEW S, NEW q \in Seq(S)
    PROVE  Range(q) \subseteq S
  BY DEF Range
-----------------------------------------------------------------------------
(* What a worker holds is the head of its session for good: every          *)
(* predecessor is acknowledged.  What is acknowledged, about to be, or in  *)
(* a pipe was published.                                                   *)
HeldAreHeads == \A w \in Workers : \A i \in batch[w] : Predecessors(i) \subseteq delivered

AckedArePublished == delivered \subseteq Range(published)

PastPublish ==
    \A w \in Workers : phase[w] \in {"published", "ack"} => Item(w) \in Range(published)

PipesArePublished == \A w \in Workers : Range(bus[w]) \subseteq Range(published)

(* A mark stands for a fan-out that was done or is about to be.            *)
MarksAreKept ==
    \A w \in Workers : \A i \in local_event_ids[w] : i \in settled[w] \/ AboutToShow(w, i)

(* Whatever was published is on its way to every process.                  *)
PublishedIsOnItsWay ==
    \A w \in Workers : \A i \in Range(published) :
        i \in settled[w] \/ i \in Range(bus[w]) \/ AboutToShow(w, i)

FirstInOrder ==
    \A k \in DOMAIN published : \A j \in Predecessors(published[k]) :
        \E m \in 1..(k - 1) : published[m] = j

SettledInOrder ==
    \A w \in Workers : \A i \in settled[w] : Predecessors(i) \subseteq Range(published)

IInv == /\ TypeOK
        /\ HeldAreHeads /\ AckedArePublished /\ PastPublish /\ PipesArePublished
        /\ MarksAreKept /\ PublishedIsOnItsWay
        /\ FirstInOrder /\ SettledInOrder

(* What was published was published after its predecessors.                *)
LEMMA PredecessorsPublished ==
    ASSUME IInv, NEW i \in Range(published)
    PROVE  Predecessors(i) \subseteq Range(published)
<1>1. published \in Seq(DOMAIN rows) /\ FirstInOrder
  BY DEF IInv, TypeOK
<1>2. PICK k \in DOMAIN published : published[k] = i
  BY DEF Range
<1>3. ASSUME NEW j \in Predecessors(i) PROVE j \in Range(published)
  <2>1. PICK m \in 1..(k - 1) : published[m] = j
    BY <1>1, <1>2 DEF FirstInOrder
  <2>2. m \in DOMAIN published
    BY <1>1, <2>1
  <2>3. QED BY <2>1, <2>2 DEF Range
<1>4. QED BY <1>3

(* A PUBLISH of a row all of whose predecessors are published.             *)
LEMMA PublishKeepsOrder ==
    ASSUME IInv, NEW i \in DOMAIN rows, Predecessors(i) \subseteq Range(published),
           publish_event(i), rows' = rows
    PROVE  /\ published' \in Seq(DOMAIN rows)
           /\ bus' \in [Workers -> Seq(DOMAIN rows)]
           /\ FirstInOrder'
           /\ \A j : j \in Range(published)' <=> (j \in Range(published) \/ j = i)
           /\ \A v \in Workers : \A j :
                 j \in Range(bus'[v]) <=> (j \in Range(bus[v]) \/ j = i)
<1>1. /\ bus \in [Workers -> Seq(DOMAIN rows)] /\ published \in Seq(DOMAIN rows)
      /\ FirstInOrder
      /\ Len(published) \in Nat /\ DOMAIN published = 1..Len(published)
  BY DEF IInv, TypeOK
<1>2. \A j : Predecessors(j)' = Predecessors(j)
  BY DEF Predecessors
<1>3. ASSUME NEW v \in Workers
      PROVE  /\ bus'[v] \in Seq(DOMAIN rows)
             /\ \A j : j \in Range(bus'[v]) <=> (j \in Range(bus[v]) \/ j = i)
  <2>1. bus'[v] = Append(bus[v], i) /\ bus[v] \in Seq(DOMAIN rows)
    BY <1>1 DEF publish_event
  <2>2. QED BY <2>1, RangeOfAppend
<1>4. bus' \in [Workers -> Seq(DOMAIN rows)]
  <2>1. bus' = [v \in Workers |-> bus'[v]]
    BY DEF publish_event
  <2>2. QED BY <1>3, <2>1
<1>5. CASE i \in Range(published)
  <2>1. published' = published
    BY <1>5 DEF publish_event
  <2>2. FirstInOrder'
    BY <1>1, <1>2, <2>1 DEF FirstInOrder
  <2>3. QED BY <1>1, <1>3, <1>4, <1>5, <2>1, <2>2
<1>6. CASE i \notin Range(published)
  <2>1. published' = Append(published, i)
    BY <1>6 DEF publish_event
  <2>2. /\ published' \in Seq(DOMAIN rows)
        /\ \A j : j \in Range(published') <=> (j \in Range(published) \/ j = i)
    BY <1>1, <2>1, RangeOfAppend
  <2> DEFINE n == Len(published) + 1
  <2>3. /\ DOMAIN published' = 1..n /\ published'[n] = i
        /\ \A k \in 1..Len(published) : published'[k] = published[k]
    BY <1>1, <2>1
  <2>4. ASSUME NEW k \in DOMAIN published', NEW j \in Predecessors(published'[k])
        PROVE  \E m \in 1..(k - 1) : published'[m] = j
    <3>1. CASE k = n
      <4>1. j \in Range(published)
        BY <2>3, <2>4, <3>1
      <4>2. PICK m \in 1..Len(published) : published[m] = j
        BY <1>1, <4>1 DEF Range
      <4>3. QED BY <1>1, <2>3, <3>1, <4>2
    <3>2. CASE k # n
      <4>1. k \in 1..Len(published) /\ published'[k] = published[k]
        BY <1>1, <2>3, <3>2
      <4>2. PICK m \in 1..(k - 1) : published[m] = j
        BY <1>1, <2>4, <4>1 DEF FirstInOrder
      <4>3. m \in 1..Len(published)
        BY <1>1, <4>1
      <4>4. QED BY <2>3, <4>2, <4>3
    <3>3. QED BY <3>1, <3>2
  <2>5. FirstInOrder'
    BY <1>2, <2>4 DEF FirstInOrder
  <2>6. Range(published)' = Range(published')
    BY DEF Range
  <2>7. QED BY <1>3, <1>4, <2>2, <2>5, <2>6
<1>7. QED BY <1>5, <1>6

(* A step of the table and of the workers that leaves the network alone.   *)
LEMMA QuietStep ==
    ASSUME IInv, TypeOK', rows' = rows, UNCHANGED net, delivered \subseteq delivered',
           delivered' \subseteq Range(published),
           \A w \in Workers : \A i \in batch'[w] :
               i \in batch[w] \/ Predecessors(i) \subseteq delivered,
           \A w \in Workers : phase'[w] \in {"published", "failed", "ack"} =>
               phase[w] = phase'[w] /\ batch'[w] = batch[w],
           \A w \in Workers : phase[w] \in {"published", "failed"} =>
               phase[w] = phase'[w] /\ batch'[w] = batch[w]
    PROVE  IInv'
<1>1. \A j : Predecessors(j)' = Predecessors(j)
  BY DEF Predecessors
<1>2. UNCHANGED <<bus, local_event_ids, settled, published>>
  BY DEF net
<1>3. HeldAreHeads'
  BY <1>1 DEF IInv, HeldAreHeads
<1>4. \A w \in Workers : batch'[w] = batch[w] => Item(w)' = Item(w)
  BY DEF Item
<1>5. \A w \in Workers : \A i : AboutToShow(w, i) => AboutToShow(w, i)'
  BY <1>4 DEF AboutToShow
<1>6. PastPublish' /\ AckedArePublished'
  BY <1>2, <1>4 DEF IInv, PastPublish, AckedArePublished, Range
<1>7. PipesArePublished'
  BY <1>2 DEF IInv, PipesArePublished, Range
<1>8. MarksAreKept'
  BY <1>2, <1>5 DEF IInv, MarksAreKept
<1>9. PublishedIsOnItsWay'
  <2>1. ASSUME NEW w \in Workers, NEW i \in Range(published)
        PROVE  i \in settled[w] \/ i \in Range(bus[w]) \/ AboutToShow(w, i)'
    BY <1>5 DEF IInv, PublishedIsOnItsWay
  <2>2. QED BY <1>2, <2>1 DEF PublishedIsOnItsWay, Range
<1>10. FirstInOrder' /\ SettledInOrder'
  BY <1>1, <1>2 DEF IInv, FirstInOrder, SettledInOrder, Range
<1>11. QED
  BY <1>3, <1>6, <1>7, <1>8, <1>9, <1>10 DEF IInv

LEMMA EnqueueStep ==
    ASSUME IInv, NEW s \in Sessions, enqueue_meeting_event(s)
    PROVE  IInv'
<1>1. /\ rows \in Seq(Sessions) /\ Len(rows) \in Nat /\ Len(rows) < MaxRows
      /\ rows' = Append(rows, s) /\ DOMAIN rows = 1..Len(rows)
      /\ TypeOK
  BY DEF IInv, TypeOK, enqueue_meeting_event
<1>2. /\ rows' \in Seq(Sessions) /\ Len(rows') = Len(rows) + 1
      /\ DOMAIN rows' = 1..(Len(rows) + 1)
      /\ \A i \in DOMAIN rows : rows'[i] = rows[i]
  BY <1>1
<1>3. DOMAIN rows \subseteq DOMAIN rows'
  BY <1>1, <1>2
<1>4. UNCHANGED <<delivered, claimed_by, leased, backoff, batch, phase, faults,
                  bus, local_event_ids, settled, published>>
  BY DEF enqueue_meeting_event, net
<1>5. TypeOK'
  <2>1. Len(rows') <= MaxRows
    BY <1>1, <1>2, OutboxAssumption
  <2>2. Seq(DOMAIN rows) \subseteq Seq(DOMAIN rows')
    BY <1>3
  <2>3. bus' \in [Workers -> Seq(DOMAIN rows')] /\ published' \in Seq(DOMAIN rows')
    BY <1>1, <1>4, <2>2 DEF TypeOK
  <2>4. /\ batch' \in [Workers -> SUBSET DOMAIN rows']
        /\ local_event_ids' \in [Workers -> SUBSET DOMAIN rows']
        /\ settled' \in [Workers -> SUBSET DOMAIN rows']
    BY <1>1, <1>3, <1>4 DEF TypeOK
  <2>5. QED
    BY <1>1, <1>2, <1>3, <1>4, <2>1, <2>3, <2>4 DEF TypeOK
<1>6. \A i \in DOMAIN rows : Predecessors(i)' = Predecessors(i)
  BY <1>1, <1>2 DEF Predecessors
<1>7. HeldAreHeads' /\ SettledInOrder'
  BY <1>1, <1>4, <1>6 DEF IInv, HeldAreHeads, SettledInOrder, TypeOK, Range
<1>8. AckedArePublished' /\ PastPublish' /\ PipesArePublished' /\ MarksAreKept'
      /\ PublishedIsOnItsWay'
  BY <1>4 DEF IInv, AckedArePublished, PastPublish, PipesArePublished, MarksAreKept,
              PublishedIsOnItsWay, AboutToShow, Item, Range
<1>9. FirstInOrder'
  <2>1. published \in Seq(DOMAIN rows) /\ published' = published
    BY <1>1, <1>4 DEF TypeOK
  <2>2. \A k \in DOMAIN published : published[k] \in DOMAIN rows
    BY <2>1
  <2>3. QED
    BY <1>6, <2>1, <2>2 DEF IInv, FirstInOrder
<1>10. QED
  BY <1>5, <1>7, <1>8, <1>9 DEF IInv

LEMMA ClaimStep ==
    ASSUME IInv, NEW w \in Workers, claim_outbox_batch(w) \/ claim_outbox_error(w)
    PROVE  IInv'
<1>1. TypeOK
  BY DEF IInv
<1>2. PICK S \in Claimable : Claim(w, S)
  BY DEF claim_outbox_batch, claim_outbox_error
<1>3. S \subseteq Eligible /\ S \subseteq DOMAIN rows
  BY DEF Claimable, Eligible
<1>4. /\ rows' = rows /\ delivered' = delivered /\ backoff' = backoff /\ UNCHANGED net
      /\ leased' = leased \cup S
      /\ claimed_by' = [i \in Row |-> IF i \in S THEN w ELSE claimed_by[i]]
  BY <1>2 DEF Claim, claim_outbox_batch, claim_outbox_error
<1>5. claimed_by' \in [Row -> Workers \cup {Null, Gone}]
  BY <1>1, <1>4 DEF TypeOK
<1>5a. delivered' \subseteq Range(published)
  BY <1>4 DEF IInv, AckedArePublished
<1>6. CASE claim_outbox_batch(w)
  <2>1. PICK T \in Claimable :
           /\ Claim(w, T)
           /\ batch' = [batch EXCEPT ![w] = T]
           /\ phase' = [phase EXCEPT ![w] = "dispatch"]
    BY <1>6 DEF claim_outbox_batch
  <2>2. T \subseteq Eligible /\ T \subseteq DOMAIN rows /\ faults' = faults
    BY <1>6 DEF Claimable, Eligible, claim_outbox_batch
  <2>3. T # {}
    <3>1. Eligible # {}
      BY <1>6 DEF claim_outbox_batch
    <3>2. T = Eligible \/ Cardinality(T) = BatchLimit
      BY DEF Claimable
    <3>3. Cardinality({}) = 0
      BY FS_EmptySet
    <3>4. QED
      BY <3>1, <3>2, <3>3, OutboxAssumption
  <2>4. TypeOK'
    BY <1>1, <1>3, <1>4, <1>5, <2>1, <2>2, <2>3 DEF TypeOK, net
  <2>5. \A i \in T : Predecessors(i) \subseteq delivered
    BY <2>2 DEF Eligible
  <2>6. phase[w] = "idle"
    BY <1>6 DEF claim_outbox_batch
  <2>7. QED
    BY <1>1, <1>4, <1>5a, <2>1, <2>4, <2>5, <2>6, QuietStep DEF TypeOK
<1>7. CASE claim_outbox_error(w)
  <2>1. batch' = batch /\ phase' = phase
    BY <1>7 DEF claim_outbox_error
  <2>2. faults' \in 0..MaxFaults
    BY <1>1, <1>7, OutboxAssumption DEF TypeOK, claim_outbox_error, Fault
  <2>3. TypeOK'
    BY <1>1, <1>3, <1>4, <1>5, <2>1, <2>2 DEF TypeOK, net
  <2>4. QED
    BY <1>4, <1>5a, <2>1, <2>3, QuietStep
<1>8. QED BY <1>6, <1>7

(* The mark is set and Redis takes the event, or does not.                 *)
LEMMA PublishStep ==
    ASSUME IInv, NEW w \in Workers, publish(w) \/ publish_error(w)
    PROVE  IInv'
<1>1. /\ TypeOK /\ phase[w] = "dispatch" /\ HeldAreHeads /\ AckedArePublished
      /\ phase \in [Workers -> {"idle", "dispatch", "published", "failed", "ack", "release"}]
  BY DEF IInv, TypeOK, publish, publish_error
<1>2. PICK i : i = Item(w)
  OBVIOUS
<1>3. /\ i \in batch[w] /\ i \in DOMAIN rows
      /\ Predecessors(i) \subseteq Range(published)
  BY <1>1, <1>2, ItemInBatch DEF HeldAreHeads, AckedArePublished
<1>4. /\ UNCHANGED <<rows, delivered, claimed_by, leased, backoff, batch, settled>>
      /\ local_event_ids' = [local_event_ids EXCEPT ![w] = @ \cup {i}]
      /\ \/ publish_event(i) /\ phase' \in {[phase EXCEPT ![w] = "published"],
                                            [phase EXCEPT ![w] = "failed"]}
         \/ UNCHANGED <<bus, published>> /\ phase' = [phase EXCEPT ![w] = "failed"]
  BY <1>2 DEF publish, publish_error, table, mark_local_event, Goto
<1>5. faults' \in 0..MaxFaults
  <2>1. faults \in 0..MaxFaults
    BY <1>1 DEF TypeOK
  <2>2. faults' = faults \/ (faults < MaxFaults /\ faults' = faults + 1)
    BY DEF publish, publish_error, Fault
  <2>3. QED BY <2>1, <2>2, OutboxAssumption
<1>6. /\ published' \in Seq(DOMAIN rows)
      /\ bus' \in [Workers -> Seq(DOMAIN rows)]
      /\ FirstInOrder'
      /\ \A j \in Range(published) : j \in Range(published)'
      /\ \A j \in Range(published)' :
            j \in Range(published) \/ (j = i /\ \A v \in Workers : i \in Range(bus'[v]))
      /\ \A v \in Workers : \A j \in Range(bus[v]) : j \in Range(bus'[v])
      /\ \A v \in Workers : \A j \in Range(bus'[v]) :
            j \in Range(bus[v]) \/ (j = i /\ i \in Range(published)')
      /\ phase'[w] = "published" => i \in Range(published)'
  <2>1. CASE publish_event(i)
    BY <1>3, <1>4, <2>1, PublishKeepsOrder
  <2>2. CASE UNCHANGED <<bus, published>> /\ phase' = [phase EXCEPT ![w] = "failed"]
    <3>1. published \in Seq(DOMAIN rows) /\ bus \in [Workers -> Seq(DOMAIN rows)] /\ FirstInOrder
      BY DEF IInv, TypeOK
    <3>2. FirstInOrder'
      BY <1>4, <2>2, <3>1 DEF FirstInOrder, Predecessors
    <3>3. Range(published)' = Range(published) /\ phase'[w] = "failed"
      BY <1>1, <2>2 DEF Range
    <3>4. QED BY <2>2, <3>1, <3>2, <3>3
  <2>3. QED BY <1>4, <2>1, <2>2
<1>7. /\ phase' \in [Workers -> {"idle", "dispatch", "published", "failed", "ack", "release"}]
      /\ phase'[w] \in {"published", "failed"}
      /\ \A u \in Workers \ {w} : phase'[u] = phase[u]
  BY <1>1, <1>4
<1>8. TypeOK'
  <2>1. local_event_ids' \in [Workers -> SUBSET DOMAIN rows]
    BY <1>1, <1>3, <1>4 DEF TypeOK
  <2>2. \A u \in Workers : (phase'[u] = "idle") <=> (batch'[u] = {})
    BY <1>1, <1>4, <1>7 DEF TypeOK
  <2>3. QED
    BY <1>1, <1>4, <1>5, <1>6, <1>7, <2>1, <2>2 DEF TypeOK
<1>9. \A u \in Workers : Item(u)' = Item(u)
  BY <1>4 DEF Item
<1>10. \A j : Predecessors(j)' = Predecessors(j)
  BY <1>4 DEF Predecessors
<1>11. HeldAreHeads' /\ AckedArePublished'
  BY <1>1, <1>4, <1>6, <1>10 DEF HeldAreHeads, AckedArePublished
<1>12. PastPublish'
  BY <1>2, <1>6, <1>7, <1>9 DEF IInv, PastPublish
<1>13. PipesArePublished'
  <2>1. ASSUME NEW v \in Workers, NEW j \in Range(bus'[v]) PROVE j \in Range(published)'
    BY <1>6, <2>1 DEF IInv, PipesArePublished
  <2>2. QED BY <2>1 DEF PipesArePublished, Range
<1>14. /\ AboutToShow(w, i)'
       /\ \A u \in Workers : \A j : AboutToShow(u, j) => AboutToShow(u, j)'
  BY <1>1, <1>2, <1>7, <1>9 DEF AboutToShow
<1>15. MarksAreKept'
  <2>1. ASSUME NEW u \in Workers, NEW j \in local_event_ids'[u]
        PROVE  j \in settled'[u] \/ AboutToShow(u, j)'
    <3>1. j \in local_event_ids[u] \/ (u = w /\ j = i)
      BY <1>1, <1>4, <2>1 DEF TypeOK
    <3>2. QED BY <1>4, <1>14, <3>1 DEF IInv, MarksAreKept
  <2>2. QED BY <2>1 DEF MarksAreKept
<1>16. PublishedIsOnItsWay'
  <2>1. ASSUME NEW u \in Workers, NEW j \in Range(published)'
        PROVE  j \in settled'[u] \/ j \in Range(bus'[u]) \/ AboutToShow(u, j)'
    BY <1>4, <1>6, <1>14, <2>1 DEF IInv, PublishedIsOnItsWay
  <2>2. QED BY <2>1 DEF PublishedIsOnItsWay, Range
<1>17. SettledInOrder'
  BY <1>4, <1>6, <1>10 DEF IInv, SettledInOrder
<1>18. QED
  BY <1>6, <1>8, <1>11, <1>12, <1>13, <1>15, <1>16, <1>17 DEF IInv

(* A process shows a row, of its own batch or from its pipe, or loses a    *)
(* part of its pipe.  Rows leave the pipe for the settled ones, or stay    *)
(* behind for a fan-out that is about to come.                             *)
LEMMA ShowStep ==
    ASSUME IInv, TypeOK', NEW w \in Workers,
           UNCHANGED <<rows, delivered, batch, published>>,
           \A u \in Workers \ {w} :
               /\ bus'[u] = bus[u] /\ local_event_ids'[u] = local_event_ids[u]
               /\ settled'[u] = settled[u] /\ phase'[u] = phase[u],
           settled[w] \subseteq settled'[w],
           \A i \in settled'[w] \ settled[w] : Predecessors(i) \subseteq Range(published),
           local_event_ids'[w] \subseteq local_event_ids[w],
           \A i \in Range(bus'[w]) : i \in Range(bus[w]),
           \A i \in Range(bus[w]) :
               i \in Range(bus'[w]) \/ i \in settled'[w] \/ AboutToShow(w, i)',
           \A i : AboutToShow(w, i) => i \in settled'[w] \/ AboutToShow(w, i)',
           phase'[w] \in {"published", "ack"} =>
               phase[w] \in {"published", "ack"}
    PROVE  IInv'
<1>1. \A j : Predecessors(j)' = Predecessors(j)
  BY DEF Predecessors
<1>2. \A u \in Workers : Item(u)' = Item(u)
  BY DEF Item
<1>3. Range(published)' = Range(published)
  BY DEF Range
<1>4. HeldAreHeads' /\ AckedArePublished' /\ FirstInOrder'
  BY <1>1, <1>3 DEF IInv, HeldAreHeads, AckedArePublished, FirstInOrder
<1>5. PastPublish'
  <2>1. ASSUME NEW u \in Workers, phase'[u] \in {"published", "ack"}
        PROVE  Item(u) \in Range(published)
    <3>1. phase[u] \in {"published", "ack"}
      BY <2>1
    <3>2. QED BY <3>1 DEF IInv, PastPublish
  <2>2. QED BY <1>2, <1>3, <2>1 DEF PastPublish
<1>6. PipesArePublished'
  <2>1. ASSUME NEW u \in Workers, NEW i \in Range(bus'[u]) PROVE i \in Range(published)
    BY <2>1 DEF IInv, PipesArePublished
  <2>2. QED BY <1>3, <2>1 DEF PipesArePublished, Range
<1>7. \A u \in Workers \ {w} : \A i : AboutToShow(u, i) => AboutToShow(u, i)'
  BY <1>2 DEF AboutToShow
<1>8. MarksAreKept'
  <2>1. ASSUME NEW u \in Workers, NEW i \in local_event_ids'[u]
        PROVE  i \in settled'[u] \/ AboutToShow(u, i)'
    <3>1. i \in local_event_ids[u]
      BY <2>1
    <3>2. i \in settled[u] \/ AboutToShow(u, i)
      BY <3>1 DEF IInv, MarksAreKept
    <3>3. QED BY <1>7, <3>2
  <2>2. QED BY <2>1 DEF MarksAreKept
<1>9. PublishedIsOnItsWay'
  <2>1. ASSUME NEW u \in Workers, NEW i \in Range(published)
        PROVE  i \in settled'[u] \/ i \in Range(bus'[u]) \/ AboutToShow(u, i)'
    <3>1. i \in settled[u] \/ i \in Range(bus[u]) \/ AboutToShow(u, i)
      BY DEF IInv, PublishedIsOnItsWay
    <3>2. CASE u = w
      BY <3>1, <3>2
    <3>3. CASE u # w
      BY <1>7, <3>1, <3>3
    <3>4. QED BY <3>2, <3>3
  <2>2. QED BY <1>3, <2>1 DEF PublishedIsOnItsWay, Range
<1>10. SettledInOrder'
  <2>1. ASSUME NEW u \in Workers, NEW i \in settled'[u]
        PROVE  Predecessors(i) \subseteq Range(published)
    <3>1. CASE i \in settled[u]
      BY <3>1 DEF IInv, SettledInOrder
    <3>2. CASE i \notin settled[u]
      BY <2>1, <3>2
    <3>3. QED BY <3>1, <3>2
  <2>2. QED BY <1>1, <1>3, <2>1 DEF SettledInOrder
<1>11. QED
  BY <1>4, <1>5, <1>6, <1>8, <1>9, <1>10 DEF IInv

LEMMA DispatchStep ==
    ASSUME IInv, NEW w \in Workers, dispatch_ok(w) \/ dispatch_failed(w)
    PROVE  IInv'
<1>1. /\ TypeOK /\ phase[w] \in {"published", "failed"} /\ HeldAreHeads /\ AckedArePublished
      /\ phase \in [Workers -> {"idle", "dispatch", "published", "failed", "ack", "release"}]
  BY DEF IInv, TypeOK, dispatch_ok, dispatch_failed
<1>2. PICK i : i = Item(w)
  OBVIOUS
<1>3. /\ i \in batch[w] /\ i \in DOMAIN rows
      /\ Predecessors(i) \subseteq Range(published)
  BY <1>1, <1>2, ItemInBatch DEF HeldAreHeads, AckedArePublished
<1>4. /\ UNCHANGED <<rows, delivered, claimed_by, leased, backoff, batch, bus, published, faults>>
      /\ settled' = [settled EXCEPT ![w] = @ \cup {i}]
      /\ local_event_ids' \in {local_event_ids, [local_event_ids EXCEPT ![w] = @ \ {i}]}
      /\ \/ phase[w] = "published" /\ phase' = [phase EXCEPT ![w] = "ack"]
         \/ phase' = [phase EXCEPT ![w] = "release"]
  BY <1>2 DEF dispatch_ok, dispatch_failed, table, invalidate, Show, Goto
<1>5. /\ settled' \in [Workers -> SUBSET DOMAIN rows]
      /\ settled'[w] = settled[w] \cup {i}
      /\ local_event_ids' \in [Workers -> SUBSET DOMAIN rows]
      /\ local_event_ids'[w] \subseteq local_event_ids[w]
      /\ phase' \in [Workers -> {"idle", "dispatch", "published", "failed", "ack", "release"}]
      /\ phase'[w] \in {"ack", "release"}
      /\ phase'[w] = "ack" => phase[w] = "published"
      /\ \A u \in Workers \ {w} :
            /\ local_event_ids'[u] = local_event_ids[u]
            /\ settled'[u] = settled[u] /\ phase'[u] = phase[u]
  BY <1>1, <1>3, <1>4 DEF TypeOK
<1>6. TypeOK'
  <2>1. \A u \in Workers : (phase'[u] = "idle") <=> (batch'[u] = {})
    BY <1>1, <1>4, <1>5 DEF TypeOK
  <2>2. QED BY <1>1, <1>4, <1>5, <2>1 DEF TypeOK
<1>7. \A j : AboutToShow(w, j) => j = i
  BY <1>2 DEF AboutToShow
<1>8. QED
  BY <1>3, <1>4, <1>5, <1>6, <1>7, ShowStep

LEMMA ArriveStep ==
    ASSUME IInv, NEW w \in Workers, fan_out_pubsub_event(w)
    PROVE  IInv'
<1>1. /\ TypeOK /\ PipesArePublished /\ MarksAreKept
      /\ bus \in [Workers -> Seq(DOMAIN rows)] /\ bus[w] # << >>
  BY DEF IInv, TypeOK, fan_out_pubsub_event
<1>2. PICK i : i = Head(bus[w])
  OBVIOUS
<1>3. /\ Tail(bus[w]) \in Seq(DOMAIN rows) /\ i \in Range(bus[w])
      /\ \A y \in Range(bus[w]) : y = i \/ y \in Range(Tail(bus[w]))
      /\ \A y \in Range(Tail(bus[w])) : y \in Range(bus[w])
  <2>1. bus[w] \in Seq(DOMAIN rows)
    BY <1>1
  <2>2. QED BY <1>1, <1>2, <2>1, RangeOfTail
<1>4. i \in DOMAIN rows /\ i \in Range(published) /\ Predecessors(i) \subseteq Range(published)
  <2>1. i \in Range(published)
    BY <1>1, <1>3 DEF PipesArePublished
  <2>2. published \in Seq(DOMAIN rows)
    BY <1>1 DEF TypeOK
  <2>3. i \in DOMAIN rows
    BY <2>1, <2>2, RangeIn
  <2>4. QED BY <2>1, <2>3, PredecessorsPublished
<1>5. /\ UNCHANGED <<rows, delivered, claimed_by, leased, backoff, batch, phase, published, faults>>
      /\ bus' = [bus EXCEPT ![w] = Tail(bus[w])]
      /\ local_event_ids' = [local_event_ids EXCEPT ![w] = @ \ {i}]
      /\ \/ i \in local_event_ids[w] /\ settled' = settled
         \/ settled' = [settled EXCEPT ![w] = @ \cup {i}]
  BY <1>2 DEF fan_out_pubsub_event, table, invalidate, Show
<1>6. /\ settled' \in [Workers -> SUBSET DOMAIN rows]
      /\ settled'[w] \in {settled[w], settled[w] \cup {i}}
      /\ local_event_ids' \in [Workers -> SUBSET DOMAIN rows]
      /\ local_event_ids'[w] \subseteq local_event_ids[w]
      /\ bus' \in [Workers -> Seq(DOMAIN rows)] /\ bus'[w] = Tail(bus[w])
      /\ i \in settled'[w] \/ i \in local_event_ids[w]
      /\ \A u \in Workers \ {w} :
            /\ bus'[u] = bus[u] /\ local_event_ids'[u] = local_event_ids[u]
            /\ settled'[u] = settled[u]
  <2>1. settled \in [Workers -> SUBSET DOMAIN rows]
        /\ local_event_ids \in [Workers -> SUBSET DOMAIN rows]
    BY <1>1 DEF TypeOK
  <2>2. /\ settled' \in [Workers -> SUBSET DOMAIN rows]
        /\ settled'[w] \in {settled[w], settled[w] \cup {i}}
        /\ i \in settled'[w] \/ i \in local_event_ids[w]
        /\ \A u \in Workers \ {w} : settled'[u] = settled[u]
    BY <1>4, <1>5, <2>1
  <2>3. /\ local_event_ids' \in [Workers -> SUBSET DOMAIN rows]
        /\ local_event_ids'[w] \subseteq local_event_ids[w]
        /\ \A u \in Workers \ {w} : local_event_ids'[u] = local_event_ids[u]
    BY <1>5, <2>1
  <2>4. /\ bus' \in [Workers -> Seq(DOMAIN rows)] /\ bus'[w] = Tail(bus[w])
        /\ \A u \in Workers \ {w} : bus'[u] = bus[u]
    BY <1>1, <1>3, <1>5
  <2>5. QED BY <2>2, <2>3, <2>4
<1>7. TypeOK'
  BY <1>1, <1>5, <1>6 DEF TypeOK
<1>8. \A j : AboutToShow(w, j)' = AboutToShow(w, j)
  BY <1>5 DEF AboutToShow, Item
<1>9. i \in settled'[w] \/ AboutToShow(w, i)'
  <2>1. CASE i \in local_event_ids[w]
    <3>1. i \in settled[w] \/ AboutToShow(w, i)
      BY <1>1, <2>1 DEF MarksAreKept
    <3>2. QED BY <1>6, <1>8, <3>1
  <2>2. QED BY <1>6, <2>1
<1>10. \A j \in Range(bus[w]) : j \in Range(bus'[w]) \/ j \in settled'[w] \/ AboutToShow(w, j)'
  BY <1>3, <1>6, <1>9
<1>11. /\ settled[w] \subseteq settled'[w]
       /\ \A j \in settled'[w] \ settled[w] : Predecessors(j) \subseteq Range(published)
       /\ \A j \in Range(bus'[w]) : j \in Range(bus[w])
  BY <1>3, <1>4, <1>6
<1>12. QED
  BY <1>5, <1>6, <1>7, <1>8, <1>10, <1>11, ShowStep

LEMMA LoseStep ==
    ASSUME IInv, NEW w \in Workers, pipe_loses(w)
    PROVE  IInv'
<1>1. /\ TypeOK /\ PipesArePublished
      /\ bus \in [Workers -> Seq(DOMAIN rows)] /\ bus[w] \in Seq(DOMAIN rows)
      /\ faults' \in 0..MaxFaults
  BY OutboxAssumption DEF IInv, TypeOK, pipe_loses, Fault
<1>2. PICK m \in 0..Len(bus[w]) : \E n \in m..Len(bus[w]) :
         bus' = [bus EXCEPT ![w] = SubSeq(bus[w], m + 1, n)]
  BY DEF pipe_loses
<1>3. PICK n \in m..Len(bus[w]) : bus' = [bus EXCEPT ![w] = SubSeq(bus[w], m + 1, n)]
  BY <1>2
<1>4. /\ bus' \in [Workers -> Seq(DOMAIN rows)]
      /\ \A i \in Range(bus'[w]) : i \in Range(bus[w])
      /\ \A u \in Workers \ {w} : bus'[u] = bus[u]
  <2>1. /\ SubSeq(bus[w], m + 1, n) \in Seq(DOMAIN rows)
        /\ \A i \in Range(SubSeq(bus[w], m + 1, n)) : i \in Range(bus[w])
    BY <1>1, RangeOfSubSeq
  <2>2. bus'[w] = SubSeq(bus[w], m + 1, n)
    BY <1>1, <1>3
  <2>3. QED BY <1>1, <1>3, <2>1, <2>2
<1>5. /\ UNCHANGED <<rows, delivered, claimed_by, leased, backoff, batch, phase,
                    local_event_ids, published>>
      /\ settled' = [settled EXCEPT ![w] = @ \cup (Range(bus[w]) \ Range(bus'[w]))]
  BY DEF pipe_loses, table
<1>6. Range(bus[w]) \subseteq DOMAIN rows
  BY <1>1, RangeIn
<1>7. /\ settled' \in [Workers -> SUBSET DOMAIN rows]
      /\ settled'[w] = settled[w] \cup (Range(bus[w]) \ Range(bus'[w]))
      /\ \A u \in Workers \ {w} : settled'[u] = settled[u]
  BY <1>1, <1>5, <1>6 DEF TypeOK
<1>8. TypeOK'
  BY <1>1, <1>4, <1>5, <1>7 DEF TypeOK
<1>9. \A i \in Range(bus[w]) : Predecessors(i) \subseteq Range(published)
  BY <1>1, PredecessorsPublished DEF PipesArePublished
<1>10. \A j : AboutToShow(w, j)' = AboutToShow(w, j)
  BY <1>5 DEF AboutToShow, Item
<1>11. /\ settled[w] \subseteq settled'[w]
       /\ \A i \in settled'[w] \ settled[w] : Predecessors(i) \subseteq Range(published)
       /\ \A i \in Range(bus[w]) : i \in Range(bus'[w]) \/ i \in settled'[w]
  BY <1>7, <1>9
<1>12. QED
  BY <1>4, <1>5, <1>7, <1>8, <1>10, <1>11, ShowStep

(* A statement on the first row of the batch: what it acknowledges was     *)
(* published.                                                              *)
LEMMA TableStep ==
    ASSUME IInv, NEW w \in Workers, phase[w] \in {"ack", "release"},
           \/ phase[w] = "ack" /\ mark_outbox_delivered(w, Item(w))
           \/ release_outbox(w, Item(w))
           \/ UNCHANGED table
    PROVE  /\ rows' = rows
           /\ delivered \subseteq delivered' /\ delivered' \subseteq DOMAIN rows
           /\ leased' \subseteq DOMAIN rows /\ backoff' \subseteq DOMAIN rows
           /\ claimed_by' \in [Row -> Workers \cup {Null, Gone}]
           /\ delivered' \subseteq Range(published)
<1>1. TypeOK /\ PastPublish /\ AckedArePublished
  BY DEF IInv
<1>2. Item(w) \in DOMAIN rows /\ Item(w) \in Row
  <2>1. Item(w) \in DOMAIN rows
    BY <1>1, ItemInBatch
  <2>2. rows \in Seq(Sessions) /\ Len(rows) <= MaxRows /\ Len(rows) \in Nat
    BY <1>1 DEF TypeOK
  <2>3. QED BY <2>1, <2>2, OutboxAssumption DEF Row
<1>3. CASE phase[w] = "ack" /\ mark_outbox_delivered(w, Item(w))
  BY <1>1, <1>2, <1>3 DEF mark_outbox_delivered, TypeOK, PastPublish, AckedArePublished, table
<1>4. CASE release_outbox(w, Item(w))
  BY <1>1, <1>2, <1>4 DEF release_outbox, TypeOK, AckedArePublished, table
<1>5. CASE UNCHANGED table
  BY <1>1, <1>5 DEF TypeOK, AckedArePublished, table
<1>6. QED BY <1>3, <1>4, <1>5

LEMMA StatementStep ==
    ASSUME IInv, NEW w \in Workers, acknowledge(w) \/ release(w) \/ statement_error(w)
    PROVE  IInv'
<1>1. /\ TypeOK /\ phase[w] \in {"ack", "release"}
      /\ UNCHANGED net
      /\ \/ phase[w] = "ack" /\ mark_outbox_delivered(w, Item(w))
         \/ release_outbox(w, Item(w))
         \/ UNCHANGED table
  BY DEF IInv, acknowledge, release, statement_error
<1>2. /\ rows' = rows
      /\ delivered \subseteq delivered' /\ delivered' \subseteq DOMAIN rows
      /\ leased' \subseteq DOMAIN rows /\ backoff' \subseteq DOMAIN rows
      /\ claimed_by' \in [Row -> Workers \cup {Null, Gone}]
      /\ delivered' \subseteq Range(published)
  BY <1>1, TableStep
<1>3. PICK S \in SUBSET batch[w] :
         /\ batch' = [batch EXCEPT ![w] = S]
         /\ phase' = [phase EXCEPT ![w] = IF S = {} THEN "idle" ELSE "dispatch"]
  <2>1. CASE acknowledge(w) \/ release(w)
    <3>1. Item(w) \in batch[w]
      BY <1>1, ItemInBatch
    <3>2. (batch[w] = {Item(w)}) <=> (batch[w] \ {Item(w)} = {})
      BY <3>1
    <3>3. Proceed(w)
      BY <2>1 DEF acknowledge, release
    <3>4. /\ batch' = [batch EXCEPT ![w] = batch[w] \ {Item(w)}]
          /\ phase' = [phase EXCEPT ![w] = IF batch[w] = {Item(w)} THEN "idle"
                                                                   ELSE "dispatch"]
      BY <3>3 DEF Proceed
    <3>5. QED BY <3>2, <3>4
  <2>2. CASE statement_error(w)
    BY <2>2 DEF statement_error, Abandon
  <2>3. QED BY <2>1, <2>2
<1>4. faults' \in 0..MaxFaults
  <2>1. faults \in 0..MaxFaults
    BY <1>1 DEF TypeOK
  <2>2. faults' = faults \/ (faults < MaxFaults /\ faults' = faults + 1)
    BY DEF acknowledge, release, statement_error, Fault
  <2>3. QED BY <2>1, <2>2, OutboxAssumption
<1>5. batch' \in [Workers -> SUBSET DOMAIN rows]
      /\ phase' \in [Workers -> {"idle", "dispatch", "published", "failed", "ack", "release"}]
      /\ \A u \in Workers : (phase'[u] = "idle") <=> (batch'[u] = {})
  BY <1>1, <1>3 DEF TypeOK
<1>6. TypeOK'
  BY <1>1, <1>2, <1>4, <1>5 DEF TypeOK, net
<1>7. /\ \A u \in Workers : \A i \in batch'[u] : i \in batch[u]
      /\ \A u \in Workers : u # w => phase'[u] = phase[u] /\ batch'[u] = batch[u]
      /\ phase'[w] \in {"idle", "dispatch"}
  BY <1>1, <1>3 DEF TypeOK
<1>8. QED
  BY <1>1, <1>2, <1>6, <1>7, QuietStep

LEMMA CrashStep ==
    ASSUME IInv, NEW w \in Workers, crash(w)
    PROVE  IInv'
<1>1. TypeOK /\ faults' \in 0..MaxFaults
  BY OutboxAssumption DEF IInv, TypeOK, crash, Fault
<1>2. /\ UNCHANGED <<rows, delivered, leased, backoff, published>>
      /\ batch' = [batch EXCEPT ![w] = {}]
      /\ phase' = [phase EXCEPT ![w] = "idle"]
      /\ claimed_by' \in [Row -> Workers \cup {Null, Gone}]
      /\ bus' = [bus EXCEPT ![w] = << >>]
      /\ local_event_ids' = [local_event_ids EXCEPT ![w] = {}]
      /\ settled' = [settled EXCEPT ![w] = Range(published)]
  BY <1>1 DEF crash, Abandon, TypeOK
<1>3. published \in Seq(DOMAIN rows) /\ Range(published) \subseteq DOMAIN rows
  <2>1. published \in Seq(DOMAIN rows)
    BY <1>1 DEF TypeOK
  <2>2. QED BY <2>1, RangeIn
<1>4. /\ bus' \in [Workers -> Seq(DOMAIN rows)] /\ bus'[w] = << >>
      /\ local_event_ids'[w] = {} /\ settled'[w] = Range(published)
      /\ settled' \in [Workers -> SUBSET DOMAIN rows]
      /\ batch'[w] = {} /\ phase'[w] = "idle"
      /\ \A u \in Workers \ {w} :
            /\ bus'[u] = bus[u] /\ local_event_ids'[u] = local_event_ids[u]
            /\ settled'[u] = settled[u] /\ batch'[u] = batch[u] /\ phase'[u] = phase[u]
  <2>1. << >> \in Seq(DOMAIN rows)
    OBVIOUS
  <2>2. QED BY <1>1, <1>2, <1>3, <2>1 DEF TypeOK
<1>5. TypeOK'
  BY <1>1, <1>2, <1>4 DEF TypeOK
<1>6. \A j : Predecessors(j)' = Predecessors(j)
  BY <1>2 DEF Predecessors
<1>7. \A u \in Workers \ {w} : Item(u)' = Item(u)
  BY <1>4 DEF Item
<1>8. \A u \in Workers \ {w} : \A i : AboutToShow(u, i)' = AboutToShow(u, i)
  BY <1>4, <1>7 DEF AboutToShow
<1>9. Range(published)' = Range(published)
  BY <1>2 DEF Range
<1>10. HeldAreHeads' /\ AckedArePublished' /\ FirstInOrder'
  BY <1>2, <1>4, <1>6, <1>9 DEF IInv, HeldAreHeads, AckedArePublished, FirstInOrder
<1>11. PastPublish'
  BY <1>4, <1>7, <1>9 DEF IInv, PastPublish
<1>12. PipesArePublished'
  <2>1. ASSUME NEW u \in Workers, NEW i \in Range(bus'[u]) PROVE i \in Range(published)
    <3>1. u # w
      BY <1>4, <2>1 DEF Range
    <3>2. QED BY <1>4, <2>1, <3>1 DEF IInv, PipesArePublished
  <2>2. QED BY <1>9, <2>1 DEF PipesArePublished, Range
<1>13. MarksAreKept'
  BY <1>4, <1>8 DEF IInv, MarksAreKept
<1>14. PublishedIsOnItsWay'
  <2>1. ASSUME NEW u \in Workers, NEW i \in Range(published)
        PROVE  i \in settled'[u] \/ i \in Range(bus'[u]) \/ AboutToShow(u, i)'
    BY <1>4, <1>8 DEF IInv, PublishedIsOnItsWay
  <2>2. QED BY <1>9, <2>1 DEF PublishedIsOnItsWay, Range
<1>15. SettledInOrder'
  <2>1. \A i \in Range(published) : Predecessors(i) \subseteq Range(published)
    BY PredecessorsPublished
  <2>2. QED BY <1>4, <1>6, <1>9, <2>1 DEF IInv, SettledInOrder
<1>16. QED
  BY <1>5, <1>10, <1>11, <1>12, <1>13, <1>14, <1>15 DEF IInv

LEMMA ClockStep ==
    ASSUME IInv, NEW i \in Row, lease_expires(i) \/ backoff_ends(i)
    PROVE  IInv'
<1>1. TypeOK /\ faults' \in 0..MaxFaults
  <2>1. faults \in 0..MaxFaults
    BY DEF IInv, TypeOK
  <2>2. faults' = faults \/ (faults < MaxFaults /\ faults' = faults + 1)
    BY DEF lease_expires, backoff_ends, Fault
  <2>3. QED BY <2>1, <2>2, OutboxAssumption DEF IInv
<1>2. /\ UNCHANGED <<rows, delivered, claimed_by, batch, phase, net>>
      /\ leased' \subseteq leased /\ backoff' \subseteq backoff
  BY DEF lease_expires, backoff_ends
<1>3. TypeOK'
  BY <1>1, <1>2 DEF TypeOK, net
<1>4. QED
  BY <1>2, <1>3, QuietStep DEF IInv, AckedArePublished

LEMMA InitIInv == Init => IInv
<1> SUFFICES ASSUME Init PROVE IInv
  OBVIOUS
<1>1. rows = << >> /\ DOMAIN rows = {} /\ Len(rows) = 0 /\ rows \in Seq(Sessions)
  BY DEF Init
<1>2. << >> \in Seq(DOMAIN rows) /\ Range(<< >>) = {}
  BY <1>1 DEF Range
<1>3. /\ bus \in [Workers -> Seq(DOMAIN rows)] /\ published = << >>
      /\ \A w \in Workers : bus[w] = << >> /\ phase[w] = "idle"
  BY <1>2 DEF Init
<1>4. TypeOK
  BY <1>1, <1>2, <1>3, OutboxAssumption DEF Init, TypeOK
<1>5. HeldAreHeads /\ AckedArePublished /\ PastPublish /\ MarksAreKept /\ SettledInOrder
  BY <1>3 DEF Init, HeldAreHeads, AckedArePublished, PastPublish, MarksAreKept, SettledInOrder
<1>6. PipesArePublished /\ PublishedIsOnItsWay /\ FirstInOrder
  BY <1>2, <1>3 DEF PipesArePublished, PublishedIsOnItsWay, FirstInOrder
<1>7. QED BY <1>4, <1>5, <1>6 DEF IInv

LEMMA Inductive == Spec => []IInv
<1>1. IInv /\ [Next]_vars => IInv'
  <2> SUFFICES ASSUME IInv, [Next]_vars PROVE IInv'
    OBVIOUS
  <2>1. ASSUME NEW s \in Sessions, enqueue_meeting_event(s) PROVE IInv'
    BY <2>1, EnqueueStep
  <2>2. ASSUME NEW w \in Workers, WorkerStep(w) \/ WorkerFault(w) PROVE IInv'
    BY <2>2, ClaimStep, PublishStep, DispatchStep, StatementStep, CrashStep
       DEF WorkerStep, WorkerFault
  <2>3. ASSUME NEW w \in Workers, fan_out_pubsub_event(w) \/ pipe_loses(w) PROVE IInv'
    BY <2>3, ArriveStep, LoseStep
  <2>4. ASSUME NEW i \in Row, lease_expires(i) \/ backoff_ends(i) PROVE IInv'
    BY <2>4, ClockStep
  <2>5. CASE UNCHANGED vars
    <3>1. TypeOK'
      BY <2>5 DEF IInv, TypeOK, vars, table, net
    <3>2. QED BY <2>5, <3>1, QuietStep DEF vars, table, IInv, AckedArePublished
  <2>6. QED BY <2>1, <2>2, <2>3, <2>4, <2>5 DEF Next
<1>2. QED
  BY <1>1, InitIInv, PTL DEF Spec

(* No interleaving of workers, crashes, stalls, lost answers and lossy     *)
(* pipes lets Redis take an event before an earlier one of its Meeting, or *)
(* a subscriber see one whose predecessors were not published.             *)
THEOREM OrderHolds == Spec => []PublishedInOrder
<1>1. IInv => PublishedInOrder
  BY DEF IInv, PublishedInOrder, FirstInOrder, SettledInOrder
<1>2. QED BY <1>1, Inductive, PTL

(* What the table says was delivered has reached every process, is in its  *)
(* pipe or was lost there, or is about to be fanned out by the process.    *)
THEOREM NothingSkipped == Spec => []AcknowledgedIsOnItsWay
<1>1. IInv => AcknowledgedIsOnItsWay
  BY DEF IInv, AcknowledgedIsOnItsWay, AckedArePublished, PublishedIsOnItsWay
<1>2. QED BY <1>1, Inductive, PTL
=============================================================================
