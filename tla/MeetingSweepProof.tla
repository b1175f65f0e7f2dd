------------------------- MODULE MeetingSweepProof -------------------------
(***************************************************************************)
(* The sweep, for any number of workers, Meetings and faults: a fence      *)
(* stands only while its Meeting is on the list of those that are due.     *)
(***************************************************************************)
EXTENDS MeetingSweep, FiniteSetTheorems, FunctionTheorems, SequenceTheorems,
        WellFoundedInduction, TLAPS

(* Each baton that is due and each floor with an open round has one place  *)
(* in its list, and a floor that is due has one.                           *)
Once(s) == \A i, j \in DOMAIN s : s[i] = s[j] => i = j

Listed ==
  /\ late \in Seq(Batons) /\ Once(late)
  /\ line \in Seq(Floors) /\ Once(line)
  /\ due \subseteq ToSet(line)

IInv == Listed /\ NewDeadlineUnfenced

-----------------------------------------------------------------------------
(* Operators on lists.                                                     *)

LEMMA FirstExists ==
  ASSUME NEW S \in SUBSET Nat, S # {}
  PROVE  Min(S) \in S
<1> DEFINE Less == {ss \in Nat \X Nat : ss[1] < ss[2]}
<1>1. IsWellFoundedOn(Less, Nat)
  BY NatLessThanWellFounded DEF OpToRel
<1>2. PICK x \in S : \A y \in S : ~ (<<y, x>> \in Less)
  BY <1>1, WFMin
<1>3. ASSUME NEW y \in S PROVE x <= y
  <2>1. x \in Nat /\ y \in Nat
    OBVIOUS
  <2>2. y < x => <<y, x>> \in Less
    BY <2>1
  <2>3. ~(y < x)
    BY Zenon, <1>2, <2>2
  <2>4. QED
    BY <2>1, <2>3
<1>4. QED
  BY <1>3 DEF Min

(* A list with one index left out.                                         *)
LEMMA LeftOut ==
  ASSUME NEW S, NEW s \in Seq(S), NEW i \in DOMAIN s
  PROVE  /\ RemoveAt(s, i) \in Seq(S)
         /\ DOMAIN RemoveAt(s, i) = 1..Len(s) - 1
         /\ \A j \in 1..Len(s) - 1 :
              RemoveAt(s, i)[j] = s[IF j < i THEN j ELSE j + 1]
<1> DEFINE a == SubSeq(s, 1, i - 1)
           b == SubSeq(s, i + 1, Len(s))
<1>1. Len(s) \in Nat /\ DOMAIN s = 1..Len(s) /\ i \in 1..Len(s)
  OBVIOUS
<1>2. /\ a \in Seq(S) /\ Len(a) = i - 1
      /\ \A j \in 1..i - 1 : a[j] = s[j]
  BY <1>1, SubSeqProperties
<1>3. /\ b \in Seq(S) /\ Len(b) = Len(s) - i
      /\ \A j \in 1..Len(s) - i : b[j] = s[i + j]
  BY <1>1, SubSeqProperties
<1> HIDE DEF a, b
<1> DEFINE c == a \o b
<1>4. /\ c \in Seq(S) /\ Len(c) = Len(a) + Len(b)
      /\ \A j \in 1..Len(a) + Len(b) :
           c[j] = IF j <= Len(a) THEN a[j] ELSE b[j - Len(a)]
  BY <1>2, <1>3, ConcatProperties
<1>5. RemoveAt(s, i) = c
  BY DEF RemoveAt, a, b
<1> HIDE DEF c
<1>6. Len(c) = Len(s) - 1 /\ DOMAIN c = 1..Len(s) - 1
  BY <1>1, <1>2, <1>3, <1>4
<1>7. ASSUME NEW j \in 1..Len(s) - 1
      PROVE  c[j] = s[IF j < i THEN j ELSE j + 1]
  <2>1. j \in 1..Len(a) + Len(b)
    BY <1>1, <1>2, <1>3
  <2>2. c[j] = IF j <= Len(a) THEN a[j] ELSE b[j - Len(a)]
    BY <1>4, <2>1
  <2>3. CASE j < i
    BY <1>1, <1>2, <2>2, <2>3
  <2>4. CASE ~(j < i)
    <3>1. ~(j <= Len(a)) /\ j - Len(a) \in 1..Len(s) - i /\ i + (j - Len(a)) = j + 1
      BY <1>1, <1>2, <2>4
    <3>2. b[j - Len(a)] = s[i + (j - Len(a))]
      BY <1>3, <3>1
    <3>3. QED
      BY <2>2, <2>4, <3>1, <3>2
  <2>5. QED
    BY <2>3, <2>4
<1>8. QED
  BY <1>4, <1>5, <1>6, <1>7

(* A Meeting taken off the list: the others stay on it, each once.         *)
TakenOff(t, s, m) ==
  /\ \A x \in ToSet(s) : x # m => x \in ToSet(t)
  /\ Once(t)

LEMMA TakeOff ==
  ASSUME NEW S, NEW s \in Seq(S), NEW m, Once(s)
  PROVE  RemoveFirst(s, m) \in Seq(S) /\ TakenOff(RemoveFirst(s, m), s, m)
<1> DEFINE I == {i \in 1..Len(s) : s[i] = m}
<1>1. Len(s) \in Nat /\ DOMAIN s = 1..Len(s)
  OBVIOUS
<1>2. CASE I = {}
  <2>1. RemoveFirst(s, m) = s
    BY <1>2 DEF RemoveFirst
  <2>2. QED
    BY <2>1 DEF TakenOff, Once
<1>3. CASE I # {}
  <2>1. I \in SUBSET Nat
    BY <1>1
  <2>2. Min(I) \in I
    BY <1>3, <2>1, FirstExists
  <2>3. RemoveFirst(s, m) = RemoveAt(s, Min(I))
    BY <1>3 DEF RemoveFirst, SelectInSeq
  <2>4. PICK k \in DOMAIN s : k = Min(I) /\ s[k] = m
    BY <1>1, <2>2
  <2> DEFINE t == RemoveAt(s, k)
  <2>5. /\ t \in Seq(S) /\ DOMAIN t = 1..Len(s) - 1
        /\ \A j \in 1..Len(s) - 1 : t[j] = s[IF j < k THEN j ELSE j + 1]
    BY LeftOut
  <2>6. RemoveFirst(s, m) = t
    BY <2>3, <2>4
  <2> HIDE DEF t, I
  <2>7. ASSUME NEW x \in ToSet(s), x # m PROVE x \in ToSet(t)
    <3>1. PICK i \in DOMAIN s : s[i] = x
      BY DEF ToSet
    <3>2. i # k /\ i \in 1..Len(s) /\ k \in 1..Len(s)
      BY <1>1, <2>4, <2>7, <3>1
    <3>3. CASE i < k
      <4>1. i \in DOMAIN t /\ t[i] = s[i]
        BY <1>1, <2>5, <3>2, <3>3
      <4>2. QED
        BY <3>1, <4>1 DEF ToSet
    <3>4. CASE i > k
      <4>1. i - 1 \in 1..Len(s) - 1 /\ ~(i - 1 < k) /\ (i - 1) + 1 = i
        BY <1>1, <3>2, <3>4
      <4>2. i - 1 \in DOMAIN t /\ t[i - 1] = s[i]
        BY <2>5, <4>1
      <4>3. QED
        BY <3>1, <4>2 DEF ToSet
    <3>5. QED
      BY <3>2, <3>3, <3>4
  <2>8. ASSUME NEW i \in DOMAIN t, NEW j \in DOMAIN t, t[i] = t[j] PROVE i = j
    <3>1. PICK p \in DOMAIN s : p = (IF i < k THEN i ELSE i + 1)
      BY <1>1, <2>5
    <3>2. PICK q \in DOMAIN s : q = (IF j < k THEN j ELSE j + 1)
      BY <1>1, <2>5
    <3>3. s[p] = s[q]
      BY <2>5, <2>8, <3>1, <3>2
    <3>4. p = q
      BY <3>3 DEF Once
    <3>5. i \in Nat /\ j \in Nat /\ k \in Nat
      BY <1>1, <2>5
    <3>6. QED
      BY <3>1, <3>2, <3>4, <3>5
  <2>9. QED
    BY <2>5, <2>6, <2>7, <2>8 DEF TakenOff, Once
<1>4. QED
  BY <1>2, <1>3

(* A Meeting put at the end of a list it was not on.                       *)
PutLast(t, s, m) ==
  /\ \A x \in ToSet(s) : x \in ToSet(t)
  /\ Once(t)

LEMMA PutOn ==
  ASSUME NEW S, NEW s \in Seq(S), NEW m \in S, Once(s), m \notin ToSet(s)
  PROVE  Append(s, m) \in Seq(S) /\ PutLast(Append(s, m), s, m)
<1> DEFINE t == Append(s, m)
<1>1. /\ t \in Seq(S) /\ Len(s) \in Nat
      /\ DOMAIN s = 1..Len(s) /\ DOMAIN t = 1..Len(s) + 1
      /\ \A i \in 1..Len(s) : t[i] = s[i]
      /\ t[Len(s) + 1] = m
  OBVIOUS
<1> HIDE DEF t
<1>2. \A i \in DOMAIN s : s[i] # m
  BY DEF ToSet
<1>3. ASSUME NEW i \in DOMAIN t, NEW j \in DOMAIN t, t[i] = t[j] PROVE i = j
  <2>1. (i \in 1..Len(s) \/ i = Len(s) + 1) /\ (j \in 1..Len(s) \/ j = Len(s) + 1)
    BY <1>1
  <2>2. QED
    BY <1>1, <1>2, <1>3, <2>1 DEF Once
<1>4. \A x \in ToSet(s) : x \in ToSet(t)
  BY <1>1 DEF ToSet
<1>5. QED
  BY <1>1, <1>3, <1>4 DEF PutLast, Once, t

(* A finite set can be listed.                                             *)
LEMMA ListExists ==
  ASSUME NEW S, IsFiniteSet(S)
  PROVE  SetToSeq(S) \in Seq(S) /\ Once(SetToSeq(S))
<1>1. Cardinality(S) \in Nat /\ ExistsBijection(1..Cardinality(S), S)
  BY FS_CardinalityType
<1>2. PICK f \in [1..Cardinality(S) -> S] : IsInjective(f)
  BY <1>1 DEF ExistsBijection, Bijection, Injection, IsInjective
<1>3. SetToSeq(S) \in [1..Cardinality(S) -> S] /\ IsInjective(SetToSeq(S))
  BY <1>2 DEF SetToSeq
<1>4. QED
  BY <1>1, <1>3 DEF IsInjective, Once

-----------------------------------------------------------------------------
(* The steps.                                                              *)

LEMMA InitStep == Init => IInv
<1> SUFFICES ASSUME Init PROVE IInv
  OBVIOUS
<1>1. Boots \in SUBSET Batons /\ Boots \in SUBSET (Floors \cup Batons)
      /\ IsFiniteSet(Floors \cup Batons)
  BY MeetingsAssumption
<1>2. IsFiniteSet(Boots)
  BY <1>1, FS_Subset
<1>3. late = SetToSeq(Boots) /\ line = << >> /\ due = {}
  BY DEF Init
<1>4. late \in Seq(Boots) /\ Once(late)
  BY <1>2, <1>3, ListExists
<1>5. late \in Seq(Batons) /\ line \in Seq(Floors) /\ Once(line)
  BY <1>1, <1>3, <1>4 DEF Once
<1>6. NewDeadlineUnfenced
  BY DEF Init, NewDeadlineUnfenced
<1>7. QED
  BY <1>3, <1>4, <1>5, <1>6 DEF IInv, Listed

(* A round that is over, or a deadline dealt with, takes the Meeting off   *)
(* its list.                                                               *)
LEMMA LeavesKeepsLists ==
  ASSUME Listed, NEW m, Leaves(m)
  PROVE  Listed' /\ \A x \in ToSet(late) : x = m \/ x \in ToSet(late')
<1>1. late \in Seq(Batons) /\ Once(late) /\ line \in Seq(Floors) /\ Once(line)
      /\ due \subseteq ToSet(line)
  BY DEF Listed
<1>2. late' \in Seq(Batons) /\ TakenOff(late', late, m)
  BY <1>1, TakeOff DEF Leaves
<1>3. line' \in Seq(Floors) /\ TakenOff(line', line, m)
  BY <1>1, TakeOff DEF Leaves
<1>4. due' \subseteq ToSet(line')
  BY <1>1, <1>3 DEF Leaves, TakenOff
<1>5. Listed'
  BY <1>2, <1>3, <1>4 DEF Listed, TakenOff, Once
<1>6. QED
  BY <1>2, <1>5 DEF TakenOff

LEMMA NoBatonInLine ==
  ASSUME Listed, NEW x \in Batons
  PROVE  x \notin due
<1>1. ToSet(line) \subseteq Floors
  BY DEF Listed, ToSet
<1>2. QED
  BY <1>1, MeetingsAssumption DEF Listed

(* Whoever deals with a deadline takes the fence down with it.             *)
LEMMA RecoveredStep ==
  ASSUME IInv, NEW m, Recovered(m)
  PROVE  IInv'
<1>1. Listed' /\ \A x \in ToSet(late) : x = m \/ x \in ToSet(late')
  <2>1. CASE Leaves(m)
    BY <2>1, LeavesKeepsLists DEF IInv
  <2>2. CASE IsGranted(m)
    BY <2>2 DEF IInv, Listed, IsGranted, Once
  <2>3. QED
    BY <2>1, <2>2 DEF Recovered
<1>2. ASSUME NEW x \in Batons, x \notin ToSet(late')
      PROVE  fence'[x] = 0 /\ tries'[x] = 0
  <2>1. x = m \/ x \notin ToSet(late)
    BY <1>1, <1>2
  <2>2. x \notin due
    BY NoBatonInLine DEF IInv
  <2>3. x \notin ToSet(late) => fence[x] = 0 /\ tries[x] = 0
    BY <2>2 DEF IInv, NewDeadlineUnfenced, IsDue
  <2>4. QED
    BY <2>1, <2>3 DEF Recovered
<1>3. NewDeadlineUnfenced'
  BY <1>2 DEF NewDeadlineUnfenced, IsDue
<1>4. QED
  BY <1>1, <1>3 DEF IInv

LEMMA RowsKept ==
  ASSUME IInv, UNCHANGED <<late, line, due, fence, tries>>
  PROVE  IInv'
BY DEF IInv, Listed, Once, NewDeadlineUnfenced, IsDue

LEMMA OpensStep ==
  ASSUME IInv, NEW m \in Floors, Opens(m)
  PROVE  IInv'
<1>1. /\ line \in Seq(Floors) /\ Once(line) /\ m \notin ToSet(line)
      /\ line' = Append(line, m)
      /\ late' = late /\ due' = due /\ fence' = fence /\ tries' = tries
  BY DEF IInv, Listed, Opens
<1>2. line' \in Seq(Floors) /\ PutLast(line', line, m)
  BY <1>1, PutOn
<1>3. Listed'
  BY <1>1, <1>2 DEF IInv, Listed, PutLast, Once
<1>4. QED
  BY <1>1, <1>3 DEF IInv, NewDeadlineUnfenced, IsDue

LEMMA ClosesStep ==
  ASSUME IInv, NEW m \in Floors, Closes(m)
  PROVE  IInv'
<1>1. Listed' /\ (\A x \in ToSet(late) : x = m \/ x \in ToSet(late'))
  BY LeavesKeepsLists DEF IInv, Closes
<1>2. fence' = fence /\ tries' = tries
  BY DEF Closes
<1>3. ASSUME NEW x \in Batons, x \notin ToSet(late')
      PROVE  fence'[x] = 0 /\ tries'[x] = 0
  <2>1. x # m
    BY MeetingsAssumption
  <2>2. x \notin ToSet(late) /\ x \notin due
    BY <1>1, <1>3, <2>1, NoBatonInLine DEF IInv
  <2>3. QED
    BY <1>2, <2>2 DEF IInv, NewDeadlineUnfenced, IsDue
<1>4. QED
  BY <1>1, <1>3 DEF IInv, NewDeadlineUnfenced, IsDue

(* A floor becomes due where it stands, a baton at the end of its list.    *)
LEMMA FallsDueStep ==
  ASSUME IInv,
         \/ \E m \in Floors, early \in BOOLEAN : FloorFallsDue(m, early)
         \/ \E m \in Batons : BatonFallsDue(m)
  PROVE  IInv'
<1>1. ASSUME NEW m \in Floors, NEW early \in BOOLEAN, FloorFallsDue(m, early)
      PROVE  IInv'
  <2>1. /\ late' = late /\ line' = line /\ fence' = fence /\ tries' = tries
        /\ due' = due \cup {m} /\ m \in ToSet(line)
    BY <1>1 DEF FloorFallsDue
  <2>2. QED
    BY <2>1 DEF IInv, Listed, Once, NewDeadlineUnfenced, IsDue
<1>2. ASSUME NEW m \in Batons, BatonFallsDue(m) PROVE IInv'
  <2>1. /\ late \in Seq(Batons) /\ Once(late) /\ m \notin ToSet(late)
        /\ late' = Append(late, m)
        /\ line' = line /\ due' = due /\ fence' = fence /\ tries' = tries
    BY <1>2 DEF IInv, Listed, BatonFallsDue, IsDue
  <2>2. late' \in Seq(Batons) /\ PutLast(late', late, m)
    BY <2>1, PutOn
  <2>3. Listed'
    BY <2>1, <2>2 DEF IInv, Listed, PutLast, Once
  <2>4. NewDeadlineUnfenced'
    BY <2>1, <2>2 DEF IInv, NewDeadlineUnfenced, IsDue, PutLast
  <2>5. QED
    BY <2>3, <2>4 DEF IInv
<1>3. QED
  BY <1>1, <1>2

(* A claim fences what is due and nothing else.                            *)
LEMMA ClaimStep ==
  ASSUME IInv, NEW w, ClaimBatons(w)
  PROVE  IInv'
<1>1. PICK claimed : (\A m \in claimed : IsDue(m)) /\ SetFence(claimed)
         /\ UNCHANGED <<late, line, due>>
  BY DEF ClaimBatons, deadlines
<1>2. \A m \in Batons : ~IsDue(m) => fence'[m] = 0 /\ tries'[m] = 0
  <2> SUFFICES ASSUME NEW m \in Batons, ~IsDue(m)
               PROVE  fence'[m] = 0 /\ tries'[m] = 0
    OBVIOUS
  <2>1. m \notin claimed /\ fence[m] = 0 /\ tries[m] = 0
    BY <1>1 DEF IInv, NewDeadlineUnfenced
  <2>2. QED
    BY <1>1, <2>1 DEF SetFence
<1>3. QED
  BY <1>1, <1>2 DEF IInv, Listed, Once, NewDeadlineUnfenced, IsDue

LEMMA TickStep ==
  ASSUME IInv, Tick
  PROVE  IInv'
<1>1. UNCHANGED <<late, line, due, tries>>
  BY DEF Tick, deadlines
<1>2. \A m \in Batons : fence[m] = 0 => fence'[m] = 0
  BY DEF Tick
<1>3. QED
  BY <1>1, <1>2 DEF IInv, Listed, Once, NewDeadlineUnfenced, IsDue

LEMMA SweepStep ==
  ASSUME IInv, NEW w \in Workers, Sweep(w) \/ Crash(w)
  PROVE  IInv'
<1>1. CASE ScanFloors(w)
  BY <1>1, RowsKept DEF ScanFloors, rows, deadlines
<1>2. CASE RecoverFloor(w)
  <2>1. (\E m : Recovered(m)) \/ UNCHANGED <<late, line, due, fence, tries>>
    BY <1>2 DEF RecoverFloor, rows, deadlines
  <2>2. QED
    BY <2>1, RecoveredStep, RowsKept
<1>3. CASE FloorFails(w)
  BY <1>3, RowsKept DEF FloorFails, rows, deadlines
<1>4. CASE ClaimBatons(w)
  BY <1>4, ClaimStep
<1>5. CASE RecoverBaton(w)
  <2>1. \E m : Recovered(m)
    BY <1>5 DEF RecoverBaton
  <2>2. QED
    BY <2>1, RecoveredStep
<1>6. CASE BatonFails(w)
  BY <1>6, RowsKept DEF BatonFails, rows, deadlines
<1>7. CASE Rest(w)
  BY <1>7, RowsKept DEF Rest, rows, deadlines
<1>8. CASE Crash(w)
  BY <1>8, RowsKept DEF Crash, rows, deadlines
<1>9. QED
  BY <1>1, <1>2, <1>3, <1>4, <1>5, <1>6, <1>7, <1>8 DEF Sweep

LEMMA NextStep == IInv /\ [Next]_vars => IInv'
<1> SUFFICES ASSUME IInv, [Next]_vars PROVE IInv'
  OBVIOUS
<1>1. ASSUME NEW m \in Floors, Opens(m) \/ Closes(m) PROVE IInv'
  BY <1>1, OpensStep, ClosesStep
<1>2. CASE \/ \E m \in Floors, early \in BOOLEAN : FloorFallsDue(m, early)
           \/ \E m \in Batons : BatonFallsDue(m)
  BY <1>2, FallsDueStep
<1>3. ASSUME NEW m \in Meetings, Command(m) PROVE IInv'
  BY <1>3, RecoveredStep DEF Command
<1>4. ASSUME NEW w \in Workers, Sweep(w) \/ Crash(w) PROVE IInv'
  BY <1>4, SweepStep
<1>5. CASE Tick
  BY <1>5, TickStep
<1>6. ASSUME NEW m \in Floors, Settles(m) PROVE IInv'
  BY <1>6, RowsKept DEF Settles
<1>7. CASE UNCHANGED vars
  BY <1>7, RowsKept DEF vars, rows, deadlines
<1>8. QED
  BY <1>1, <1>2, <1>3, <1>4, <1>5, <1>6, <1>7 DEF Next

(* No Meeting is fenced before its deadline, whatever became of the claim  *)
(* that set the fence: the worker may have died, another worker or a       *)
(* command may have recovered the Meeting meanwhile, and recovery of a     *)
(* Meeting that is no longer due still clears the fence.                   *)
THEOREM UnfencedHolds == Spec => []NewDeadlineUnfenced
<1>1. Spec => []IInv
  BY InitStep, NextStep, PTL DEF Spec
<1>2. IInv => NewDeadlineUnfenced
  BY DEF IInv
<1>3. QED
  BY <1>1, <1>2, PTL

(* A baton that is due, and a floor with an open round, has one place in   *)
(* its list, and a floor that is due has one: taking a Meeting off its     *)
(* list once deals with its deadline.                                      *)
THEOREM ListedOnce == Spec => []Listed
<1>1. Spec => []IInv
  BY InitStep, NextStep, PTL DEF Spec
<1>2. IInv => Listed
  BY DEF IInv
<1>3. QED
  BY <1>1, <1>2, PTL

=============================================================================
