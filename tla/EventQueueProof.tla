-------------------------- MODULE EventQueueProof ---------------------------
(***************************************************************************)
(* The ACP event queue, for any events, channels, agents and limits: an    *)
(* event that was accepted and not disposed of is in exactly one place,    *)
(* and a channel has one turn at a time until the backstop releases it     *)
(* under a live turn.                                                      *)
(***************************************************************************)
EXTENDS EventQueue, FiniteSetTheorems, SequenceTheorems, WellFoundedInduction, TLAPS

On(c) == {e \in Events : ChannelOf[e] = c}

(* Events of one channel, each at most once.                               *)
Distinct(s) == \A i, j \in DOMAIN s : s[i] = s[j] => i = j
Line(S, s) == s \in Seq(S) /\ Distinct(s)
Apart(s, t) == Elems(s) \cap Elems(t) = {}
Joins(u, s, t) == Elems(u) = Elems(s) \cup Elems(t)
JoinsThree(u, r, s, t) == Elems(u) = (Elems(r) \cup Elems(s)) \cup Elems(t)
Adds(u, s, x) == Elems(u) = Elems(s) \cup {x}
Drops(u, s, x) == Elems(u) = Elems(s) \ {x}

Signals == {"none", "Steer", "Interrupt", "Cancel", "SwitchModel"}
HungRows == [st : {"hung"}, chan : Channels, steers : SUBSET Events]
RestRows == [st : {"idle", "down"}] \cup HungRows
BusyRows == [st : {"busy"}, chan : Channels, events : Seq(Events), merged : Seq(Events),
             sig : Signals, steers : SUBSET Events]
DoneRows == [st : {"done"}, chan : Channels, events : Seq(Events), merged : Seq(Events),
             out : {"ok", "retry", "dead", "cancelled", "dropped"}, next : {"idle", "down"}]

Types ==
    /\ arrived \in Seq(Events)
    /\ queues \in [Channels -> Seq(Events)]
    /\ withheld \in [Channels -> Seq(Events)]
    /\ cancelled \in [Channels -> Seq(Events)]
    /\ inFlight \subseteq Channels
    /\ agents \in [Agents -> RestRows \cup BusyRows \cup DoneRows]
    /\ DOMAIN steer = Events /\ DOMAIN fate = Events

(* A channel: the turns on it, what it has in store, what they have in     *)
(* hand, and all of it.                                                    *)
TurnsOf(c) == {a \in Turns : agents[a].chan = c}
Stock(c) == Elems(queues[c]) \cup Elems(withheld[c]) \cup Elems(cancelled[c])
Hand(c) == UNION {Batch(a) : a \in TurnsOf(c)}
Here(c) == Stock(c) \cup Hand(c)

Filed(c) ==
    /\ Line(On(c), queues[c]) /\ Line(On(c), withheld[c]) /\ Line(On(c), cancelled[c])
    /\ Elems(queues[c]) \cap Elems(withheld[c]) = {}
    /\ Elems(queues[c]) \cap Elems(cancelled[c]) = {}
    /\ Elems(withheld[c]) \cap Elems(cancelled[c]) = {}

InHand(c) ==
    /\ \A a \in TurnsOf(c) :
         /\ Line(On(c), agents[a].events) /\ Line(On(c), agents[a].merged)
         /\ Elems(agents[a].events) \cap Elems(agents[a].merged) = {}
         /\ Batch(a) \cap Stock(c) = {}
    /\ \A a, b \in TurnsOf(c) : a # b => Batch(a) \cap Batch(b) = {}

(* A turn holds its channel, and is the only one of it, unless the channel *)
(* was released under a live turn.                                         *)
Holds(c) ==
    /\ TurnsOf(c) # {} => c \in inFlight \cup outlived
    /\ c \notin outlived => \A a, b \in TurnsOf(c) : a = b

(* An event is somewhere exactly if it has arrived and has no fate yet.    *)
Fated(c) ==
    \A e \in On(c) :
        /\ e \in Here(c) <=> e \in Elems(arrived) /\ fate[e] = "none"
        /\ fate[e] # "none" => e \in Elems(arrived)

Local(c) == Filed(c) /\ InHand(c) /\ Holds(c) /\ Fated(c)

IInv == Types /\ \A c \in Channels : Local(c)

-----------------------------------------------------------------------------
(* Lines: sequences in which nothing occurs twice.                         *)

LEMMA LineIs ==
    ASSUME NEW S, NEW s \in Seq(S)
    PROVE  /\ Len(s) \in Nat /\ DOMAIN s = 1..Len(s)
           /\ \A i \in 1..Len(s) : s[i] \in S /\ s[i] \in Elems(s)
           /\ \A x \in Elems(s) : \E i \in 1..Len(s) : x = s[i]
           /\ Elems(s) \subseteq S
<1>1. Len(s) \in Nat /\ DOMAIN s = 1..Len(s) /\ \A i \in 1..Len(s) : s[i] \in S
    OBVIOUS
<1>2. QED
    BY <1>1 DEF Elems

LEMMA EmptyLine ==
    ASSUME NEW S
    PROVE  Line(S, << >>) /\ Elems(<< >>) = {}
BY EmptySeq DEF Line, Distinct, Elems

LEMMA ConcatLine ==
    ASSUME NEW S, NEW s, NEW t, Line(S, s), Line(S, t), Elems(s) \cap Elems(t) = {}
    PROVE  Line(S, s \o t) /\ Elems(s \o t) = Elems(s) \cup Elems(t)
<1> DEFINE u == s \o t
           m == Len(s)
           n == Len(t)
<1>1. s \in Seq(S) /\ t \in Seq(S) /\ Distinct(s) /\ Distinct(t)
    BY DEF Line
<1>2. /\ m \in Nat /\ DOMAIN s = 1..m /\ n \in Nat /\ DOMAIN t = 1..n
      /\ \A i \in 1..m : s[i] \in Elems(s)
      /\ \A i \in 1..n : t[i] \in Elems(t)
    BY <1>1, LineIs
<1>3. /\ u \in Seq(S) /\ Len(u) = m + n
      /\ \A i \in 1..m + n : u[i] = IF i <= m THEN s[i] ELSE t[i - m]
    BY <1>1, ConcatProperties
<1> HIDE DEF u
<1>4. DOMAIN u = 1..m + n
    BY <1>3
<1>5. \A i \in 1..m : i \in 1..m + n /\ u[i] = s[i]
    BY <1>2, <1>3
<1>6. \A i \in 1..n : m + i \in 1..m + n /\ u[m + i] = t[i]
    BY <1>2, <1>3
<1>7. \A i \in 1..m + n : (i \in 1..m /\ u[i] = s[i])
                          \/ (i - m \in 1..n /\ u[i] = t[i - m])
    BY <1>2, <1>3
<1>8. Elems(u) = Elems(s) \cup Elems(t)
  <2>1. ASSUME NEW x \in Elems(u)
        PROVE  x \in Elems(s) \cup Elems(t)
    <3>1. PICK i \in 1..m + n : x = u[i]
        BY <1>4 DEF Elems
    <3>2. QED
        BY <1>2, <1>7, <3>1
  <2>2. ASSUME NEW x \in Elems(s)
        PROVE  x \in Elems(u)
    <3>1. PICK i \in 1..m : x = s[i]
        BY <1>2 DEF Elems
    <3>2. QED
        BY <1>4, <1>5, <3>1 DEF Elems
  <2>3. ASSUME NEW x \in Elems(t)
        PROVE  x \in Elems(u)
    <3>1. PICK i \in 1..n : x = t[i]
        BY <1>2 DEF Elems
    <3>2. m + i \in DOMAIN u /\ u[m + i] = x
        BY <1>4, <1>6, <3>1
    <3>3. QED
        BY <3>2 DEF Elems
  <2>4. QED
    BY <2>1, <2>2, <2>3
<1>9. Distinct(u)
  <2> SUFFICES ASSUME NEW i \in 1..m + n, NEW j \in 1..m + n, u[i] = u[j]
               PROVE  i = j
    BY <1>4 DEF Distinct
  <2>1. CASE i \in 1..m /\ u[i] = s[i] /\ j \in 1..m /\ u[j] = s[j]
    BY <1>1, <1>2, <2>1 DEF Distinct
  <2>2. CASE i - m \in 1..n /\ u[i] = t[i - m] /\ j - m \in 1..n /\ u[j] = t[j - m]
    <3>1. i - m = j - m
        BY <1>1, <1>2, <2>2 DEF Distinct
    <3>2. QED
        BY <1>2, <3>1
  <2>3. CASE i \in 1..m /\ u[i] = s[i] /\ j - m \in 1..n /\ u[j] = t[j - m]
    BY <1>2, <2>3
  <2>4. CASE j \in 1..m /\ u[j] = s[j] /\ i - m \in 1..n /\ u[i] = t[i - m]
    BY <1>2, <2>4
  <2>5. QED
    BY <1>7, <2>1, <2>2, <2>3, <2>4
<1>10. QED
    BY <1>3, <1>8, <1>9 DEF u, Line

LEMMA ConcatApart ==
    ASSUME NEW S, NEW s, NEW t, Line(S, s), Line(S, t), Apart(s, t)
    PROVE  Line(S, s \o t) /\ Joins(s \o t, s, t)
BY ConcatLine DEF Apart, Joins

LEMMA ConcatThree ==
    ASSUME NEW S, NEW r, NEW s, NEW t, Line(S, r), Line(S, s), Line(S, t),
           Apart(r, s), Apart(r, t), Apart(s, t)
    PROVE  Line(S, (r \o s) \o t) /\ JoinsThree((r \o s) \o t, r, s, t)
<1>1. PICK u : u = r \o s
    OBVIOUS
<1>2. Line(S, u) /\ Joins(u, r, s)
    BY <1>1, ConcatApart
<1>3. Apart(u, t)
    BY <1>2 DEF Apart, Joins
<1>4. Line(S, u \o t) /\ Joins(u \o t, u, t)
    BY <1>2, <1>3, ConcatApart
<1>5. PICK v : v = u \o t
    OBVIOUS
<1>6. JoinsThree(v, r, s, t)
    BY <1>2, <1>4, <1>5 DEF Joins, JoinsThree
<1>7. QED
    BY <1>1, <1>4, <1>5, <1>6

LEMMA OneLine ==
    ASSUME NEW S, NEW x \in S
    PROVE  Line(S, <<x>>) /\ Elems(<<x>>) = {x}
BY DEF Line, Distinct, Elems

LEMMA AppendLine ==
    ASSUME NEW S, NEW s, Line(S, s), NEW x \in S, x \notin Elems(s)
    PROVE  Line(S, Append(s, x)) /\ Elems(Append(s, x)) = Elems(s) \cup {x}
<1> DEFINE t == <<x>>
<1>1. Line(S, t) /\ Elems(t) = {x}
    BY OneLine
<1>2. Append(s, x) = s \o t
    BY AppendIsConcat DEF Line
<1> HIDE DEF t
<1>3. Elems(s) \cap Elems(t) = {}
    BY <1>1
<1>4. Line(S, s \o t) /\ Elems(s \o t) = Elems(s) \cup Elems(t)
    BY <1>1, <1>3, ConcatLine
<1>5. QED
    BY <1>1, <1>2, <1>4

(* The two halves of a line.                                               *)
LEMMA SplitLine ==
    ASSUME NEW S, NEW s, Line(S, s), NEW n \in 0..Len(s)
    PROVE  /\ Line(S, SubSeq(s, 1, n)) /\ Line(S, SubSeq(s, n + 1, Len(s)))
           /\ Len(SubSeq(s, 1, n)) = n
           /\ Elems(SubSeq(s, 1, n)) \cap Elems(SubSeq(s, n + 1, Len(s))) = {}
           /\ Elems(SubSeq(s, 1, n)) \cup Elems(SubSeq(s, n + 1, Len(s))) = Elems(s)
<1> DEFINE m == Len(s)
           a == SubSeq(s, 1, n)
           b == SubSeq(s, n + 1, m)
<1>1. s \in Seq(S) /\ Distinct(s)
    BY DEF Line
<1>2. m \in Nat /\ DOMAIN s = 1..m /\ n \in Nat /\ n <= m /\ \A i \in 1..m : s[i] \in S
    BY <1>1, LineIs
<1>3. /\ a \in Seq(S) /\ Len(a) = n /\ \A i \in 1..n : a[i] = s[i]
    BY <1>2, SubSeqProperties
<1>4. /\ b \in Seq(S) /\ Len(b) = m - n /\ \A i \in 1..m - n : b[i] = s[n + i]
  <2> DEFINE k == n + 1
  <2>1. k \in Int /\ m \in Int /\ \A i \in k..m : s[i] \in S
    BY <1>2
  <2> HIDE DEF k, m
  <2>2. /\ SubSeq(s, k, m) \in Seq(S)
        /\ Len(SubSeq(s, k, m)) = IF k <= m THEN m - k + 1 ELSE 0
        /\ \A i \in 1..m - k + 1 : SubSeq(s, k, m)[i] = s[k + i - 1]
    BY <2>1, SubSeqProperties
  <2>3. b = SubSeq(s, k, m)
    BY DEF k
  <2> HIDE DEF b
  <2>4. b \in Seq(S) /\ Len(b) = m - n
    BY <1>2, <2>2, <2>3 DEF k
  <2>5. ASSUME NEW i \in 1..m - n
        PROVE  b[i] = s[n + i]
    <3>1. i \in 1..m - k + 1 /\ k + i - 1 = n + i
        BY <1>2 DEF k
    <3>2. QED
        BY <2>2, <2>3, <3>1
  <2>6. QED
    BY <2>4, <2>5
<1> HIDE DEF a, b, m
<1>5. DOMAIN a = 1..n /\ DOMAIN b = 1..m - n
    BY <1>2, <1>3, <1>4
<1>6. Distinct(a)
    BY <1>1, <1>2, <1>3, <1>5 DEF Distinct
<1>7. Distinct(b)
  <2> SUFFICES ASSUME NEW i \in 1..m - n, NEW j \in 1..m - n, b[i] = b[j]
               PROVE  i = j
    BY <1>5 DEF Distinct
  <2>1. n + i \in 1..m /\ n + j \in 1..m /\ s[n + i] = s[n + j]
    BY <1>2, <1>4
  <2>2. n + i = n + j
    BY <1>1, <1>2, <2>1 DEF Distinct
  <2>3. QED
    BY <1>2, <2>2
<1>8. \A x \in Elems(a) : \E i \in 1..n : x = s[i]
    BY <1>3, <1>5 DEF Elems
<1>9. \A x \in Elems(b) : \E i \in 1..m : i > n /\ x = s[i]
  <2> SUFFICES ASSUME NEW x \in Elems(b)
               PROVE  \E i \in 1..m : i > n /\ x = s[i]
    OBVIOUS
  <2>1. PICK j \in 1..m - n : x = b[j]
    BY <1>5 DEF Elems
  <2>2. n + j \in 1..m /\ n + j > n /\ x = s[n + j]
    BY <1>2, <1>4, <2>1
  <2>3. QED
    BY <2>2
<1>10. Elems(a) \cap Elems(b) = {}
  <2> SUFFICES ASSUME NEW x \in Elems(a), x \in Elems(b)
               PROVE  FALSE
    OBVIOUS
  <2>1. PICK i \in 1..n : x = s[i]
    BY <1>8
  <2>2. PICK j \in 1..m : j > n /\ x = s[j]
    BY <1>9
  <2>3. i \in 1..m /\ i # j
    BY <1>2, <2>2
  <2>4. QED
    BY <1>1, <1>2, <2>1, <2>2, <2>3 DEF Distinct
<1>11. ASSUME NEW x \in Elems(s)
       PROVE  x \in Elems(a) \cup Elems(b)
  <2>1. PICK i \in 1..m : x = s[i]
    BY <1>2 DEF Elems
  <2>2. CASE i <= n
    <3>1. i \in 1..n /\ x = a[i]
        BY <1>2, <1>3, <2>1, <2>2
    <3>2. QED
        BY <1>5, <3>1 DEF Elems
  <2>3. CASE ~(i <= n)
    <3>1. i - n \in 1..m - n /\ n + (i - n) = i
        BY <1>2, <2>3
    <3>2. x = b[i - n]
        BY <1>4, <2>1, <3>1
    <3>3. QED
        BY <1>5, <3>1, <3>2 DEF Elems
  <2>4. QED
    BY <2>2, <2>3
<1>12. Elems(a) \cup Elems(b) = Elems(s)
  <2>1. \A i \in 1..m : s[i] \in Elems(s)
    BY <1>2 DEF Elems
  <2>2. \A i \in 1..n : i \in 1..m
    BY <1>2
  <2>3. Elems(a) \subseteq Elems(s) /\ Elems(b) \subseteq Elems(s)
    BY <1>8, <1>9, <2>1, <2>2
  <2>4. QED
    BY <1>11, <2>3
<1>13. QED
    BY <1>3, <1>4, <1>6, <1>7, <1>10, <1>12 DEF Line, a, b, m

LEMMA TailLine ==
    ASSUME NEW S, NEW s, Line(S, s), s # << >>
    PROVE  /\ Line(S, Tail(s)) /\ Head(s) \in Elems(s)
           /\ Elems(Tail(s)) = Elems(s) \ {Head(s)}
<1>1. s \in Seq(S) /\ Len(s) \in Nat \ {0} /\ 1 \in 0..Len(s) /\ DOMAIN s = 1..Len(s)
    BY EmptySeq DEF Line
<1> DEFINE a == SubSeq(s, 1, 1)
           b == SubSeq(s, 2, Len(s))
<1>2. Tail(s) = b
    BY <1>1, TailIsSubSeq
<1>3. /\ Line(S, a) /\ Line(S, b) /\ Len(a) = 1
      /\ Elems(a) \cap Elems(b) = {} /\ Elems(a) \cup Elems(b) = Elems(s)
  <2> DEFINE n == 1
             c == SubSeq(s, n + 1, Len(s))
  <2>1. n \in 0..Len(s)
    BY <1>1
  <2>2. c = b
    OBVIOUS
  <2>3. /\ Line(S, SubSeq(s, 1, n)) /\ Line(S, c) /\ Len(SubSeq(s, 1, n)) = n
        /\ Elems(SubSeq(s, 1, n)) \cap Elems(c) = {}
        /\ Elems(SubSeq(s, 1, n)) \cup Elems(c) = Elems(s)
    <3> HIDE DEF n
    <3>1. QED
        BY <2>1, SplitLine
  <2>4. QED
    BY <2>2, <2>3
<1>4. a[1] = s[1] /\ Head(s) = s[1]
    BY <1>1
<1> HIDE DEF a, b
<1>5. a \in Seq(S) /\ DOMAIN a = 1..1
    BY <1>3 DEF Line
<1>6. Elems(a) = {Head(s)}
    BY <1>4, <1>5 DEF Elems
<1>7. QED
    BY <1>2, <1>3, <1>6

LEMMA KeptLine ==
    ASSUME NEW S, NEW s, Line(S, s)
    PROVE  Line(S, Kept(s)) /\ Elems(Kept(s)) \subseteq Elems(s)
<1>1. CASE Len(s) > MaxPending
  <2>1. MaxPending \in 0..Len(s)
    BY <1>1, QueueAssumption DEF Line
  <2>2. Kept(s) = SubSeq(s, 1, MaxPending)
    BY <1>1 DEF Kept
  <2>3. QED
    BY <2>1, <2>2, SplitLine
<1>2. CASE ~(Len(s) > MaxPending)
    BY <1>2 DEF Kept
<1>3. QED
    BY <1>1, <1>2

LEMMA FiniteLine ==
    ASSUME NEW S, NEW s \in Seq(S)
    PROVE  IsFiniteSet(Elems(s)) /\ IsFiniteSet(DOMAIN s) /\ DOMAIN s \subseteq Nat
<1>1. Len(s) \in Nat /\ DOMAIN s = 1..Len(s)
    BY LineIs
<1>2. IsFiniteSet(DOMAIN s)
    BY <1>1, FS_Interval
<1> DEFINE T == Elems(s)
           g == [x \in DOMAIN s |-> s[x]]
<1>3. g \in Surjection(DOMAIN s, T)
    BY DEF Surjection, Elems
<1> HIDE DEF T, g
<1>4. IsFiniteSet(T)
    BY <1>2, <1>3, FS_Surjection
<1>5. QED
    BY <1>1, <1>2, <1>4 DEF T

(* Every finite set of numbers has an ascending enumeration: otherwise     *)
(* there is a smallest set without one, and its least element followed by  *)
(* the enumeration of the others is one.                                   *)
Ascending(E, s) ==
    /\ s \in [1..Cardinality(E) -> E]
    /\ \A i, j \in 1..Cardinality(E) : i < j => s[i] < s[j]

LEMMA LeastOf ==
    ASSUME NEW E \in SUBSET Nat, E # {}
    PROVE  \E m \in E : \A x \in E : m <= x
<1> DEFINE Less == {ss \in Nat \X Nat : ss[1] < ss[2]}
<1>1. IsWellFoundedOn(Less, Nat)
    BY NatLessThanWellFounded DEF OpToRel
<1>2. PICK m \in E : \A x \in E : ~(<<x, m>> \in Less)
    BY <1>1, WFMin
<1>3. ASSUME NEW x \in E
      PROVE  m <= x
  <2>1. m \in Nat /\ x \in Nat
    OBVIOUS
  <2>2. x < m => <<x, m>> \in Less
    BY <2>1
  <2>3. ~(x < m)
    BY Zenon, <1>2, <2>2
  <2>4. QED
    BY <2>1, <2>3
<1>4. QED
    BY <1>3

LEMMA AscendingExists ==
    ASSUME NEW E \in SUBSET Nat, IsFiniteSet(E)
    PROVE  \E s : Ascending(E, s)
<1> DEFINE Bad == {n \in Nat : \E F \in SUBSET Nat :
                      IsFiniteSet(F) /\ Cardinality(F) = n /\ ~\E s : Ascending(F, s)}
<1>1. SUFFICES ASSUME Bad # {}
               PROVE  FALSE
    BY FS_CardinalityType
<1>2. PICK n \in Bad : \A k \in Bad : n <= k
    BY <1>1, LeastOf
<1>3. PICK F \in SUBSET Nat :
         n \in Nat /\ IsFiniteSet(F) /\ Cardinality(F) = n /\ ~\E s : Ascending(F, s)
    BY <1>2
<1>4. CASE n = 0
  <2>1. [i \in 1..0 |-> i] \in [1..n -> F]
    BY <1>4
  <2>2. Ascending(F, [i \in 1..0 |-> i])
    BY <1>3, <1>4, <2>1 DEF Ascending
  <2>3. QED
    BY <1>3, <2>2
<1>5. CASE n # 0
  <2>1. F # {}
    BY <1>3, <1>5, FS_EmptySet
  <2>2. PICK m \in F : \A x \in F : m <= x
    BY <2>1, LeastOf
  <2> DEFINE G == F \ {m}
  <2>3. IsFiniteSet(G) /\ Cardinality(G) = n - 1 /\ G \in SUBSET Nat
    BY <1>3, <2>2, FS_RemoveElement
  <2>4. n - 1 \in Nat /\ n - 1 \notin Bad
    BY <1>2, <1>3, <1>5
  <2>5. PICK t : Ascending(G, t)
    BY <2>3, <2>4
  <2> DEFINE s == [i \in 1..n |-> IF i = 1 THEN m ELSE t[i - 1]]
  <2>6. t \in [1..n - 1 -> G] /\ \A i, j \in 1..n - 1 : i < j => t[i] < t[j]
    BY <2>3, <2>5 DEF Ascending
  <2>7. \A i \in 1..n : i # 1 => i - 1 \in 1..n - 1 /\ t[i - 1] \in G
    BY <1>3, <2>6
  <2>8. s \in [1..n -> F]
    BY <2>2, <2>7
  <2>9. ASSUME NEW i \in 1..n, NEW j \in 1..n, i < j
        PROVE  s[i] < s[j]
    <3>1. j # 1 /\ s[j] = t[j - 1] /\ t[j - 1] \in G
        BY <1>3, <2>7, <2>9
    <3>2. CASE i = 1
      <4>1. s[i] = m /\ m \in Nat /\ s[j] \in Nat /\ m <= s[j] /\ m # s[j]
        BY <2>2, <3>1, <3>2
      <4>2. QED
        BY <4>1
    <3>3. CASE i # 1
      <4>1. s[i] = t[i - 1] /\ i - 1 \in 1..n - 1 /\ j - 1 \in 1..n - 1 /\ i - 1 < j - 1
        BY <1>3, <2>7, <2>9, <3>1, <3>3
      <4>2. QED
        BY <2>6, <3>1, <4>1
    <3>4. QED
        BY <3>2, <3>3
  <2> HIDE DEF s
  <2>10. Ascending(F, s)
    BY <1>3, <2>8, <2>9 DEF Ascending
  <2>11. QED
    BY <1>3, <2>10
<1>6. QED
    BY <1>4, <1>5

LEMMA SortedLine ==
    ASSUME NEW E \in SUBSET Nat, IsFiniteSet(E)
    PROVE  /\ Line(E, Sorted(E)) /\ Elems(Sorted(E)) = E
           /\ Sorted(E) \in [1..Cardinality(E) -> E]
<1> DEFINE n == Cardinality(E)
           s == Sorted(E)
<1>1. n \in Nat
    BY FS_CardinalityType
<1>2. \E t \in [1..n -> E] : \A i, j \in 1..n : i < j => t[i] < t[j]
    BY AscendingExists DEF Ascending
<1>3. s \in [1..n -> E] /\ \A i, j \in 1..n : i < j => s[i] < s[j]
    BY <1>2 DEF Sorted
<1> HIDE DEF n, s
<1>4. DOMAIN s = 1..n /\ s \in Seq(E)
    BY <1>1, <1>3
<1>5. \A i \in 1..n : s[i] \in Nat
    BY <1>3
<1>6. Distinct(s)
  <2> SUFFICES ASSUME NEW i \in 1..n, NEW j \in 1..n, s[i] = s[j]
               PROVE  i = j
    BY <1>4 DEF Distinct
  <2>1. ~(i < j) /\ ~(j < i)
    BY <1>3, <1>5
  <2>2. QED
    BY <1>1, <2>1
<1>7. s \in Injection(1..n, E)
    BY <1>3, <1>4, <1>6 DEF Distinct, Injection, IsInjective
<1>8. Cardinality(1..n) = n
    BY <1>1, FS_Interval
<1>9. s \in Surjection(1..n, E)
    BY <1>7, <1>8, FS_Injection DEF n
<1>10. Elems(s) = E
    BY <1>3, <1>4, <1>9 DEF Surjection, Elems
<1>11. QED
    BY <1>3, <1>4, <1>6, <1>10 DEF Line, s, n

LEMMA WithoutLine ==
    ASSUME NEW S, NEW s, Line(S, s), NEW e
    PROVE  Line(S, Without(s, e)) /\ Elems(Without(s, e)) = Elems(s) \ {e}
<1> DEFINE K == {i \in DOMAIN s : s[i] # e}
           n == Cardinality(K)
           p == Sorted(K)
           w == [j \in 1..n |-> s[p[j]]]
<1>1. Without(s, e) = w
    BY DEF Without
<1>2. /\ s \in Seq(S) /\ Distinct(s) /\ DOMAIN s \subseteq Nat /\ IsFiniteSet(DOMAIN s)
      /\ \A i \in DOMAIN s : s[i] \in S
    BY FiniteLine DEF Line
<1>3. K \in SUBSET (DOMAIN s) /\ \A i \in DOMAIN s : i \in K <=> s[i] # e
    OBVIOUS
<1> HIDE DEF K
<1>4. K \in SUBSET Nat /\ IsFiniteSet(K)
    BY <1>2, <1>3, FS_Subset
<1>5. n \in Nat
    BY <1>4, FS_CardinalityType
<1>6. p \in [1..n -> K] /\ Distinct(p) /\ Elems(p) = K
    BY <1>4, SortedLine DEF Line
<1> HIDE DEF n, p
<1>7. \A j \in 1..n : p[j] \in K /\ p[j] \in DOMAIN s /\ s[p[j]] \in S /\ s[p[j]] # e
    BY <1>2, <1>3, <1>6
<1>8. w \in [1..n -> S] /\ DOMAIN w = 1..n
    BY <1>7
<1>9. Distinct(w)
  <2> SUFFICES ASSUME NEW i \in 1..n, NEW j \in 1..n, w[i] = w[j]
               PROVE  i = j
    BY <1>8 DEF Distinct
  <2>1. p[i] = p[j]
    BY <1>2, <1>7 DEF Distinct
  <2>2. QED
    BY <1>6, <2>1 DEF Distinct
<1>10. \A j \in 1..n : w[j] = s[p[j]]
    OBVIOUS
<1> HIDE DEF w
<1>11. w \in Seq(S)
    BY <1>5, <1>8
<1>12. Elems(w) \subseteq Elems(s) \ {e}
    BY <1>7, <1>8, <1>10 DEF Elems
<1>13. ASSUME NEW x \in Elems(s) \ {e}
       PROVE  x \in Elems(w)
  <2>1. PICK i \in DOMAIN s : x = s[i]
    BY <1>13 DEF Elems
  <2>2. i \in K
    BY <1>3, <1>13, <2>1
  <2>3. PICK j \in 1..n : p[j] = i
    BY <1>6, <2>2 DEF Elems
  <2>4. w[j] = x
    BY <1>10, <2>1, <2>3
  <2>5. QED
    BY <1>8, <2>4 DEF Elems
<1>14. QED
    BY <1>1, <1>9, <1>11, <1>12, <1>13 DEF Line

(* The same facts, with what they say of the elements named.               *)
LEMMA AddsAndDrops ==
    ASSUME NEW S, NEW s, Line(S, s), NEW x
    PROVE  /\ Line(S, Without(s, x)) /\ Drops(Without(s, x), s, x)
           /\ s # << >> => /\ Line(S, Tail(s)) /\ Head(s) \in Elems(s)
                           /\ Drops(Tail(s), s, Head(s))
           /\ x \in S /\ x \notin Elems(s) =>
                Line(S, Append(s, x)) /\ Adds(Append(s, x), s, x)
BY WithoutLine, TailLine, AppendLine DEF Adds, Drops

LEMMA AppendElems ==
    ASSUME NEW S, NEW s \in Seq(S), NEW x \in S
    PROVE  Append(s, x) \in Seq(S) /\ Adds(Append(s, x), s, x)
<1> DEFINE u == Append(s, x)
           n == Len(s)
<1>1. /\ u \in Seq(S) /\ Len(u) = n + 1 /\ n \in Nat /\ DOMAIN s = 1..n
      /\ u[n + 1] = x /\ \A i \in 1..n : u[i] = s[i]
    BY AppendProperties
<1> HIDE DEF u
<1>2. DOMAIN u = 1..n + 1
    BY <1>1
<1>3. \A i \in 1..n + 1 : i \in 1..n \/ i = n + 1
    BY <1>1
<1>4. 1..n \subseteq 1..n + 1 /\ n + 1 \in 1..n + 1
    BY <1>1
<1>5. Elems(u) = Elems(s) \cup {x}
    BY <1>1, <1>2, <1>3, <1>4 DEF Elems
<1>6. QED
    BY <1>1, <1>5 DEF Adds, u

-----------------------------------------------------------------------------
(* Rows of the pool.                                                       *)

LEMMA TurnRows ==
    ASSUME Types
    PROVE  /\ \A a \in Busy : agents[a] \in BusyRows
           /\ \A a \in Done : agents[a] \in DoneRows
           /\ \A a \in Turns : /\ agents[a].chan \in Channels
                               /\ agents[a].events \in Seq(Events)
                               /\ agents[a].merged \in Seq(Events)
           /\ Busy \cap Done = {} /\ Turns \subseteq Agents
<1>1. \A a \in Agents : agents[a] \in RestRows \cup BusyRows \cup DoneRows
    BY DEF Types
<1>2. \A r \in RestRows : r.st # "busy" /\ r.st # "done"
    BY DEF RestRows, HungRows
<1>3. \A r \in BusyRows : r.st = "busy" /\ r.chan \in Channels
                          /\ r.events \in Seq(Events) /\ r.merged \in Seq(Events)
    BY DEF BusyRows
<1>4. \A r \in DoneRows : r.st = "done" /\ r.chan \in Channels
                          /\ r.events \in Seq(Events) /\ r.merged \in Seq(Events)
    BY DEF DoneRows
<1>5. QED
    BY <1>1, <1>2, <1>3, <1>4 DEF Turns, Busy, Done

(* The turns on c are the same before and after.                           *)
SameTurns(c) ==
    /\ TurnsOf(c)' = TurnsOf(c)
    /\ \A a \in TurnsOf(c) : /\ agents'[a].events = agents[a].events
                             /\ agents'[a].merged = agents[a].merged

(* A channel with a turn stays in flight, or is marked as released.        *)
Held(c) ==
    TurnsOf(c) # {} => /\ c \in inFlight => c \in inFlight' \/ c \in outlived'
                       /\ c \in outlived => c \in outlived'

(* Nothing on c changes that Local speaks of.                              *)
LEMMA LocalSame ==
    ASSUME NEW c, Local(c), SameTurns(c), Held(c),
           queues'[c] = queues[c], withheld'[c] = withheld[c], cancelled'[c] = cancelled[c],
           \A e \in On(c) : /\ e \in Elems(arrived') <=> e \in Elems(arrived)
                            /\ fate'[e] = fate[e]
    PROVE  Local(c)'
<1>1. /\ \A a \in TurnsOf(c) : Batch(a)' = Batch(a)
      /\ Stock(c)' = Stock(c)
    BY DEF SameTurns, Batch, Stock
<1>2. Hand(c)' = Hand(c)
    BY <1>1 DEF Hand, SameTurns
<1>3. Here(c)' = Here(c)
    BY <1>1, <1>2 DEF Here
<1>4. Filed(c)'
    BY DEF Local, Filed
<1>5. InHand(c)'
    BY <1>1 DEF Local, InHand, SameTurns
<1>6. Holds(c)'
    BY DEF Local, Holds, Held, SameTurns
<1>7. Fated(c)'
    BY <1>3 DEF Local, Fated
<1>8. QED
    BY <1>4, <1>5, <1>6, <1>7 DEF Local

(* Events N arrive and events D are disposed of.                           *)
LEMMA FatedMoved ==
    ASSUME NEW c, Fated(c), NEW N, NEW D,
           \A e \in On(c) : e \in Elems(arrived') <=> e \in Elems(arrived) \/ e \in N,
           N \cap Elems(arrived) = {},
           \A e \in On(c) : e \in D => e \in Elems(arrived) \/ e \in N,
           \A e \in On(c) : e \in Here(c)' <=> (e \in Here(c) \/ e \in N) /\ e \notin D,
           \A e \in On(c) : /\ e \in D => fate'[e] # "none"
                            /\ e \notin D => fate'[e] = fate[e]
    PROVE  Fated(c)'
BY DEF Fated

(* One agent is given another row.                                         *)
LEMMA OneRow ==
    ASSUME Types, NEW a \in Agents, NEW r, agents' = [agents EXCEPT ![a] = r]
    PROVE  /\ \A b \in Agents \ {a} : agents'[b] = agents[b]
           /\ agents'[a] = r
           /\ \A c : a \notin TurnsOf(c) /\ a \notin TurnsOf(c)' => SameTurns(c)
           /\ \A c : TurnsOf(c)' \ {a} = TurnsOf(c) \ {a}
<1>1. \A b \in Agents : agents'[b] = IF b = a THEN r ELSE agents[b]
    BY DEF Types
<1>2. \A c : \A b \in Agents \ {a} : b \in TurnsOf(c)' <=> b \in TurnsOf(c)
    BY <1>1 DEF TurnsOf, Turns, Busy, Done
<1>3. \A c : TurnsOf(c) \subseteq Agents /\ TurnsOf(c)' \subseteq Agents
    BY DEF TurnsOf, Turns, Busy, Done
<1>4. \A c : TurnsOf(c)' \ {a} = TurnsOf(c) \ {a}
    BY <1>2, <1>3
<1>5. \A c : a \notin TurnsOf(c) /\ a \notin TurnsOf(c)' => TurnsOf(c)' = TurnsOf(c)
    BY <1>4
<1>6. QED
    BY <1>1, <1>3, <1>4, <1>5 DEF SameTurns

(* A row changes that is no result, and its turn is the same.              *)
LEMMA RowKept ==
    ASSUME Types, NEW a \in Agents, NEW t \in RestRows \cup BusyRows,
           agents' = [agents EXCEPT ![a] = t], t.st = agents[a].st,
           t.st = "busy" => /\ t.chan = agents[a].chan /\ t.events = agents[a].events
                            /\ t.merged = agents[a].merged
    PROVE  /\ agents' \in [Agents -> RestRows \cup BusyRows \cup DoneRows]
           /\ \A d : SameTurns(d)
<1>1. agents' \in [Agents -> RestRows \cup BusyRows \cup DoneRows]
    BY DEF Types
<1>2. \A b \in Agents : agents'[b] = IF b = a THEN t ELSE agents[b]
    BY DEF Types
<1>3. t.st # "done"
    BY DEF RestRows, HungRows, BusyRows
<1>4. ASSUME NEW b \in Agents
      PROVE  /\ agents'[b].st = agents[b].st
             /\ b \in Turns => /\ agents'[b].chan = agents[b].chan
                               /\ agents'[b].events = agents[b].events
                               /\ agents'[b].merged = agents[b].merged
    BY <1>2, <1>3 DEF Turns, Busy, Done
<1>5. \A d : TurnsOf(d)' = TurnsOf(d)
    BY <1>4 DEF TurnsOf, Turns, Busy, Done
<1>6. \A d : SameTurns(d)
    BY <1>4, <1>5 DEF SameTurns, TurnsOf, Turns, Busy, Done
<1>7. QED
    BY <1>1, <1>6

LEMMA SameRows ==
    ASSUME agents' = agents
    PROVE  \A c : SameTurns(c)
BY DEF SameTurns, TurnsOf, Turns, Busy, Done

(* Signals do not change a turn.                                           *)
LEMMA SignalIsSame ==
    ASSUME Types, NEW c, NEW sig \in Signals, agents' \in Signalled(c, sig)
    PROVE  /\ agents' \in [Agents -> RestRows \cup BusyRows \cup DoneRows]
           /\ \A d : SameTurns(d)
<1>1. CASE agents' = agents
    BY <1>1, SameRows DEF Types
<1>2. CASE agents' # agents
  <2>1. PICK a \in Tasks(c) : /\ agents[a].st = "busy"
                              /\ agents' = [agents EXCEPT ![a].sig = sig]
    BY <1>2 DEF Signalled
  <2>2. a \in Agents /\ a \in Busy
    BY <2>1 DEF Tasks, Turns, Busy, Done, Hung
  <2>3. PICK r : r = agents[a]
    OBVIOUS
  <2>4. r \in BusyRows
    BY <2>2, <2>3, TurnRows
  <2> DEFINE t == [r EXCEPT !.sig = sig]
  <2>5. /\ t \in BusyRows /\ t.st = r.st /\ t.chan = r.chan
        /\ t.events = r.events /\ t.merged = r.merged
    BY <2>4 DEF BusyRows
  <2>6. agents' = [agents EXCEPT ![a] = t]
    BY <2>1, <2>3
  <2> HIDE DEF t
  <2>7. QED
    BY <2>2, <2>3, <2>5, <2>6, RowKept
<1>3. QED
    BY <1>1, <1>2

LEMMA SteersOf ==
    ASSUME Types, NEW a \in Busy \cup Hung
    PROVE  /\ agents[a] \in BusyRows \/ agents[a] \in HungRows
           /\ agents[a].steers \in SUBSET Events
<1>1. PICK r : r = agents[a]
    OBVIOUS
<1>2. r \in BusyRows \/ r \in HungRows
  <2>1. CASE a \in Busy
    BY <1>1, <2>1, TurnRows
  <2>2. CASE a \in Hung
    <3>1. r \in RestRows \cup BusyRows \cup DoneRows /\ r.st = "hung"
        BY <1>1, <2>2 DEF Types, Hung
    <3>2. /\ \A x \in BusyRows : x.st # "hung"
          /\ \A x \in DoneRows : x.st # "hung"
          /\ \A x \in [st : {"idle", "down"}] : x.st # "hung"
        BY DEF BusyRows, DoneRows
    <3>3. QED
        BY <3>1, <3>2 DEF RestRows
  <2>3. QED
    BY <2>1, <2>2
<1>3. /\ \A x \in BusyRows : x.steers \in SUBSET Events
      /\ \A x \in HungRows : x.steers \in SUBSET Events
    BY DEF BusyRows, HungRows
<1>4. QED
    BY <1>1, <1>2, <1>3

(* A steer is handed to a task, or answered.                               *)
LEMMA SteersAreSame ==
    ASSUME Types, NEW a \in Busy \cup Hung, NEW E \in SUBSET Events,
           agents' = [agents EXCEPT ![a].steers = E]
    PROVE  /\ agents' \in [Agents -> RestRows \cup BusyRows \cup DoneRows]
           /\ \A d : SameTurns(d)
<1>1. a \in Agents
    BY DEF Busy, Hung
<1>2. PICK r : r = agents[a]
    OBVIOUS
<1> DEFINE t == [r EXCEPT !.steers = E]
<1>3. r \in BusyRows \/ r \in HungRows
    BY <1>2, SteersOf
<1>4. CASE r \in BusyRows
  <2>1. /\ t \in BusyRows /\ t.st = r.st /\ t.chan = r.chan
        /\ t.events = r.events /\ t.merged = r.merged
    BY <1>4 DEF BusyRows
  <2>2. agents' = [agents EXCEPT ![a] = t]
    BY <1>2
  <2> HIDE DEF t
  <2>3. QED
    BY <1>1, <1>2, <2>1, <2>2, RowKept
<1>5. CASE r \in HungRows
  <2>1. t \in HungRows /\ t.st = r.st /\ t.st # "busy"
    BY <1>5 DEF HungRows
  <2>2. agents' = [agents EXCEPT ![a] = t]
    BY <1>2
  <2> HIDE DEF t
  <2>3. t \in RestRows
    BY <2>1 DEF RestRows
  <2>4. QED
    BY <1>1, <1>2, <2>1, <2>2, <2>3, RowKept
<1>6. QED
    BY <1>3, <1>4, <1>5

-----------------------------------------------------------------------------
(* Steps that move no event.                                               *)

LEMMA StillStep ==
    ASSUME IInv, Types', \A c : SameTurns(c),
           queues' = queues, withheld' = withheld, cancelled' = cancelled,
           arrived' = arrived, inFlight' = inFlight, outlived' = outlived, fate' = fate
    PROVE  IInv'
<1>1. ASSUME NEW c \in Channels
      PROVE  Local(c)'
  <2>1. Local(c)
    BY DEF IInv
  <2>2. Held(c)
    BY DEF Held
  <2>3. QED
    BY <2>1, <2>2, LocalSame
<1>2. QED
    BY <1>1 DEF IInv

LEMMA ControlStep ==
    ASSUME IInv, NEW c \in Channels, NEW sig \in Controls, control(c, sig)
    PROVE  IInv'
<1>1. sig \in Signals /\ agents' \in Signalled(c, sig)
    BY QueueAssumption DEF Signals, control
<1>2. /\ agents' \in [Agents -> RestRows \cup BusyRows \cup DoneRows]
      /\ \A d : SameTurns(d)
    BY <1>1, SignalIsSame DEF IInv
<1>3. Types'
    BY <1>2 DEF IInv, Types, control, queue
<1>4. QED
    BY <1>2, <1>3, StillStep DEF control, queue

(* The backstop that passes changes nothing until dispatch_pending.        *)
LEMMA QuietSteps ==
    ASSUME IInv,
           \/ \E c \in Channels : member_added(c) \/ backoff_elapses(c) \/ deadline_passes(c)
           \/ maintenance_tick
    PROVE  IInv'
<1>1. /\ queues' = queues /\ withheld' = withheld /\ cancelled' = cancelled
      /\ arrived' = arrived /\ inFlight' = inFlight /\ outlived' = outlived
      /\ fate' = fate /\ agents' = agents /\ steer' = steer
    BY DEF member_added, backoff_elapses, deadline_passes, maintenance_tick, queue
<1>2. Types'
    BY <1>1 DEF IInv, Types
<1>3. QED
    BY <1>1, <1>2, SameRows, StillStep

LEMMA AnswerStep ==
    ASSUME IInv, NEW a \in Agents, NEW e \in Events, answer_steer(a, e)
    PROVE  IInv'
<1>1. /\ queues' = queues /\ withheld' = withheld /\ cancelled' = cancelled
      /\ arrived' = arrived /\ inFlight' = inFlight /\ outlived' = outlived
      /\ fate' = fate /\ a \in Busy
    BY DEF answer_steer, queue
<1>2. PICK ack : steer' = [steer EXCEPT ![e] = ack]
    BY DEF answer_steer
<1>3. Types
    BY DEF IInv
<1>4. PICK E : E = agents[a].steers \ {e}
    OBVIOUS
<1>5. agents[a].steers \in SUBSET Events
    BY <1>1, <1>3, SteersOf
<1>6. E \in SUBSET Events
    BY <1>4, <1>5
<1>7. agents' = [agents EXCEPT ![a].steers = E]
    BY <1>3, <1>4 DEF answer_steer, Types
<1>8. /\ agents' \in [Agents -> RestRows \cup BusyRows \cup DoneRows]
      /\ \A d : SameTurns(d)
    BY <1>1, <1>3, <1>6, <1>7, SteersAreSame
<1>9. DOMAIN steer' = Events
    BY <1>2, <1>3 DEF Types
<1>10. Types'
    BY <1>1, <1>3, <1>8, <1>9 DEF Types
<1>11. QED
    BY <1>1, <1>8, <1>10, StillStep

LEMMA RespawnStep ==
    ASSUME IInv, NEW a \in Agents, respawned(a)
    PROVE  IInv'
<1>1. /\ queues' = queues /\ withheld' = withheld /\ cancelled' = cancelled
      /\ arrived' = arrived /\ inFlight' = inFlight /\ outlived' = outlived
      /\ fate' = fate /\ steer' = steer
      /\ agents' = [agents EXCEPT ![a] = Idle] /\ agents[a] = Down
    BY DEF respawned, queue
<1>2. Types
    BY DEF IInv
<1>3. Idle \in RestRows /\ Idle.st # "busy" /\ Idle.st # "done"
      /\ Down.st # "busy" /\ Down.st # "done"
    BY DEF Idle, Down, RestRows
<1>4. agents'[a] = Idle /\ \A c : a \notin TurnsOf(c) /\ a \notin TurnsOf(c)' => SameTurns(c)
    BY <1>1, <1>2, OneRow
<1>5. \A c : a \notin TurnsOf(c) /\ a \notin TurnsOf(c)'
    BY <1>1, <1>3, <1>4 DEF TurnsOf, Turns, Busy, Done
<1>6. agents' \in [Agents -> RestRows \cup BusyRows \cup DoneRows]
    BY <1>1, <1>2, <1>3 DEF Types
<1>7. Types'
    BY <1>1, <1>2, <1>6 DEF Types
<1>8. QED
    BY <1>1, <1>4, <1>5, <1>7, StillStep

LEMMA QuiesceStep ==
    ASSUME IInv, quiesce
    PROVE  IInv'
<1>1. /\ queues' = queues /\ withheld' = withheld /\ cancelled' = cancelled
      /\ arrived' = arrived /\ inFlight' = inFlight /\ outlived' = outlived
      /\ fate' = fate /\ steer' = steer
    BY DEF quiesce, queue
<1>2. Types
    BY DEF IInv
<1>3. ASSUME NEW a \in Agents
      PROVE  /\ agents'[a] \in RestRows \cup BusyRows \cup DoneRows
             /\ agents'[a].st = "busy" <=> agents[a].st = "busy"
             /\ agents'[a].st = "done" <=> agents[a].st = "done"
             /\ a \in Turns => /\ agents'[a].chan = agents[a].chan
                               /\ agents'[a].events = agents[a].events
                               /\ agents'[a].merged = agents[a].merged
  <2>1. CASE a \in Busy /\ agents[a].sig = "none"
    <3> DEFINE r == agents[a]
               t == [r EXCEPT !.sig = "Interrupt"]
    <3>1. r \in BusyRows /\ agents'[a] = t
        BY <1>2, <2>1, TurnRows DEF quiesce
    <3> HIDE DEF r
    <3>2. /\ t \in BusyRows /\ t.st = r.st /\ t.chan = r.chan
          /\ t.events = r.events /\ t.merged = r.merged
        BY <3>1 DEF BusyRows, Signals
    <3>3. QED
        BY <3>1, <3>2 DEF r
  <2>2. CASE (a \in Busy /\ agents[a].sig # "none") \/ a \in Done \cup Hung
    <3>1. agents'[a] = agents[a]
        BY <2>2 DEF quiesce, Busy, Done, Hung
    <3>2. QED
        BY <1>2, <3>1 DEF Types
  <2>3. CASE a \notin Busy \cup Done \cup Hung
    <3>1. agents'[a] = Down
        BY <2>3 DEF quiesce
    <3>2. QED
        BY <2>3, <3>1 DEF Down, RestRows, Turns, Busy, Done, Hung
  <2>4. QED
    BY <2>1, <2>2, <2>3
<1>4. agents' \in [Agents -> RestRows \cup BusyRows \cup DoneRows]
  <2>1. agents' = [a \in Agents |-> agents'[a]]
    BY DEF quiesce
  <2>2. QED
    BY <1>3, <2>1
<1>5. \A c : TurnsOf(c)' = TurnsOf(c)
    BY <1>3 DEF TurnsOf, Turns, Busy, Done
<1>6. \A c : SameTurns(c)
    BY <1>3, <1>5 DEF SameTurns, TurnsOf, Turns, Busy, Done
<1>7. Types'
    BY <1>1, <1>2, <1>4 DEF Types
<1>8. QED
    BY <1>1, <1>6, <1>7, StillStep

LEMMA ResumeStep ==
    ASSUME IInv, resume
    PROVE  IInv'
<1>1. /\ queues' = queues /\ withheld' = withheld /\ cancelled' = cancelled
      /\ arrived' = arrived /\ inFlight' = inFlight /\ outlived' = outlived
      /\ fate' = fate /\ steer' = steer /\ agents' = [a \in Agents |-> Idle]
      /\ Turns = {}
    BY DEF resume, queue
<1>2. Idle \in RestRows /\ Idle.st # "busy" /\ Idle.st # "done"
    BY DEF Idle, RestRows
<1>3. \A c : TurnsOf(c)' = {} /\ TurnsOf(c) = {}
    BY <1>1, <1>2 DEF TurnsOf, Turns, Busy, Done
<1>4. \A c : SameTurns(c)
    BY <1>3 DEF SameTurns
<1>5. Types'
    BY <1>1, <1>2 DEF IInv, Types
<1>6. QED
    BY <1>1, <1>4, <1>5, StillStep

(* The turn ends and posts its result.                                     *)
LEMMA PromptStep ==
    ASSUME IInv, NEW a \in Agents, run_prompt_task(a)
    PROVE  IInv'
<1>1. /\ queues' = queues /\ withheld' = withheld /\ cancelled' = cancelled
      /\ arrived' = arrived /\ inFlight' = inFlight /\ outlived' = outlived
      /\ fate' = fate /\ a \in Busy /\ DOMAIN steer' = Events
    BY DEF run_prompt_task, queue
<1>2. Types
    BY DEF IInv
<1>3. PICK o \in Outcomes(agents[a].sig) :
         agents' = [agents EXCEPT ![a] =
             [st |-> "done", chan |-> agents[a].chan, events |-> agents[a].events,
              merged |-> agents[a].merged, out |-> o[1], next |-> o[2]]]
    BY DEF run_prompt_task
<1>4. /\ o[1] \in {"ok", "retry", "dead", "cancelled", "dropped"}
      /\ o[2] \in {"idle", "down"}
    BY <1>3 DEF Outcomes
<1> DEFINE r == [st |-> "done", chan |-> agents[a].chan, events |-> agents[a].events,
                 merged |-> agents[a].merged, out |-> o[1], next |-> o[2]]
<1>5. r \in DoneRows
    BY <1>1, <1>2, <1>4, TurnRows DEF DoneRows, Turns
<1>6. agents' \in [Agents -> RestRows \cup BusyRows \cup DoneRows]
    BY <1>2, <1>3, <1>5 DEF Types
<1>r. /\ agents' = [agents EXCEPT ![a] = r] /\ r.st = "done" /\ r.chan = agents[a].chan
      /\ r.events = agents[a].events /\ r.merged = agents[a].merged
    BY <1>3
<1> HIDE DEF r
<1>7. /\ agents'[a] = r /\ \A c : TurnsOf(c)' \ {a} = TurnsOf(c) \ {a}
      /\ \A b \in Agents \ {a} : agents'[b] = agents[b]
    BY <1>2, <1>r, OneRow
<1>8. \A c : a \in TurnsOf(c)' <=> a \in TurnsOf(c)
    BY <1>1, <1>7, <1>r DEF TurnsOf, Turns, Busy, Done
<1>9. \A c : TurnsOf(c) \subseteq Agents
    BY DEF TurnsOf, Turns, Busy, Done
<1>10. \A c : SameTurns(c)
  <2>1. \A c : TurnsOf(c)' = TurnsOf(c)
    BY <1>7, <1>8
  <2>2. QED
    BY <1>7, <1>9, <1>r, <2>1 DEF SameTurns
<1>11. Types'
    BY <1>1, <1>2, <1>6 DEF Types
<1>12. QED
    BY <1>1, <1>10, <1>11, StillStep

-----------------------------------------------------------------------------
(* Steps on one channel.                                                   *)

Untouched(d) ==
    /\ SameTurns(d) /\ Held(d)
    /\ queues'[d] = queues[d] /\ withheld'[d] = withheld[d] /\ cancelled'[d] = cancelled[d]
    /\ \A e \in On(d) : /\ e \in Elems(arrived') <=> e \in Elems(arrived)
                        /\ fate'[e] = fate[e]

LEMMA OneChannel ==
    ASSUME IInv, Types', NEW c, Local(c)', \A d \in Channels \ {c} : Untouched(d)
    PROVE  IInv'
<1>1. ASSUME NEW d \in Channels, d # c
      PROVE  Local(d)'
  <2>1. Local(d) /\ Untouched(d)
    BY <1>1 DEF IInv
  <2>2. QED
    BY <2>1, LocalSame DEF Untouched
<1>2. QED
    BY <1>1 DEF IInv

(* What a turn of c leaves behind when it ends.                            *)
Ended(a, c) ==
    /\ c \in Channels
    /\ \A b \in TurnsOf(c)' : b \in TurnsOf(c) /\ b # a /\ agents'[b] = agents[b]
    /\ Batch(a) \subseteq Hand(c)
    /\ \A e : e \in Hand(c)' <=> e \in Hand(c) /\ e \notin Batch(a)
    /\ Hand(c) \cap Stock(c) = {}
    /\ Line(On(c), agents[a].events) /\ Line(On(c), agents[a].merged)
    /\ Elems(agents[a].events) \cap Elems(agents[a].merged) = {}
    /\ Batch(a) \subseteq On(c)
    /\ Batch(a) \subseteq Elems(arrived)
    /\ Holds(c)'

(* The other channels keep their turns, and the mark of those released     *)
(* under one.                                                              *)
Others(c) ==
    \A d : d # c => /\ SameTurns(d)
                    /\ TurnsOf(d) # {} /\ d \in outlived => d \in outlived'

LEMMA TurnEnds ==
    ASSUME IInv, NEW a \in Turns, NEW r \in RestRows, agents' = [agents EXCEPT ![a] = r],
           TurnOver(a), NEW c, c = agents[a].chan
    PROVE  /\ agents' \in [Agents -> RestRows \cup BusyRows \cup DoneRows]
           /\ Ended(a, c) /\ Others(c)
<1>1. Types /\ a \in Agents /\ c \in Channels /\ a \in TurnsOf(c)
    BY TurnRows DEF IInv, TurnsOf
<1>2. Local(c)
    BY <1>1 DEF IInv
<1>3. agents' \in [Agents -> RestRows \cup BusyRows \cup DoneRows]
    BY <1>1 DEF Types
<1>4. /\ agents'[a] = r
      /\ \A b \in Agents \ {a} : agents'[b] = agents[b]
      /\ \A d : a \notin TurnsOf(d) /\ a \notin TurnsOf(d)' => SameTurns(d)
      /\ \A d : TurnsOf(d)' \ {a} = TurnsOf(d) \ {a}
    BY <1>1, OneRow
<1>5. r.st # "busy" /\ r.st # "done"
    BY DEF RestRows, HungRows
<1>6. \A d : a \notin TurnsOf(d)'
    BY <1>4, <1>5 DEF TurnsOf, Turns, Busy, Done
<1>7. \A d : d # c => a \notin TurnsOf(d)
    BY DEF TurnsOf
<1>8. \A b : b \in TurnsOf(c)' <=> b \in TurnsOf(c) /\ b # a
    BY <1>4, <1>6
<1>9. \A b \in TurnsOf(c)' : b \in Agents \ {a} /\ agents'[b] = agents[b]
    BY <1>4, <1>8 DEF TurnsOf, Turns, Busy, Done
<1>10. /\ Line(On(c), agents[a].events) /\ Line(On(c), agents[a].merged)
       /\ Elems(agents[a].events) \cap Elems(agents[a].merged) = {}
    BY <1>1, <1>2 DEF Local, InHand
<1>11. Batch(a) \subseteq On(c)
    BY <1>10, LineIs DEF Line, Batch
<1>12. Batch(a) \subseteq Hand(c)
    BY <1>1 DEF Hand
<1>13. Batch(a) \subseteq Elems(arrived)
    BY <1>2, <1>11, <1>12 DEF Local, Fated, Here
<1>14. Hand(c) \cap Stock(c) = {}
    BY <1>2 DEF Local, InHand, Hand
<1>15. ASSUME NEW e
       PROVE  e \in Hand(c)' <=> e \in Hand(c) /\ e \notin Batch(a)
  <2>1. \A b \in TurnsOf(c)' : Batch(b)' = Batch(b)
    BY <1>9 DEF Batch
  <2>2. e \in Hand(c)' <=> \E b \in TurnsOf(c)' : e \in Batch(b)
    BY <2>1 DEF Hand
  <2>3. e \in Hand(c) <=> \E b \in TurnsOf(c) : e \in Batch(b)
    BY DEF Hand
  <2>4. \A b \in TurnsOf(c) : b # a => Batch(b) \cap Batch(a) = {}
    BY <1>1, <1>2 DEF Local, InHand
  <2>5. QED
    BY <1>8, <2>2, <2>3, <2>4
<1>16. \A d : \A b \in TurnsOf(d) : b # a /\ d \in outlived => d \in outlived'
  <2>1. \A d : \A b \in TurnsOf(d) : b \in Turns /\ d = agents[b].chan
    BY DEF TurnsOf
  <2>2. \A d : \A b \in TurnsOf(d) : b # a => d \in Prompted(Turns \ {a})
    BY <2>1 DEF Prompted
  <2>3. QED
    BY <2>2 DEF TurnOver
<1>17. Holds(c)'
  <2>1. CASE TurnsOf(c)' = {}
    BY <2>1 DEF Holds
  <2>2. CASE TurnsOf(c)' # {}
    <3>1. PICK b \in TurnsOf(c) : b # a
        BY <1>8, <2>2
    <3>2. c \in outlived
        BY <1>1, <1>2, <3>1 DEF Local, Holds
    <3>3. c \in outlived'
        BY <1>16, <3>1, <3>2
    <3>4. QED
        BY <3>3 DEF Holds
  <2>3. QED
    BY <2>1, <2>2
<1>18. Ended(a, c)
    BY <1>1, <1>8, <1>9, <1>10, <1>11, <1>12, <1>13, <1>14, <1>15, <1>17 DEF Ended
<1>19. Others(c)
    BY <1>4, <1>6, <1>7, <1>16 DEF Others
<1>20. QED
    BY <1>3, <1>18, <1>19

LEMMA EndedLocal ==
    ASSUME NEW a, NEW c, Local(c), Ended(a, c), Filed(c)', Fated(c)',
           Hand(c)' \cap Stock(c)' = {}
    PROVE  Local(c)'
<1>1. \A b \in TurnsOf(c)' : b \in TurnsOf(c) /\ agents'[b] = agents[b]
    BY DEF Ended
<1>2. \A b \in TurnsOf(c)' : Batch(b)' = Batch(b)
    BY <1>1 DEF Batch
<1>3. \A b \in TurnsOf(c)' : Batch(b)' \cap Stock(c)' = {}
    BY DEF Hand
<1>4. InHand(c)'
    BY <1>1, <1>2, <1>3 DEF Local, InHand
<1>5. QED
    BY <1>4 DEF Local, Ended

LEMMA GoneIs ==
    ASSUME NEW E, NEW how, fate' = Gone(E, how)
    PROVE  /\ DOMAIN fate' = Events
           /\ \A e \in Events : /\ e \in E => fate'[e] = how
                                /\ e \notin E => fate'[e] = fate[e]
BY DEF Gone

(* The batch of a turn is given up.                                        *)
LEMMA BatchGone ==
    ASSUME IInv, NEW a \in Turns, NEW r \in RestRows, agents' = [agents EXCEPT ![a] = r],
           TurnOver(a),
           queues' = queues, withheld' = withheld, cancelled' = cancelled,
           arrived' = arrived, steer' = steer, inFlight' \subseteq inFlight,
           inFlight \ {agents[a].chan} \subseteq inFlight',
           NEW how, how # "none", fate' = Gone(Batch(a), how)
    PROVE  IInv'
<1>p. PICK c : c = agents[a].chan
    OBVIOUS
<1>1. /\ agents' \in [Agents -> RestRows \cup BusyRows \cup DoneRows]
      /\ Ended(a, c) /\ Others(c)
    BY <1>p, TurnEnds
<1>c. inFlight \ {c} \subseteq inFlight'
    BY <1>p
<1>2. Types /\ Local(c) /\ c \in Channels
    BY <1>1 DEF IInv, Ended
<1>3. /\ DOMAIN fate' = Events
      /\ \A e \in Events : /\ e \in Batch(a) => fate'[e] = how
                           /\ e \notin Batch(a) => fate'[e] = fate[e]
    BY GoneIs
<1>4. Types'
    BY <1>1, <1>2, <1>3 DEF Types
<1>5. \A d : On(d) \subseteq Events
    BY DEF On
<1>6. ASSUME NEW d \in Channels \ {c}
      PROVE  Untouched(d)
  <2>1. \A e \in On(d) : fate'[e] = fate[e]
    BY <1>1, <1>3 DEF On, Ended
  <2>2. SameTurns(d) /\ Held(d)
    BY <1>1, <1>c DEF Others, Held
  <2>3. QED
    BY <2>1, <2>2 DEF Untouched
<1>7. Stock(c)' = Stock(c)
    BY DEF Stock
<1>8. Filed(c)'
    BY <1>2 DEF Local, Filed
<1>9. Fated(c)'
  <2> DEFINE N == {}
             D == Batch(a)
  <2>1. \A e \in On(c) : e \in Here(c)' <=> (e \in Here(c) \/ e \in N) /\ e \notin D
    BY <1>1, <1>7 DEF Here, Ended
  <2>2. \A e \in On(c) : e \in D => e \in Elems(arrived) \/ e \in N
    BY <1>1 DEF Ended
  <2>3. \A e \in On(c) : /\ e \in D => fate'[e] # "none"
                         /\ e \notin D => fate'[e] = fate[e]
    BY <1>3, <1>5
  <2>4. \A e \in On(c) : e \in Elems(arrived') <=> e \in Elems(arrived) \/ e \in N
    OBVIOUS
  <2>5. N \cap Elems(arrived) = {} /\ Fated(c)
    BY <1>2 DEF Local
  <2> HIDE DEF N, D
  <2>6. QED
    BY <2>1, <2>2, <2>3, <2>4, <2>5, FatedMoved
<1>10. Hand(c)' \cap Stock(c)' = {}
    BY <1>1, <1>7 DEF Ended
<1>11. Local(c)'
    BY <1>1, <1>2, <1>8, <1>9, <1>10, EndedLocal
<1>12. QED
    BY <1>4, <1>6, <1>11, OneChannel

LEMMA HangStep ==
    ASSUME IInv, NEW a \in Agents, turn_hangs(a)
    PROVE  IInv'
<1>1. PICK r : r = [st |-> "hung", chan |-> agents[a].chan, steers |-> agents[a].steers]
    OBVIOUS
<1>2. /\ queues' = queues /\ withheld' = withheld /\ cancelled' = cancelled
      /\ arrived' = arrived /\ inFlight' = inFlight /\ steer' = steer
      /\ a \in Busy /\ agents' = [agents EXCEPT ![a] = r] /\ TurnOver(a)
    BY <1>1 DEF turn_hangs, queue
<1>3. agents[a] \in BusyRows /\ a \in Turns
    BY <1>2, TurnRows DEF IInv, Turns
<1>4. r \in RestRows
  <2>1. agents[a].chan \in Channels /\ agents[a].steers \in SUBSET Events
    BY <1>3 DEF BusyRows
  <2>2. QED
    BY <1>1, <2>1 DEF RestRows, HungRows
<1>5. PICK how : how # "none" /\ fate' = Gone(Batch(a), how)
  <2>1. fate' = Gone(Batch(a), "orphaned")
    BY DEF turn_hangs, Batch
  <2>2. QED
    BY <2>1
<1>6. inFlight' \subseteq inFlight /\ inFlight \ {agents[a].chan} \subseteq inFlight'
    BY <1>2
<1>7. QED
    BY <1>2, <1>3, <1>4, <1>5, <1>6, BatchGone

LEMMA FreedIs ==
    ASSUME IInv, NEW a \in Done
    PROVE  [st |-> agents[a].next] \in RestRows /\ a \in Turns /\ Down \in RestRows
<1>1. agents[a].next \in {"idle", "down"}
    BY TurnRows DEF IInv, DoneRows
<1>2. QED
    BY <1>1 DEF RestRows, Turns, Down

LEMMA BatchOverStep ==
    ASSUME IInv, NEW a \in Agents, batch_over(a) \/ batch_dead_lettered(a)
    PROVE  IInv'
<1> DEFINE r == [st |-> agents[a].next]
<1>1. /\ queues' = queues /\ withheld' = withheld /\ cancelled' = cancelled
      /\ arrived' = arrived /\ steer' = steer
      /\ inFlight' = inFlight \ {agents[a].chan} /\ TurnOver(a)
      /\ a \in Done /\ agents' = [agents EXCEPT ![a] = r]
    BY DEF batch_over, batch_dead_lettered, result, MarkComplete, Freed
<1>2. r \in RestRows /\ a \in Turns
    BY <1>1, FreedIs
<1> HIDE DEF r
<1>3. PICK how : how # "none" /\ fate' = Gone(Batch(a), how)
  <2>1. CASE batch_over(a)
    <3> DEFINE h == IF agents[a].out = "ok" THEN "answered"
                    ELSE IF agents[a].chan \in removed \/ agents[a].out = "dropped"
                         THEN "dropped" ELSE "dead"
    <3>1. fate' = Gone(Batch(a), h) /\ h # "none"
        BY <2>1 DEF batch_over
    <3> HIDE DEF h
    <3>2. QED
        BY <3>1
  <2>2. CASE batch_dead_lettered(a)
    <3>1. fate' = Gone(Batch(a), "dead")
        BY <2>2 DEF batch_dead_lettered
    <3>2. QED
        BY <3>1
  <2>3. QED
    BY <2>1, <2>2
<1>4. inFlight' \subseteq inFlight /\ inFlight \ {agents[a].chan} \subseteq inFlight'
    BY <1>1
<1>5. QED
    BY <1>1, <1>2, <1>3, <1>4, BatchGone

LEMMA DrainResultStep ==
    ASSUME IInv, NEW a \in Agents, drain_result(a)
    PROVE  IInv'
<1> DEFINE how == IF agents[a].out = "ok" THEN "answered" ELSE "dropped"
<1>1. /\ queues' = queues /\ withheld' = withheld /\ cancelled' = cancelled
      /\ arrived' = arrived /\ steer' = steer /\ inFlight' = inFlight /\ TurnOver(a)
      /\ a \in Done /\ agents' = [agents EXCEPT ![a] = Down]
      /\ fate' = Gone(Batch(a), how) /\ how # "none"
    BY DEF drain_result, queue
<1> HIDE DEF how
<1>2. Down \in RestRows /\ a \in Turns
    BY <1>1, FreedIs
<1>3. inFlight' \subseteq inFlight /\ inFlight \ {agents[a].chan} \subseteq inFlight'
    BY <1>1
<1>4. QED
    BY <1>1, <1>2, <1>3, BatchGone

(* The batch of a turn is kept as cancelled.                               *)
LEMMA BatchStored ==
    ASSUME IInv, NEW a \in Turns, NEW r \in RestRows, agents' = [agents EXCEPT ![a] = r],
           TurnOver(a),
           queues' = queues, withheld' = withheld, cancelled' = Stored(a),
           arrived' = arrived, inFlight' = inFlight \ {agents[a].chan},
           steer' = steer, fate' = fate
    PROVE  IInv'
<1>p. PICK c : c = agents[a].chan
    OBVIOUS
<1>1. /\ agents' \in [Agents -> RestRows \cup BusyRows \cup DoneRows]
      /\ Ended(a, c) /\ Others(c)
    BY <1>p, TurnEnds
<1>2. Types /\ Local(c) /\ c \in Channels
    BY <1>1 DEF IInv, Ended
<1>a. Batch(a) \cap Stock(c) = {}
    BY <1>1 DEF Ended
<1> DEFINE m == agents[a].merged
           v == agents[a].events
           k == cancelled[c]
           n == (k \o m) \o v
<1>3. cancelled' = [cancelled EXCEPT ![c] = n]
    BY <1>p, <1>2 DEF Stored, Types
<1>4. /\ Line(On(c), m) /\ Line(On(c), v) /\ Line(On(c), k)
      /\ Elems(m) \cap Elems(v) = {} /\ Elems(k) \cap Elems(m) = {}
      /\ Elems(k) \cap Elems(v) = {} /\ Batch(a) = Elems(m) \cup Elems(v)
    BY <1>1, <1>2, <1>a DEF Ended, Local, Filed, Stock, Batch
<1>5. Line(On(c), n) /\ Elems(n) = Elems(k) \cup Batch(a)
  <2> HIDE DEF k, m, v
  <2>1. Apart(k, m) /\ Apart(k, v) /\ Apart(m, v)
    BY <1>4 DEF Apart
  <2>2. Line(On(c), n) /\ JoinsThree(n, k, m, v)
    BY <1>4, <2>1, ConcatThree
  <2> HIDE DEF n
  <2>3. QED
    BY <1>4, <2>2 DEF JoinsThree
<1> HIDE DEF n, m, v
<1>6. cancelled'[c] = n /\ \A d \in Channels \ {c} : cancelled'[d] = cancelled[d]
    BY <1>2, <1>3 DEF Types
<1>7. n \in Seq(Events)
  <2>1. On(c) \subseteq Events /\ n \in Seq(On(c))
    BY <1>5 DEF On, Line
  <2>2. QED
    BY <2>1
<1>8. Types'
    BY <1>1, <1>2, <1>3, <1>7 DEF Types
<1>9. ASSUME NEW d \in Channels \ {c}
      PROVE  Untouched(d)
  <2>1. SameTurns(d) /\ Held(d)
    BY <1>p, <1>1 DEF Others, Held
  <2>2. QED
    BY <1>6, <2>1 DEF Untouched
<1>10. Stock(c)' = Stock(c) \cup Batch(a)
    BY <1>5, <1>6 DEF Stock
<1>11. Filed(c)'
  <2>1. /\ Elems(queues[c]) \cap Batch(a) = {} /\ Elems(withheld[c]) \cap Batch(a) = {}
    BY <1>a DEF Stock
  <2>2. QED
    BY <1>2, <1>5, <1>6, <2>1 DEF Local, Filed
<1>12. \A e : e \in Here(c)' <=> e \in Here(c)
    BY <1>1, <1>10 DEF Here, Ended
<1>13. Fated(c)' /\ Hand(c)' \cap Stock(c)' = {}
  <2>1. Fated(c)'
    BY <1>2, <1>12 DEF Local, Fated
  <2>2. Hand(c)' \cap Stock(c)' = {}
    BY <1>1, <1>10 DEF Ended
  <2>3. QED
    BY <2>1, <2>2
<1>14. Local(c)'
    BY <1>1, <1>2, <1>11, <1>13, EndedLocal
<1>15. QED
    BY <1>8, <1>9, <1>14, OneChannel

LEMMA BatchKeptStep ==
    ASSUME IInv, NEW a \in Agents, batch_cancelled(a) \/ drain_batch(a)
    PROVE  IInv'
<1>1. /\ queues' = queues /\ withheld' = withheld /\ cancelled' = Stored(a)
      /\ arrived' = arrived /\ steer' = steer /\ fate' = fate /\ a \in Done
      /\ inFlight' = inFlight \ {agents[a].chan} /\ TurnOver(a)
    BY DEF batch_cancelled, drain_batch, result, requeue_as_cancelled, MarkComplete
<1>2. \/ agents' = [agents EXCEPT ![a] = [st |-> agents[a].next]]
      \/ agents' = [agents EXCEPT ![a] = Down]
    BY DEF batch_cancelled, drain_batch, result, Freed
<1>3. PICK r \in RestRows : agents' = [agents EXCEPT ![a] = r]
    BY <1>1, <1>2, FreedIs
<1>4. a \in Turns
    BY <1>1, FreedIs
<1>5. QED
    BY <1>1, <1>3, <1>4, BatchStored

(* The events of a turn go back to the front of the queue.                 *)
LEMMA BatchRequeuedStep ==
    ASSUME IInv, NEW a \in Agents, batch_requeued(a)
    PROVE  IInv'
<1>p. PICK c : c = agents[a].chan
    OBVIOUS
<1> DEFINE m == agents[a].merged
           v == agents[a].events
           q == v \o queues[c]
<1>1. /\ withheld' = withheld /\ cancelled' = cancelled
      /\ arrived' = arrived /\ steer' = steer /\ a \in Done
      /\ inFlight' = inFlight \ {c} /\ TurnOver(a)
      /\ queues' = [queues EXCEPT ![c] = Kept(q)]
      /\ fate' = [e \in Events |-> IF e \in Elems(m) THEN "forgotten"
                                   ELSE Gone(Lost(q), "dropped")[e]]
    BY <1>p DEF batch_requeued, result, MarkComplete
<1>2. /\ DOMAIN fate' = Events
      /\ \A e \in Events : /\ e \in Elems(m) \cup Lost(q) => fate'[e] # "none"
                           /\ e \notin Elems(m) \cup Lost(q) => fate'[e] = fate[e]
    BY <1>1 DEF Gone
<1>3. /\ agents' \in [Agents -> RestRows \cup BusyRows \cup DoneRows]
      /\ Ended(a, c) /\ Others(c)
  <2>1. PICK r : r = [st |-> agents[a].next]
    OBVIOUS
  <2>2. r \in RestRows /\ a \in Turns /\ agents' = [agents EXCEPT ![a] = r]
    BY <1>1, <2>1, FreedIs DEF batch_requeued, result, Freed
  <2>3. QED
    BY <1>p, <1>1, <2>2, TurnEnds
<1>4. Types /\ Local(c) /\ c \in Channels
    BY <1>3 DEF IInv, Ended
<1>5. /\ Line(On(c), m) /\ Line(On(c), v) /\ Line(On(c), queues[c])
      /\ Elems(m) \cap Elems(v) = {} /\ Batch(a) = Elems(m) \cup Elems(v)
      /\ Batch(a) \cap Stock(c) = {}
    BY <1>3, <1>4 DEF Ended, Local, Filed, Batch
<1>6. Line(On(c), q) /\ Joins(q, v, queues[c])
  <2>1. Apart(v, queues[c])
    BY <1>5 DEF Apart, Stock
  <2> HIDE DEF v
  <2>2. QED
    BY <1>5, <2>1, ConcatApart
<1> HIDE DEF q, m, v
<1>7. Line(On(c), Kept(q)) /\ Elems(Kept(q)) \subseteq Elems(q)
    BY <1>6, KeptLine
<1>8. /\ queues'[c] = Kept(q) /\ \A d \in Channels \ {c} : queues'[d] = queues[d]
    BY <1>1, <1>4 DEF Types
<1>9. Kept(q) \in Seq(Events)
  <2>1. On(c) \subseteq Events /\ Kept(q) \in Seq(On(c))
    BY <1>7 DEF On, Line
  <2>2. QED
    BY <2>1
<1>10. Types'
    BY <1>1, <1>2, <1>3, <1>4, <1>9 DEF Types
<1>11. /\ Elems(q) = Elems(v) \cup Elems(queues[c])
       /\ Lost(q) = Elems(q) \ Elems(Kept(q))
    BY <1>6 DEF Joins, Lost
<1>12. Elems(m) \cup Lost(q) \subseteq On(c) /\ Elems(m) \cup Lost(q) \subseteq Elems(arrived)
  <2>1. Elems(queues[c]) \subseteq On(c)
    BY <1>5, LineIs DEF Line
  <2>2. Elems(queues[c]) \subseteq Elems(arrived)
    BY <1>4, <2>1 DEF Local, Fated, Here, Stock
  <2>3. QED
    BY <1>3, <1>5, <1>11, <2>1, <2>2 DEF Ended
<1>13. \A d : On(d) \subseteq Events
    BY DEF On
<1>14. ASSUME NEW d \in Channels \ {c}
       PROVE  Untouched(d)
  <2>1. \A e \in On(d) : fate'[e] = fate[e]
    BY <1>2, <1>12 DEF On
  <2>2. SameTurns(d) /\ Held(d)
    BY <1>1, <1>3 DEF Others, Held
  <2>3. QED
    BY <1>1, <1>8, <2>1, <2>2 DEF Untouched
<1>15. Filed(c)'
  <2>1. /\ Elems(v) \cap Elems(withheld[c]) = {} /\ Elems(v) \cap Elems(cancelled[c]) = {}
    BY <1>5 DEF Stock
  <2>2. QED
    BY <1>1, <1>4, <1>7, <1>8, <1>11, <2>1 DEF Local, Filed
<1>16. Fated(c)'
  <2> DEFINE N == {}
             D == Elems(m) \cup Lost(q)
  <2>a. Stock(c)' = Elems(Kept(q)) \cup Elems(withheld[c]) \cup Elems(cancelled[c])
    BY <1>1, <1>8 DEF Stock
  <2>b. /\ Elems(m) \cup Elems(v) \subseteq Hand(c) /\ Hand(c) \cap Stock(c) = {}
        /\ \A e : e \in Hand(c)' <=> e \in Hand(c) /\ e \notin Elems(m) \cup Elems(v)
    BY <1>3, <1>5 DEF Ended
  <2>c. /\ Elems(queues[c]) \cap Elems(withheld[c]) = {}
        /\ Elems(queues[c]) \cap Elems(cancelled[c]) = {}
    BY <1>4 DEF Local, Filed
  <2>1. \A e \in On(c) : e \in Here(c)' <=> (e \in Here(c) \/ e \in N) /\ e \notin D
    BY <1>5, <1>7, <1>11, <2>a, <2>b, <2>c DEF Here, Stock
  <2>2. \A e \in On(c) : e \in D => e \in Elems(arrived) \/ e \in N
    BY <1>12
  <2>3. \A e \in On(c) : /\ e \in D => fate'[e] # "none"
                         /\ e \notin D => fate'[e] = fate[e]
    BY <1>2, <1>13
  <2>4. \A e \in On(c) : e \in Elems(arrived') <=> e \in Elems(arrived) \/ e \in N
    BY <1>1
  <2>5. N \cap Elems(arrived) = {} /\ Fated(c)
    BY <1>4 DEF Local
  <2> HIDE DEF N, D
  <2>6. QED
    BY <2>1, <2>2, <2>3, <2>4, <2>5, FatedMoved
<1>17. Hand(c)' \cap Stock(c)' = {}
  <2>1. Stock(c)' \subseteq Stock(c) \cup Batch(a)
    BY <1>1, <1>5, <1>7, <1>8, <1>11 DEF Stock
  <2>2. QED
    BY <1>3, <2>1 DEF Ended
<1>18. Local(c)'
    BY <1>3, <1>4, <1>15, <1>16, <1>17, EndedLocal
<1>19. QED
    BY <1>10, <1>14, <1>18, OneChannel

-----------------------------------------------------------------------------
(* Steps on what a channel has in store: the events N arrive, the events D *)
(* are disposed of, and its turns go on.                                   *)

Elsewhere(c) ==
    /\ \A d : SameTurns(d)
    /\ \A d \in Channels \ {c} : /\ queues'[d] = queues[d] /\ withheld'[d] = withheld[d]
                                 /\ cancelled'[d] = cancelled[d]
    /\ inFlight' = inFlight /\ outlived' = outlived

Moves(c, N, D) ==
    /\ N \subseteq On(c) /\ N \cap Elems(arrived) = {}
    /\ D \subseteq On(c) /\ D \subseteq Stock(c) \cup N
    /\ \A e \in Events : e \in Elems(arrived') <=> e \in Elems(arrived) \/ e \in N
    /\ \A e \in Events : /\ e \in D => fate'[e] # "none"
                         /\ e \notin D => fate'[e] = fate[e]
    /\ \A e \in On(c) : e \in Stock(c)' <=> (e \in Stock(c) \/ e \in N) /\ e \notin D

MovesHere(c, N, D) ==
    /\ N \subseteq On(c) /\ N \cap Elems(arrived) = {}
    /\ D \subseteq On(c) /\ D \subseteq Stock(c) \cup N
    /\ \A e \in On(c) : e \in Elems(arrived') <=> e \in Elems(arrived) \/ e \in N
    /\ \A e \in On(c) : /\ e \in D => fate'[e] # "none"
                        /\ e \notin D => fate'[e] = fate[e]
    /\ \A e \in On(c) : e \in Stock(c)' <=> (e \in Stock(c) \/ e \in N) /\ e \notin D

LEMMA StockLocal ==
    ASSUME NEW c, Local(c), SameTurns(c), Held(c),
           NEW N, NEW D, MovesHere(c, N, D), Filed(c)'
    PROVE  Local(c)'
<1> USE DEF MovesHere
<1>1. \A a \in TurnsOf(c) : Batch(a)' = Batch(a) /\ Batch(a) \subseteq Hand(c)
    BY DEF SameTurns, Batch, Hand
<1>2. Hand(c)' = Hand(c)
    BY <1>1 DEF Hand, SameTurns
<1>3. /\ Stock(c)' \subseteq On(c) /\ Stock(c) \subseteq On(c)
  <2>1. Stock(c) \subseteq On(c)
    BY LineIs DEF Stock, Local, Filed, Line
  <2>2. Stock(c)' \subseteq On(c)
    BY LineIs DEF Stock, Filed, Line
  <2>3. QED
    BY <2>1, <2>2
<1>4. Stock(c) \cap Hand(c) = {}
    BY DEF Local, InHand, Hand
<1>5. \A e \in On(c) : e \in Here(c) => e \in Elems(arrived)
    BY DEF Local, Fated
<1>6. Hand(c) \cap Stock(c)' = {}
  <2> SUFFICES ASSUME NEW e \in Hand(c), e \in Stock(c)'
               PROVE  FALSE
    OBVIOUS
  <2>1. e \in On(c) /\ (e \in Stock(c) \/ e \in N)
    BY <1>3
  <2>2. QED
    BY <1>3, <1>4, <1>5, <2>1 DEF Here
<1>7. InHand(c)'
    BY <1>1, <1>6 DEF Local, InHand, SameTurns
<1>8. Holds(c)'
    BY DEF Local, Holds, Held, SameTurns
<1>9. Fated(c)'
  <2>1. \A e \in On(c) : e \in Here(c)' <=> (e \in Here(c) \/ e \in N) /\ e \notin D
    <3>1. \A e \in Hand(c) : e \in On(c) => e \in Elems(arrived) /\ e \notin Stock(c)
        BY <1>4, <1>5 DEF Here
    <3>2. \A e \in On(c) : e \in Hand(c) => e \notin D
        BY <3>1
    <3>3. QED
        BY <1>2, <3>2 DEF Here
  <2>2. \A e \in On(c) : e \in D => e \in Elems(arrived) \/ e \in N
    BY <1>5 DEF Here
  <2>3. \A e \in On(c) : /\ e \in D => fate'[e] # "none"
                         /\ e \notin D => fate'[e] = fate[e]
    OBVIOUS
  <2>4. \A e \in On(c) : e \in Elems(arrived') <=> e \in Elems(arrived) \/ e \in N
    OBVIOUS
  <2>5. Fated(c)
    BY DEF Local
  <2>6. QED
    BY <2>1, <2>2, <2>3, <2>4, <2>5, FatedMoved
<1>10. QED
    BY <1>7, <1>8, <1>9 DEF Local

LEMMA StockStep ==
    ASSUME IInv, Types', NEW c \in Channels, Elsewhere(c), NEW N, NEW D, Moves(c, N, D),
           Filed(c)'
    PROVE  IInv'
<1>1. Local(c) /\ \A d : On(d) \subseteq Events
    BY DEF IInv, On
<1>2. ASSUME NEW d \in Channels \ {c}
      PROVE  Untouched(d)
  <2>1. \A e \in On(d) : e \in Events /\ e \notin On(c)
    BY DEF On
  <2>2. Held(d)
    BY DEF Held, Elsewhere
  <2>3. QED
    BY <2>1, <2>2 DEF Untouched, Elsewhere, Moves
<1>3. MovesHere(c, N, D)
    BY <1>1 DEF Moves, MovesHere
<1>4. SameTurns(c) /\ Held(c)
    BY DEF Elsewhere, Held
<1>5. Local(c)'
    BY <1>1, <1>3, <1>4, StockLocal
<1>6. QED
    BY <1>2, <1>5, OneChannel

LEMMA RemovedStep ==
    ASSUME IInv, NEW c \in Channels, member_removed(c)
    PROVE  IInv'
<1>1. /\ arrived' = arrived /\ inFlight' = inFlight /\ outlived' = outlived
      /\ agents' = agents /\ steer' = steer
      /\ queues' = [queues EXCEPT ![c] = << >>]
      /\ cancelled' = [cancelled EXCEPT ![c] = << >>]
      /\ withheld' = [withheld EXCEPT ![c] = << >>]
    BY DEF member_removed
<1>2. Types /\ Local(c)
    BY DEF IInv
<1> DEFINE D == Stock(c)
           N == {}
           how == "dropped"
<1>3. fate' = Gone(D, how)
  <2>1. D = Elems(queues[c]) \cup Elems(cancelled[c]) \cup Elems(withheld[c])
    BY DEF Stock
  <2>2. QED
    BY <2>1 DEF member_removed
<1>4. D \subseteq On(c)
    BY <1>2, LineIs DEF Stock, Local, Filed, Line
<1>5. D \subseteq Stock(c) \cup N /\ how # "none"
    OBVIOUS
<1>6. /\ queues'[c] = << >> /\ cancelled'[c] = << >> /\ withheld'[c] = << >>
      /\ \A d \in Channels \ {c} : /\ queues'[d] = queues[d] /\ withheld'[d] = withheld[d]
                                   /\ cancelled'[d] = cancelled[d]
    BY <1>1, <1>2 DEF Types
<1>7. Stock(c)' = {}
    BY <1>6, EmptyLine DEF Stock
<1>8. \A e \in On(c) : e \in Stock(c)' <=> (e \in Stock(c) \/ e \in N) /\ e \notin D
    BY <1>7
<1>9. Filed(c)'
    BY <1>6, EmptyLine DEF Filed
<1> HIDE DEF D, N, how
<1>10. /\ DOMAIN fate' = Events
       /\ \A e \in Events : /\ e \in D => fate'[e] # "none"
                            /\ e \notin D => fate'[e] = fate[e]
    BY <1>3, <1>5, GoneIs
<1>11. Types'
  <2>1. << >> \in Seq(Events)
    BY EmptySeq
  <2>2. QED
    BY <1>1, <1>2, <1>10, <2>1 DEF Types
<1>12. \A d : SameTurns(d)
    BY <1>1, SameRows
<1>13. /\ \A e \in Events : e \in Elems(arrived') <=> e \in Elems(arrived) \/ e \in N
       /\ N \subseteq On(c) /\ N \cap Elems(arrived) = {}
    BY <1>1 DEF N
<1>14. Moves(c, N, D)
    BY <1>4, <1>5, <1>8, <1>10, <1>13 DEF Moves
<1>15. Elsewhere(c)
    BY <1>1, <1>6, <1>12 DEF Elsewhere
<1>16. QED
    BY <1>9, <1>11, <1>14, <1>15, StockStep

(* What push does to the queue of a channel.                               *)
Pushes(e, c) ==
    /\ c \in Channels /\ e \in On(c) /\ e \notin Elems(arrived)
    /\ Line(On(c), Pushed(e)) /\ PushLost(e) \subseteq Elems(queues[c])
    /\ Elems(Pushed(e)) = (Elems(queues[c]) \ PushLost(e)) \cup {e}
    /\ e \notin Elems(queues[c]) /\ e \notin Elems(withheld[c]) /\ e \notin Elems(cancelled[c])
    /\ arrived' \in Seq(Events)
    /\ \A x \in Events : x \in Elems(arrived') <=> x \in Elems(arrived) \/ x \in {e}
    /\ DOMAIN fate' = Events
    /\ \A x \in Events : /\ x \in PushLost(e) => fate'[x] # "none"
                         /\ x \notin PushLost(e) => fate'[x] = fate[x]
    /\ inFlight' = inFlight /\ outlived' = outlived /\ cancelled' = cancelled

LEMMA PushIs ==
    ASSUME IInv, NEW e \in Events, push(e), NEW c, c = ChannelOf[e]
    PROVE  Pushes(e, c)
<1>1. Types /\ c \in Channels /\ e \in On(c) /\ Local(c)
    BY QueueAssumption DEF IInv, On
<1>2. /\ e \notin Elems(arrived) /\ arrived' = Append(arrived, e)
      /\ fate' = Gone(PushLost(e), "dropped")
      /\ inFlight' = inFlight /\ outlived' = outlived /\ cancelled' = cancelled
    BY DEF push
<1>3. /\ arrived' \in Seq(Events)
      /\ \A x \in Events : x \in Elems(arrived') <=> x \in Elems(arrived) \/ x \in {e}
    BY <1>1, <1>2, AppendElems DEF Types, Adds
<1>4. /\ DOMAIN fate' = Events
      /\ \A x \in Events : /\ x \in PushLost(e) => fate'[x] # "none"
                           /\ x \notin PushLost(e) => fate'[x] = fate[x]
    BY <1>2 DEF Gone
<1>5. e \notin Elems(queues[c]) /\ e \notin Elems(withheld[c]) /\ e \notin Elems(cancelled[c])
    BY <1>1, <1>2 DEF Local, Fated, Here, Stock
<1> DEFINE q == queues[c]
           p == IF Len(q) >= MaxPending THEN Tail(q) ELSE q
<1>6. Line(On(c), q) /\ q \in Seq(On(c)) /\ Len(q) \in Nat
    BY <1>1 DEF Local, Filed, Line
<1>7. Pushed(e) = Append(p, e)
    BY DEF Pushed
<1>8. Line(On(c), p) /\ PushLost(e) \subseteq Elems(q) /\ Elems(p) = Elems(q) \ PushLost(e)
  <2>1. CASE Len(q) >= MaxPending
    <3>1. q # << >> /\ p = Tail(q) /\ PushLost(e) = {Head(q)}
        BY <1>6, <2>1, QueueAssumption DEF PushLost
    <3> HIDE DEF p, q
    <3>2. Line(On(c), Tail(q)) /\ Head(q) \in Elems(q) /\ Drops(Tail(q), q, Head(q))
        BY <1>6, <3>1, AddsAndDrops
    <3>3. QED
        BY <3>1, <3>2 DEF Drops
  <2>2. CASE ~(Len(q) >= MaxPending)
    <3>1. p = q /\ PushLost(e) = {}
        BY <2>2 DEF PushLost
    <3> HIDE DEF p, q
    <3>2. QED
        BY <1>6, <3>1
  <2>3. QED
    BY <2>1, <2>2
<1> HIDE DEF p
<1>9. e \notin Elems(p)
    BY <1>5, <1>8
<1>10. Line(On(c), Pushed(e)) /\ Adds(Pushed(e), p, e)
    BY <1>1, <1>7, <1>8, <1>9, AddsAndDrops
<1>11. Elems(Pushed(e)) = (Elems(queues[c]) \ PushLost(e)) \cup {e}
    BY <1>8, <1>10 DEF Adds
<1>12. QED
    BY <1>1, <1>2, <1>3, <1>4, <1>5, <1>8, <1>10, <1>11 DEF Pushes

LEMMA LineOfEvents ==
    ASSUME NEW c, NEW s, Line(On(c), s)
    PROVE  s \in Seq(Events) /\ Elems(s) \subseteq On(c)
<1>1. On(c) \subseteq Events /\ s \in Seq(On(c))
    BY DEF On, Line
<1>2. QED
    BY <1>1, LineIs

LEMMA ReceiveStep ==
    ASSUME IInv, NEW e \in Events, receive(e) \/ receive_and_signal(e)
    PROVE  IInv'
<1>p. PICK c : c = ChannelOf[e]
    OBVIOUS
<1>1. /\ push(e) /\ queues' = [queues EXCEPT ![c] = Pushed(e)]
      /\ withheld' = withheld /\ steer' = steer
    BY <1>p DEF receive, receive_and_signal
<1>2. Pushes(e, c)
    BY <1>p, <1>1, PushIs
<1>3. Types /\ Local(c) /\ c \in Channels
    BY <1>2 DEF IInv, Pushes
<1>4. /\ agents' \in [Agents -> RestRows \cup BusyRows \cup DoneRows]
      /\ \A d : SameTurns(d)
  <2>1. CASE receive(e)
    <3>1. agents' = agents
        BY <2>1 DEF receive
    <3>2. QED
        BY <1>3, <3>1, SameRows DEF Types
  <2>2. CASE receive_and_signal(e)
    <3>1. Handling \in Signals /\ agents' \in Signalled(c, Handling)
        BY <1>p, <2>2 DEF Signals, receive_and_signal
    <3>2. QED
        BY <1>3, <3>1, SignalIsSame
  <2>3. QED
    BY <2>1, <2>2
<1>5. /\ queues'[c] = Pushed(e) /\ \A d \in Channels \ {c} : queues'[d] = queues[d]
    BY <1>1, <1>3 DEF Types
<1>6. Pushed(e) \in Seq(Events)
    BY <1>2, LineOfEvents DEF Pushes
<1>7. Types'
    BY <1>1, <1>2, <1>3, <1>4, <1>6 DEF Types, Pushes
<1>8. Elsewhere(c)
    BY <1>1, <1>2, <1>4, <1>5 DEF Elsewhere, Pushes
<1> DEFINE N == {e}
           D == PushLost(e)
<1>9. Stock(c)' = Elems(Pushed(e)) \cup Elems(withheld[c]) \cup Elems(cancelled[c])
    BY <1>1, <1>2, <1>5 DEF Stock, Pushes
<1>10. /\ Elems(queues[c]) \subseteq On(c)
       /\ Elems(queues[c]) \cap Elems(withheld[c]) = {}
       /\ Elems(queues[c]) \cap Elems(cancelled[c]) = {}
    BY <1>3, LineOfEvents DEF Local, Filed
<1>11. Moves(c, N, D)
    BY <1>2, <1>9, <1>10 DEF Moves, Pushes, Stock
<1>12. Filed(c)'
    BY <1>1, <1>2, <1>3, <1>5, <1>10 DEF Local, Filed, Pushes
<1> HIDE DEF N, D
<1>13. QED
    BY <1>3, <1>7, <1>8, <1>11, <1>12, StockStep

LEMMA NativeSteerStep ==
    ASSUME IInv, NEW e \in Events, try_native_steer(e)
    PROVE  IInv'
<1>p. PICK c : c = ChannelOf[e]
    OBVIOUS
<1>1. /\ push(e) /\ queues' = [queues EXCEPT ![c] = Withhold(e)]
      /\ steer' = steer
    BY <1>p DEF try_native_steer
<1>2. Pushes(e, c)
    BY <1>p, <1>1, PushIs
<1>3. Types /\ Local(c) /\ c \in Channels
    BY <1>2 DEF IInv, Pushes
<1> DEFINE u == Withhold(e)
           v == Append(withheld[c], e)
<1>4. withheld' = [withheld EXCEPT ![c] = v]
    BY <1>p, <1>3 DEF try_native_steer, Types
<1>5. Line(On(c), u) /\ Elems(u) = Elems(queues[c]) \ PushLost(e)
  <2>1. Line(On(c), Without(Pushed(e), e)) /\ Drops(Without(Pushed(e), e), Pushed(e), e)
    BY <1>2, AddsAndDrops DEF Pushes
  <2>2. QED
    BY <1>2, <2>1 DEF Drops, Withhold, Pushes
<1>6. Line(On(c), v) /\ Elems(v) = Elems(withheld[c]) \cup {e}
  <2>1. Line(On(c), withheld[c]) /\ e \in On(c) /\ e \notin Elems(withheld[c])
    BY <1>2, <1>3 DEF Local, Filed, Pushes
  <2>2. Adds(v, withheld[c], e) /\ Line(On(c), v)
    BY <2>1, AddsAndDrops
  <2>3. QED
    BY <2>2 DEF Adds
<1> HIDE DEF u, v
<1>7. /\ queues'[c] = u /\ withheld'[c] = v
      /\ \A d \in Channels \ {c} : queues'[d] = queues[d] /\ withheld'[d] = withheld[d]
    BY <1>1, <1>3, <1>4 DEF Types, u
<1>8. u \in Seq(Events) /\ v \in Seq(Events)
    BY <1>5, <1>6, LineOfEvents
<1>9. /\ agents' \in [Agents -> RestRows \cup BusyRows \cup DoneRows]
      /\ \A d : SameTurns(d)
  <2>1. PICK a \in Agents : /\ CanSteer(a, c)
                            /\ agents' = [agents EXCEPT ![a].steers = @ \cup {e}]
    BY <1>p DEF try_native_steer
  <2>2. a \in Busy \cup Hung
    BY <2>1 DEF CanSteer, Tasks, Turns
  <2>3. PICK E : E = agents[a].steers \cup {e}
    OBVIOUS
  <2>4. agents' = [agents EXCEPT ![a].steers = E]
    BY <1>3, <2>1, <2>3 DEF Types
  <2>5. E \in SUBSET Events
    <3>1. agents[a].steers \in SUBSET Events
        BY <1>3, <2>2, SteersOf
    <3>2. QED
        BY <2>3, <3>1
  <2>6. QED
    BY <1>3, <2>2, <2>4, <2>5, SteersAreSame
<1>10. Types'
    BY <1>1, <1>2, <1>3, <1>4, <1>8, <1>9 DEF Types, Pushes, u
<1>11. Elsewhere(c)
    BY <1>2, <1>7, <1>9 DEF Elsewhere, Pushes
<1> DEFINE N == {e}
           D == PushLost(e)
<1>12. Stock(c)' = Elems(u) \cup Elems(v) \cup Elems(cancelled[c])
    BY <1>2, <1>7 DEF Stock, Pushes
<1>13. /\ Elems(queues[c]) \subseteq On(c)
       /\ Elems(queues[c]) \cap Elems(withheld[c]) = {}
       /\ Elems(queues[c]) \cap Elems(cancelled[c]) = {}
    BY <1>3, LineOfEvents DEF Local, Filed
<1>14. Moves(c, N, D)
    BY <1>2, <1>5, <1>6, <1>12, <1>13 DEF Moves, Pushes, Stock
<1>15. Filed(c)'
    BY <1>2, <1>3, <1>5, <1>6, <1>7, <1>13 DEF Local, Filed, Pushes
<1> HIDE DEF N, D
<1>16. QED
    BY <1>3, <1>10, <1>11, <1>14, <1>15, StockStep

LEMMA SteeredStep ==
    ASSUME IInv, NEW e \in Events, steer_succeeded(e)
    PROVE  IInv'
<1>p. PICK c : c = ChannelOf[e]
    OBVIOUS
<1>1. Types /\ c \in Channels /\ e \in On(c) /\ Local(c)
    BY <1>p, QueueAssumption DEF IInv, On
<1> DEFINE u == Without(queues[c], e)
           v == Without(withheld[c], e)
<1>2. /\ arrived' = arrived /\ inFlight' = inFlight /\ cancelled' = cancelled
      /\ agents' = agents /\ outlived' = outlived /\ steer' = [steer EXCEPT ![e] = "no"]
      /\ fate' = IF e \in Elems(withheld[c]) \cup Elems(queues[c])
                 THEN Gone({e}, "steered") ELSE fate
    BY <1>p DEF steer_succeeded
<1>3. queues' = [queues EXCEPT ![c] = u] /\ withheld' = [withheld EXCEPT ![c] = v]
    BY <1>p, <1>1 DEF steer_succeeded, Types
<1>4. Line(On(c), queues[c]) /\ Line(On(c), withheld[c])
    BY <1>1 DEF Local, Filed
<1>5. Line(On(c), u) /\ Drops(u, queues[c], e) /\ Line(On(c), v) /\ Drops(v, withheld[c], e)
    BY <1>4, AddsAndDrops
<1> HIDE DEF u, v
<1>6. Elems(u) = Elems(queues[c]) \ {e} /\ Elems(v) = Elems(withheld[c]) \ {e}
    BY <1>5 DEF Drops
<1>7. /\ queues'[c] = u /\ withheld'[c] = v
      /\ \A d \in Channels \ {c} : queues'[d] = queues[d] /\ withheld'[d] = withheld[d]
    BY <1>1, <1>3 DEF Types
<1>8. u \in Seq(Events) /\ v \in Seq(Events)
    BY <1>5, LineOfEvents
<1>9. PICK D : D = {e} \cap (Elems(withheld[c]) \cup Elems(queues[c]))
    OBVIOUS
<1>10. /\ DOMAIN fate' = Events
       /\ \A x \in Events : /\ x \in D => fate'[x] # "none"
                            /\ x \notin D => fate'[x] = fate[x]
    BY <1>1, <1>2, <1>9 DEF Gone, Types
<1>11. Types'
    BY <1>1, <1>2, <1>3, <1>8, <1>10 DEF Types
<1>12. Elsewhere(c)
  <2>1. \A d : SameTurns(d)
    BY <1>2, SameRows
  <2>2. QED
    BY <1>2, <1>7, <2>1 DEF Elsewhere
<1> DEFINE N == {}
<1>13. Stock(c)' = Elems(u) \cup Elems(v) \cup Elems(cancelled[c])
    BY <1>2, <1>7 DEF Stock
<1>14. /\ Elems(queues[c]) \cap Elems(cancelled[c]) = {}
       /\ Elems(withheld[c]) \cap Elems(cancelled[c]) = {}
    BY <1>1 DEF Local, Filed
<1>15. D \subseteq On(c) /\ D \subseteq Stock(c)
    BY <1>1, <1>9 DEF Stock
<1>16. \A x \in On(c) : x \in Stock(c)' <=> x \in Stock(c) /\ x \notin D
    BY <1>6, <1>9, <1>13, <1>14 DEF Stock
<1>17. Moves(c, N, D)
    BY <1>2, <1>10, <1>15, <1>16 DEF Moves
<1>18. Filed(c)'
    BY <1>1, <1>2, <1>5, <1>6, <1>7 DEF Local, Filed
<1> HIDE DEF N
<1>19. QED
    BY <1>1, <1>11, <1>12, <1>17, <1>18, StockStep

LEMMA SteerFailedStep ==
    ASSUME IInv, NEW e \in Events, steer_failed(e)
    PROVE  IInv'
<1>p. PICK c : c = ChannelOf[e]
    OBVIOUS
<1>1. Types /\ c \in Channels /\ e \in On(c) /\ Local(c)
    BY <1>p, QueueAssumption DEF IInv, On
<1> DEFINE r == Released(e)
           v == Without(withheld[c], e)
<1>2. /\ arrived' = arrived /\ inFlight' = inFlight /\ cancelled' = cancelled
      /\ outlived' = outlived /\ steer' = [steer EXCEPT ![e] = "no"]
      /\ fate' = Gone(Lost(r), "dropped") /\ queues' = [queues EXCEPT ![c] = Kept(r)]
    BY <1>p DEF steer_failed
<1>3. withheld' = [withheld EXCEPT ![c] = v]
    BY <1>p, <1>1 DEF steer_failed, Types
<1>4. /\ Line(On(c), queues[c]) /\ Line(On(c), withheld[c])
      /\ Elems(queues[c]) \cap Elems(withheld[c]) = {}
      /\ Elems(queues[c]) \cap Elems(cancelled[c]) = {}
      /\ Elems(withheld[c]) \cap Elems(cancelled[c]) = {}
    BY <1>1 DEF Local, Filed
<1>5. Line(On(c), v) /\ Elems(v) = Elems(withheld[c]) \ {e}
  <2>1. Line(On(c), v) /\ Drops(v, withheld[c], e)
    BY <1>4, AddsAndDrops
  <2>2. QED
    BY <2>1 DEF Drops
<1>6. /\ Line(On(c), r)
      /\ e \in Elems(withheld[c]) => Elems(r) = Elems(queues[c]) \cup {e}
      /\ e \notin Elems(withheld[c]) => Elems(r) = Elems(queues[c])
  <2>1. CASE e \in Elems(withheld[c])
    <3>1. PICK s : s = <<e>>
        OBVIOUS
    <3>2. Line(On(c), s) /\ Elems(s) = {e}
        BY <1>1, <3>1, OneLine
    <3>3. Apart(s, queues[c])
        BY <1>4, <2>1, <3>2 DEF Apart
    <3>4. Line(On(c), s \o queues[c]) /\ Joins(s \o queues[c], s, queues[c])
        BY <1>4, <3>2, <3>3, ConcatApart
    <3>5. r = s \o queues[c]
        BY <1>p, <2>1, <3>1 DEF Released
    <3> HIDE DEF r
    <3>6. Elems(r) = Elems(s) \cup Elems(queues[c])
        BY <3>4, <3>5 DEF Joins
    <3>7. QED
        BY <2>1, <3>2, <3>4, <3>5, <3>6
  <2>2. CASE e \notin Elems(withheld[c])
    BY <1>p, <1>4, <2>2 DEF Released
  <2>3. QED
    BY <2>1, <2>2
<1> HIDE DEF r, v
<1>7. Line(On(c), Kept(r)) /\ Elems(Kept(r)) \subseteq Elems(r)
    BY <1>6, KeptLine
<1> DEFINE N == {}
           D == Lost(r)
<1>8. D = Elems(r) \ Elems(Kept(r))
    BY DEF Lost
<1> HIDE DEF D
<1>9. /\ DOMAIN fate' = Events
      /\ \A x \in Events : /\ x \in D => fate'[x] # "none"
                           /\ x \notin D => fate'[x] = fate[x]
    BY <1>2 DEF Gone, D
<1>10. /\ queues'[c] = Kept(r) /\ withheld'[c] = v
       /\ \A d \in Channels \ {c} : queues'[d] = queues[d] /\ withheld'[d] = withheld[d]
    BY <1>1, <1>2, <1>3 DEF Types
<1>11. Kept(r) \in Seq(Events) /\ v \in Seq(Events)
    BY <1>5, <1>7, LineOfEvents
<1>12. /\ agents' \in [Agents -> RestRows \cup BusyRows \cup DoneRows]
       /\ \A d : SameTurns(d)
  <2>1. CASE steer[e] = "unsupported"
    <3> DEFINE sig == "Steer"
    <3>1. sig \in Signals /\ agents' \in Signalled(c, sig)
        BY <1>p, <2>1 DEF Signals, steer_failed
    <3> HIDE DEF sig
    <3>2. QED
        BY <1>1, <3>1, SignalIsSame
  <2>2. CASE steer[e] # "unsupported"
    <3>1. agents' = agents
        BY <2>2 DEF steer_failed
    <3>2. QED
        BY <1>1, <3>1, SameRows DEF Types
  <2>3. QED
    BY <2>1, <2>2
<1>13. Types'
    BY <1>1, <1>2, <1>3, <1>9, <1>11, <1>12 DEF Types
<1>14. Elsewhere(c)
    BY <1>2, <1>10, <1>12 DEF Elsewhere
<1>15. Stock(c)' = Elems(Kept(r)) \cup Elems(v) \cup Elems(cancelled[c])
    BY <1>2, <1>10 DEF Stock
<1>16. /\ Elems(r) \cap Elems(v) = {} /\ Elems(r) \cap Elems(cancelled[c]) = {}
       /\ Elems(v) \cap Elems(cancelled[c]) = {}
       /\ Stock(c) = Elems(r) \cup Elems(v) \cup Elems(cancelled[c])
    BY <1>4, <1>5, <1>6 DEF Stock
<1>17. D \subseteq On(c) /\ D \subseteq Stock(c)
  <2>1. Elems(r) \subseteq On(c)
    BY <1>6, LineOfEvents
  <2>2. QED
    BY <1>8, <1>16, <2>1
<1>18. \A x \in On(c) : x \in Stock(c)' <=> x \in Stock(c) /\ x \notin D
    BY <1>7, <1>8, <1>15, <1>16
<1>19. Moves(c, N, D)
    BY <1>2, <1>9, <1>17, <1>18 DEF Moves
<1>20. Filed(c)'
    BY <1>1, <1>2, <1>5, <1>7, <1>10, <1>16 DEF Local, Filed
<1> HIDE DEF N
<1>21. QED
    BY <1>1, <1>13, <1>14, <1>19, <1>20, StockStep

-----------------------------------------------------------------------------
(* dispatch_pending.                                                       *)

(* What the release of the expired channels leaves on c.                   *)
Expires(c, L) ==
    /\ Line(On(c), Q(c)) /\ Line(On(c), W[c]) /\ Line(On(c), cancelled[c])
    /\ Elems(Q(c)) \cap Elems(W[c]) = {} /\ Elems(Q(c)) \cap Elems(cancelled[c]) = {}
    /\ Elems(W[c]) \cap Elems(cancelled[c]) = {}
    /\ L = Lost(Recovered(c))
    /\ L \cap Elems(Q(c)) = {} /\ L \cap Elems(W[c]) = {} /\ L \cap Elems(cancelled[c]) = {}
    /\ Stock(c) = Elems(Q(c)) \cup Elems(W[c]) \cup Elems(cancelled[c]) \cup L

(* A turn whose channel is released is marked.                             *)
LEMMA ReleaseIs ==
    ASSUME NEW c, ReleaseOverdue
    PROVE  /\ outlived \subseteq outlived'
           /\ TurnsOf(c) # {} /\ c \in inFlight /\ c \notin Blocked => c \in outlived'
           /\ Blocked \subseteq inFlight' => Held(c)
<1>1. outlived' = outlived \cup (overdue \cap Prompted(Turns))
    BY DEF ReleaseOverdue
<1>2. TurnsOf(c) # {} => c \in Prompted(Turns)
    BY DEF TurnsOf, Prompted
<1>3. c \in inFlight /\ c \notin Blocked => c \in overdue
    BY DEF Blocked
<1>4. TurnsOf(c) # {} /\ c \in inFlight /\ c \notin Blocked => c \in outlived'
    BY <1>1, <1>2, <1>3
<1>5. Blocked \subseteq inFlight' => Held(c)
    BY <1>1, <1>4 DEF Held
<1>6. QED
    BY <1>1, <1>4, <1>5

LEMMA ExpiryIs ==
    ASSUME IInv, NEW c \in Channels, NEW L, L = Lost(Recovered(c))
    PROVE  Expires(c, L) /\ L \subseteq On(c)
<1>1. Local(c) /\ Filed(c)
    BY DEF IInv, Local
<1>2. W[c] = IF c \in overdue THEN << >> ELSE withheld[c]
    BY DEF W
<1>3. PICK r : r = Recovered(c)
    OBVIOUS
<1>4. /\ Line(On(c), r) /\ Line(On(c), W[c])
      /\ Elems(r) \cap Elems(W[c]) = {}
      /\ Elems(r) \cup Elems(W[c]) = Elems(queues[c]) \cup Elems(withheld[c])
  <2>1. CASE c \in overdue
    <3>1. r = withheld[c] \o queues[c] /\ W[c] = << >>
        BY <1>2, <1>3, <2>1 DEF Recovered
    <3>2. Apart(withheld[c], queues[c])
        BY <1>1 DEF Filed, Apart
    <3>3. Line(On(c), r) /\ Joins(r, withheld[c], queues[c])
        BY <1>1, <3>1, <3>2, ConcatApart DEF Filed
    <3>4. Elems(W[c]) = {} /\ Line(On(c), W[c])
        BY <3>1, EmptyLine
    <3>5. Elems(r) = Elems(withheld[c]) \cup Elems(queues[c])
        BY <3>3 DEF Joins
    <3>6. QED
        BY <3>3, <3>4, <3>5
  <2>2. CASE c \notin overdue
    <3>1. r = queues[c] /\ W[c] = withheld[c]
        BY <1>2, <1>3, <2>2 DEF Recovered
    <3>2. QED
        BY <1>1, <3>1 DEF Filed
  <2>3. QED
    BY <2>1, <2>2
<1>5. Q(c) = Kept(r) /\ L = Elems(r) \ Elems(Q(c))
    BY <1>3 DEF Q, Lost
<1>6. Line(On(c), Q(c)) /\ Elems(Q(c)) \subseteq Elems(r)
    BY <1>4, <1>5, KeptLine
<1>7. /\ Elems(r) \cap Elems(cancelled[c]) = {} /\ Elems(W[c]) \cap Elems(cancelled[c]) = {}
      /\ Line(On(c), cancelled[c])
    BY <1>1, <1>4 DEF Filed
<1>8. Stock(c) = Elems(Q(c)) \cup Elems(W[c]) \cup Elems(cancelled[c]) \cup L
    BY <1>4, <1>5, <1>6 DEF Stock
<1>9. L \subseteq On(c)
    BY <1>4, <1>5, LineOfEvents
<1>10. /\ Elems(Q(c)) \cap Elems(W[c]) = {} /\ Elems(Q(c)) \cap Elems(cancelled[c]) = {}
       /\ L \cap Elems(Q(c)) = {} /\ L \cap Elems(W[c]) = {}
       /\ L \cap Elems(cancelled[c]) = {}
    BY <1>4, <1>5, <1>6, <1>7
<1>11. Expires(c, L)
    BY <1>4, <1>6, <1>7, <1>8, <1>10 DEF Expires
<1>12. QED
    BY <1>9, <1>11

LEMMA ExpiryLostIs ==
    ASSUME IInv
    PROVE  /\ \A c \in Channels : \A e \in On(c) : e \in ExpiryLost <=> e \in Lost(Recovered(c))
           /\ \A c \in Channels : Q(c) \in Seq(Events) /\ W[c] \in Seq(Events)
<1>1. \A c \in Channels : Expires(c, Lost(Recovered(c))) /\ Lost(Recovered(c)) \subseteq On(c)
    BY ExpiryIs
<1>2. ASSUME NEW c \in Channels, NEW e \in On(c)
      PROVE  e \in ExpiryLost <=> e \in Lost(Recovered(c))
  <2>1. \A d \in Channels : e \in Lost(Recovered(d)) => d = c
    BY <1>1 DEF On
  <2>2. QED
    BY <2>1 DEF ExpiryLost
<1>3. \A c \in Channels : Q(c) \in Seq(Events) /\ W[c] \in Seq(Events)
    BY <1>1, LineOfEvents DEF Expires
<1>4. QED
    BY <1>2, <1>3

(* A channel on which nothing else happens.                                *)
LEMMA ExpiredLocal ==
    ASSUME IInv, NEW c \in Channels, SameTurns(c), ReleaseOverdue, Blocked \subseteq inFlight',
           queues'[c] = Q(c), withheld'[c] = W[c], cancelled'[c] = cancelled[c],
           arrived' = arrived,
           \A e \in On(c) : /\ e \in ExpiryLost => fate'[e] # "none"
                            /\ e \notin ExpiryLost => fate'[e] = fate[e]
    PROVE  Local(c)'
<1>1. PICK L : L = Lost(Recovered(c))
    OBVIOUS
<1>2. Expires(c, L) /\ L \subseteq On(c) /\ Local(c)
    BY <1>1, ExpiryIs DEF IInv
<1>3. \A e \in On(c) : e \in ExpiryLost <=> e \in L
    BY <1>1, ExpiryLostIs
<1> DEFINE N == {}
<1>4. Stock(c)' = Elems(Q(c)) \cup Elems(W[c]) \cup Elems(cancelled[c])
    BY DEF Stock
<1>5. \A e \in On(c) : e \in Stock(c)' <=> (e \in Stock(c) \/ e \in N) /\ e \notin L
    BY <1>2, <1>4 DEF Expires
<1>6. MovesHere(c, N, L)
    BY <1>2, <1>3, <1>5 DEF MovesHere, Expires
<1> HIDE DEF N
<1>7. Filed(c)'
    BY <1>2 DEF Filed, Expires
<1>8. Held(c)
    BY ReleaseIs
<1>9. QED
    BY <1>2, <1>6, <1>7, <1>8, StockLocal

LEMMA NothingStep ==
    ASSUME IInv, nothing_to_flush
    PROVE  IInv'
<1>1. /\ queues' = [c \in Channels |-> Q(c)] /\ withheld' = W /\ cancelled' = cancelled
      /\ fate' = Gone(ExpiryLost, "dropped") /\ inFlight' = Blocked /\ ReleaseOverdue
      /\ arrived' = arrived /\ agents' = agents /\ steer' = steer
    BY DEF nothing_to_flush
<1>2. /\ DOMAIN fate' = Events
      /\ \A e \in Events : /\ e \in ExpiryLost => fate'[e] # "none"
                           /\ e \notin ExpiryLost => fate'[e] = fate[e]
    BY <1>1 DEF Gone
<1>3. \A c \in Channels : Q(c) \in Seq(Events) /\ W[c] \in Seq(Events)
    BY ExpiryLostIs
<1>4. Types'
  <2>1. W \in [Channels -> Seq(Events)]
    BY <1>3 DEF W
  <2>2. queues' \in [Channels -> Seq(Events)]
    BY <1>1, <1>3
  <2>3. QED
    BY <1>1, <1>2, <2>1, <2>2 DEF IInv, Types, Blocked
<1>5. \A c : SameTurns(c)
    BY <1>1, SameRows
<1>6. ASSUME NEW c \in Channels
      PROVE  Local(c)'
  <2>1. queues'[c] = Q(c) /\ withheld'[c] = W[c] /\ cancelled'[c] = cancelled[c]
    BY <1>1
  <2>2. On(c) \subseteq Events
    BY DEF On
  <2>3. QED
    BY <1>1, <1>2, <1>5, <2>1, <2>2, ExpiredLocal
<1>7. QED
    BY <1>4, <1>6 DEF IInv

(* The events flush_next takes off the queue.                              *)
LEMMA TakenIs ==
    ASSUME IInv, NEW c \in Channels, NEW t, t = Sorted(Elems(Taken(c)))
    PROVE  /\ Line(On(c), t) /\ Line(On(c), Left(c)) /\ Apart(t, Left(c))
           /\ Joins(Q(c), t, Left(c))
<1>1. PICK q : q = Q(c)
    OBVIOUS
<1>2. Line(On(c), q)
    BY <1>1, ExpiryIs DEF Expires
<1>3. q \in Seq(On(c)) /\ Len(q) \in Nat
    BY <1>2 DEF Line
<1>4. PICK k : k = Taken(c)
    OBVIOUS
<1>5. PICK l : l = Left(c)
    OBVIOUS
<1>6. /\ Line(On(c), k) /\ Line(On(c), l)
      /\ Elems(k) \cap Elems(l) = {} /\ Elems(k) \cup Elems(l) = Elems(q)
  <2>1. CASE Len(q) > MaxBatch
    <3>1. MaxBatch \in 0..Len(q)
        BY <1>3, <2>1, QueueAssumption
    <3>2. k = SubSeq(q, 1, MaxBatch)
        BY <1>1, <1>4, <2>1 DEF Taken
    <3>3. Len(k) = MaxBatch
        BY <1>2, <3>1, <3>2, SplitLine
    <3>4. l = SubSeq(q, MaxBatch + 1, Len(q))
        BY <1>1, <1>4, <1>5, <3>3 DEF Left
    <3>5. QED
        BY <1>2, <3>1, <3>2, <3>4, SplitLine
  <2>2. CASE ~(Len(q) > MaxBatch)
    <3>1. k = q
        BY <1>1, <1>4, <2>2 DEF Taken
    <3>2. l = SubSeq(q, Len(q) + 1, Len(q))
        BY <1>1, <1>4, <1>5, <3>1 DEF Left
    <3>3. l = << >>
        BY <1>3, <3>2
    <3>4. Line(On(c), l) /\ Elems(l) = {}
        BY <3>3, EmptyLine
    <3>5. QED
        BY <1>2, <3>1, <3>4
  <2>3. QED
    BY <2>1, <2>2
<1>7. PICK E : E = Elems(k)
    OBVIOUS
<1>8. E \subseteq On(c) /\ On(c) \subseteq Nat /\ IsFiniteSet(E)
    BY <1>6, <1>7, LineOfEvents, FiniteLine, QueueAssumption DEF On, Line
<1>9. t = Sorted(E)
    BY <1>4, <1>7
<1>10. Line(E, t) /\ Elems(t) = E
    BY <1>8, <1>9, SortedLine
<1>11. Line(On(c), t)
  <2>1. t \in Seq(E) /\ Distinct(t)
    BY <1>10 DEF Line
  <2>2. t \in Seq(On(c))
    BY <1>8, <2>1
  <2>3. QED
    BY <2>1, <2>2 DEF Line
<1>12. Apart(t, l) /\ Joins(q, t, l)
    BY <1>6, <1>7, <1>10 DEF Apart, Joins
<1>13. QED
    BY <1>1, <1>5, <1>6, <1>11, <1>12

(* What flush_next returns.                                                *)
Flushed(c, v, m, l) ==
    /\ c \in Channels /\ c \notin Blocked
    /\ Line(On(c), v) /\ Line(On(c), m) /\ Line(On(c), l)
    /\ Elems(v) \cap Elems(m) = {} /\ Elems(v) \cap Elems(l) = {} /\ Elems(m) \cap Elems(l) = {}
    /\ Elems(v) \cup Elems(m) \cup Elems(l) = Elems(Q(c)) \cup Elems(cancelled[c])

LEMMA FlushIs ==
    ASSUME IInv, NEW b \in Flushes
    PROVE  Flushed(b.chan, b.events, b.merged, b.left)
<1>1. CASE \E c \in Oldest : b = [chan |-> c, events |-> Sorted(Elems(Taken(c))),
                                  merged |-> cancelled[c], left |-> Left(c)]
  <2>1. PICK c \in Oldest : b = [chan |-> c, events |-> Sorted(Elems(Taken(c))),
                                 merged |-> cancelled[c], left |-> Left(c)]
    BY <1>1
  <2>2. c \in Channels /\ c \notin Blocked
    BY DEF Oldest, Ready
  <2>3. PICK t : t = Sorted(Elems(Taken(c)))
    OBVIOUS
  <2>4. /\ Line(On(c), t) /\ Line(On(c), Left(c)) /\ Apart(t, Left(c))
        /\ Joins(Q(c), t, Left(c))
    BY <2>2, <2>3, TakenIs
  <2>5. Line(On(c), cancelled[c]) /\ Elems(Q(c)) \cap Elems(cancelled[c]) = {}
    BY <2>2, ExpiryIs DEF Expires
  <2>6. /\ Elems(t) \cap Elems(Left(c)) = {}
        /\ Elems(Q(c)) = Elems(t) \cup Elems(Left(c))
    BY <2>4 DEF Apart, Joins
  <2>7. Flushed(c, t, cancelled[c], Left(c))
    BY <2>2, <2>4, <2>5, <2>6 DEF Flushed
  <2>8. b.chan = c /\ b.events = t /\ b.merged = cancelled[c] /\ b.left = Left(c)
    BY <2>1, <2>3
  <2>9. QED
    BY <2>7, <2>8
<1>2. CASE \E c \in CancelledOnly : b = [chan |-> c, events |-> cancelled[c],
                                         merged |-> << >>, left |-> Q(c)]
  <2>1. PICK c \in CancelledOnly : b = [chan |-> c, events |-> cancelled[c],
                                        merged |-> << >>, left |-> Q(c)]
    BY <1>2
  <2>2. c \in Channels /\ c \notin Blocked
    BY DEF CancelledOnly
  <2>3. /\ Line(On(c), cancelled[c]) /\ Line(On(c), Q(c))
        /\ Elems(Q(c)) \cap Elems(cancelled[c]) = {}
    BY <2>2, ExpiryIs DEF Expires
  <2>4. PICK m : m = << >>
    OBVIOUS
  <2>5. Line(On(c), m) /\ Elems(m) = {}
    BY <2>4, EmptyLine
  <2>6. Flushed(c, cancelled[c], m, Q(c))
    BY <2>2, <2>3, <2>5 DEF Flushed
  <2>7. b.chan = c /\ b.events = cancelled[c] /\ b.merged = m /\ b.left = Q(c)
    BY <2>1, <2>4
  <2>8. QED
    BY <2>6, <2>7
<1>3. QED
    BY <1>1, <1>2 DEF Flushes

LEMMA DispatchStep ==
    ASSUME IInv, NEW a \in Agents, dispatch(a)
    PROVE  IInv'
<1>1. PICK b \in Flushes :
         /\ queues' = Restored(b)
         /\ inFlight' = Blocked \cup {b.chan}
         /\ cancelled' = [cancelled EXCEPT ![b.chan] = <<>>]
         /\ agents' = [agents EXCEPT ![a] =
                [st |-> "busy", chan |-> b.chan, events |-> b.events,
                 merged |-> b.merged, sig |-> "none", steers |-> {}]]
    BY DEF dispatch
<1>2. /\ ReleaseOverdue /\ withheld' = W /\ fate' = Gone(ExpiryLost, "dropped")
      /\ arrived' = arrived /\ steer' = steer /\ agents[a].st = "idle"
    BY DEF dispatch
<1>3. PICK c, v, m, l : c = b.chan /\ v = b.events /\ m = b.merged /\ l = b.left
    OBVIOUS
<1>4. Flushed(c, v, m, l) /\ c \in Channels /\ Types /\ Local(c)
    BY <1>3, FlushIs DEF Flushed, IInv
<1>5. PICK L : L = Lost(Recovered(c))
    OBVIOUS
<1>6. Expires(c, L) /\ L \subseteq On(c)
    BY <1>4, <1>5, ExpiryIs
<1>7. \A x \in Channels : Q(x) \in Seq(Events) /\ W[x] \in Seq(Events)
    BY ExpiryLostIs
<1>8. v \in Seq(Events) /\ m \in Seq(Events) /\ l \in Seq(Events)
    BY <1>4, LineOfEvents DEF Flushed
<1>9. /\ DOMAIN fate' = Events
      /\ \A e \in Events : /\ e \in ExpiryLost => fate'[e] # "none"
                           /\ e \notin ExpiryLost => fate'[e] = fate[e]
    BY <1>2 DEF Gone
<1> DEFINE r == [st |-> "busy", chan |-> c, events |-> v, merged |-> m, sig |-> "none",
                 steers |-> {}]
<1>10. /\ r \in BusyRows /\ r.st = "busy" /\ r.chan = c /\ r.events = v /\ r.merged = m
       /\ agents' = [agents EXCEPT ![a] = r]
    BY <1>1, <1>3, <1>4, <1>8 DEF BusyRows, Signals
<1> HIDE DEF r
<1>11. /\ queues'[c] = l /\ \A d \in Channels \ {c} : queues'[d] = Q(d)
       /\ cancelled'[c] = << >> /\ \A d \in Channels \ {c} : cancelled'[d] = cancelled[d]
    BY <1>1, <1>3, <1>4 DEF Restored, Types
<1>12. Types'
  <2>1. W \in [Channels -> Seq(Events)]
    BY <1>7 DEF W
  <2>2. queues' \in [Channels -> Seq(Events)]
    BY <1>1, <1>3, <1>7, <1>8 DEF Restored
  <2>3. cancelled' \in [Channels -> Seq(Events)]
    <3>1. << >> \in Seq(Events)
        BY EmptySeq
    <3>2. QED
        BY <1>1, <1>4, <3>1 DEF Types
  <2>4. agents' \in [Agents -> RestRows \cup BusyRows \cup DoneRows]
    BY <1>4, <1>10 DEF Types
  <2>5. inFlight' \subseteq Channels
    BY <1>1, <1>3, <1>4 DEF Types, Blocked
  <2>6. QED
    BY <1>2, <1>4, <1>9, <2>1, <2>2, <2>3, <2>4, <2>5 DEF Types
<1>13. /\ agents'[a] = r
       /\ \A d : a \notin TurnsOf(d) /\ a \notin TurnsOf(d)' => SameTurns(d)
       /\ \A d : TurnsOf(d)' \ {a} = TurnsOf(d) \ {a}
       /\ \A x \in Agents \ {a} : agents'[x] = agents[x]
    BY <1>4, <1>10, OneRow
<1>14. \A d : a \notin TurnsOf(d)
    BY <1>2 DEF TurnsOf, Turns, Busy, Done
<1>15. \A d : d # c => a \notin TurnsOf(d)'
    BY <1>10, <1>13 DEF TurnsOf
<1>16. a \in TurnsOf(c)'
    BY <1>10, <1>13 DEF TurnsOf, Turns, Busy, Done
<1>17. \A d : On(d) \subseteq Events
    BY DEF On
<1>18. ASSUME NEW d \in Channels, d # c
       PROVE  Local(d)'
  <2>1. SameTurns(d)
    BY <1>13, <1>14, <1>15, <1>18
  <2>2. queues'[d] = Q(d) /\ withheld'[d] = W[d] /\ cancelled'[d] = cancelled[d]
    BY <1>2, <1>11, <1>18
  <2>3. Blocked \subseteq inFlight'
    BY <1>1
  <2>4. QED
    BY <1>2, <1>9, <1>17, <2>1, <2>2, <2>3, ExpiredLocal
<1>19. Local(c)'
  <2>1. \A x : x \in TurnsOf(c)' <=> x \in TurnsOf(c) \/ x = a
    BY <1>13, <1>16
  <2>2. Batch(a)' = Elems(v) \cup Elems(m)
    BY <1>10, <1>13 DEF Batch
  <2>a. \A x \in TurnsOf(c) : x # a /\ agents'[x] = agents[x]
    BY <1>13, <1>14 DEF TurnsOf, Turns, Busy, Done
  <2>b. \A x \in TurnsOf(c) : Batch(x)' = Batch(x)
    BY <2>a DEF Batch
  <2>3. \A e : e \in Hand(c)' <=> e \in Hand(c) \/ e \in Elems(v) \cup Elems(m)
    <3>1. \A e : e \in Hand(c)' <=> \E x \in TurnsOf(c)' : e \in Batch(x)'
        BY DEF Hand
    <3>2. \A e : e \in Hand(c) <=> \E x \in TurnsOf(c) : e \in Batch(x)
        BY DEF Hand
    <3>3. QED
        BY <2>1, <2>2, <2>b, <3>1, <3>2
  <2>c. Hand(c) \cap Stock(c) = {}
    BY <1>4 DEF Local, InHand, Hand
  <2>4. Stock(c)' = Elems(l) \cup Elems(W[c])
    BY <1>2, <1>11, EmptyLine DEF Stock
  <2>5. /\ (Elems(v) \cup Elems(m) \cup Elems(l)) \cap Elems(W[c]) = {}
        /\ Stock(c) = Elems(v) \cup Elems(m) \cup Elems(l) \cup Elems(W[c]) \cup L
        /\ L \cap (Elems(v) \cup Elems(m) \cup Elems(l) \cup Elems(W[c])) = {}
    BY <1>4, <1>6 DEF Flushed, Expires
  <2>6. Filed(c)'
    <3>1. withheld'[c] = W[c] /\ cancelled'[c] = << >>
        BY <1>2, <1>11
    <3>2. Line(On(c), cancelled'[c]) /\ Elems(cancelled'[c]) = {}
        BY <3>1, EmptyLine
    <3>3. QED
        BY <1>4, <1>6, <1>11, <2>5, <3>1, <3>2 DEF Filed, Flushed, Expires
  <2>7. InHand(c)'
    <3>1. agents'[a].events = v /\ agents'[a].merged = m
        BY <1>10, <1>13
    <3>2. (Elems(v) \cup Elems(m)) \cap Stock(c)' = {}
        BY <1>4, <2>4, <2>5 DEF Flushed
    <3>3. /\ Line(On(c), agents'[a].events) /\ Line(On(c), agents'[a].merged)
          /\ Elems(agents'[a].events) \cap Elems(agents'[a].merged) = {}
          /\ Batch(a)' \cap Stock(c)' = {}
        BY <1>4, <2>2, <3>1, <3>2 DEF Flushed
    <3>4. ASSUME NEW x \in TurnsOf(c)
          PROVE  /\ Line(On(c), agents'[x].events) /\ Line(On(c), agents'[x].merged)
                 /\ Elems(agents'[x].events) \cap Elems(agents'[x].merged) = {}
                 /\ Batch(x)' \cap Stock(c)' = {} /\ Batch(x)' \cap Batch(a)' = {}
      <4>1. /\ Line(On(c), agents[x].events) /\ Line(On(c), agents[x].merged)
            /\ Elems(agents[x].events) \cap Elems(agents[x].merged) = {}
            /\ Batch(x) \cap Stock(c) = {}
        BY <1>4 DEF Local, InHand
      <4>2. Stock(c)' \subseteq Stock(c) /\ Batch(a)' \subseteq Stock(c)
        BY <2>2, <2>4, <2>5
      <4>3. QED
        BY <2>a, <2>b, <4>1, <4>2
    <3>5. \A x, y \in TurnsOf(c) : x # y => Batch(x)' \cap Batch(y)' = {}
        BY <1>4, <2>b DEF Local, InHand
    <3>6. QED
        BY <2>1, <3>3, <3>4, <3>5 DEF InHand
  <2>8. Holds(c)'
    <3>1. c \in inFlight'
        BY <1>1, <1>3
    <3>2. c \notin outlived' => TurnsOf(c) = {}
      <4>1. outlived \subseteq outlived'
        BY <1>2, ReleaseIs
      <4>2. TurnsOf(c) # {} /\ c \in inFlight /\ c \notin Blocked => c \in outlived'
        BY <1>2, ReleaseIs
      <4>3. QED
        BY <1>4, <4>1, <4>2 DEF Local, Holds, Flushed
    <3>3. QED
        BY <2>1, <3>1, <3>2 DEF Holds
  <2>9. Fated(c)'
    <3> DEFINE N == {}
    <3>1. \A e \in On(c) : e \in Here(c)' <=> (e \in Here(c) \/ e \in N) /\ e \notin L
        BY <2>3, <2>4, <2>5, <2>c DEF Here
    <3>2. \A e \in On(c) : e \in L => e \in Elems(arrived) \/ e \in N
        BY <1>4, <2>5 DEF Local, Fated, Here
    <3>3. \A e \in On(c) : /\ e \in L => fate'[e] # "none"
                           /\ e \notin L => fate'[e] = fate[e]
        BY <1>4, <1>5, <1>9, <1>17, ExpiryLostIs
    <3>4. \A e \in On(c) : e \in Elems(arrived') <=> e \in Elems(arrived) \/ e \in N
        BY <1>2
    <3>5. N \cap Elems(arrived) = {} /\ Fated(c)
        BY <1>4 DEF Local
    <3> HIDE DEF N
    <3>6. QED
        BY <3>1, <3>2, <3>3, <3>4, <3>5, FatedMoved
  <2>10. QED
    BY <2>6, <2>7, <2>8, <2>9 DEF Local
<1>20. QED
    BY <1>12, <1>18, <1>19 DEF IInv

LEMMA ExhaustedStep ==
    ASSUME IInv, pool_exhausted
    PROVE  IInv'
<1>1. PICK b \in Flushes :
         /\ queues' = [Restored(b) EXCEPT ![b.chan] = Kept(b.events \o b.left)]
         /\ cancelled' = [cancelled EXCEPT ![b.chan] = <<>>]
         /\ fate' = [e \in Events |->
                       IF e \in Elems(b.merged) THEN "forgotten"
                       ELSE Gone(ExpiryLost \cup Lost(b.events \o b.left), "dropped")[e]]
         /\ inFlight' = Blocked
    BY DEF pool_exhausted
<1>2. /\ ReleaseOverdue /\ withheld' = W /\ arrived' = arrived /\ agents' = agents /\ steer' = steer
    BY DEF pool_exhausted
<1>3. PICK c, v, m, l : c = b.chan /\ v = b.events /\ m = b.merged /\ l = b.left
    OBVIOUS
<1>4. Flushed(c, v, m, l) /\ c \in Channels /\ Types /\ Local(c)
    BY <1>3, FlushIs DEF Flushed, IInv
<1>5. PICK L : L = Lost(Recovered(c))
    OBVIOUS
<1>6. Expires(c, L) /\ L \subseteq On(c)
    BY <1>4, <1>5, ExpiryIs
<1>7. \A x \in Channels : Q(x) \in Seq(Events) /\ W[x] \in Seq(Events)
    BY ExpiryLostIs
<1>8. PICK q : q = v \o l
    OBVIOUS
<1>9. Line(On(c), q) /\ Elems(q) = Elems(v) \cup Elems(l)
  <2>1. Apart(v, l) /\ Line(On(c), v) /\ Line(On(c), l)
    BY <1>4 DEF Flushed, Apart
  <2>2. Line(On(c), q) /\ Joins(q, v, l)
    BY <1>8, <2>1, ConcatApart
  <2>3. QED
    BY <2>2 DEF Joins
<1>10. Line(On(c), Kept(q)) /\ Elems(Kept(q)) \subseteq Elems(q)
    BY <1>9, KeptLine
<1>11. Lost(q) = Elems(q) \ Elems(Kept(q))
    BY DEF Lost
<1>12. PICK D : D = L \cup Elems(m) \cup Lost(q)
    OBVIOUS
<1>13. Elems(m) \subseteq On(c) /\ Elems(q) \subseteq On(c) /\ Kept(q) \in Seq(Events)
    BY <1>4, <1>9, <1>10, LineOfEvents DEF Flushed
<1>14. /\ DOMAIN fate' = Events
       /\ \A e \in Events :
            /\ e \in ExpiryLost \cup Elems(m) \cup Lost(q) => fate'[e] # "none"
            /\ e \notin ExpiryLost \cup Elems(m) \cup Lost(q) => fate'[e] = fate[e]
    BY <1>1, <1>3, <1>8 DEF Gone
<1>15. /\ queues'[c] = Kept(q) /\ \A d \in Channels \ {c} : queues'[d] = Q(d)
       /\ cancelled'[c] = << >> /\ \A d \in Channels \ {c} : cancelled'[d] = cancelled[d]
    BY <1>1, <1>3, <1>4, <1>8 DEF Restored, Types
<1>16. Types'
  <2>1. W \in [Channels -> Seq(Events)]
    BY <1>7 DEF W
  <2>2. queues' \in [Channels -> Seq(Events)]
    <3>1. \A d \in Channels : queues'[d] \in Seq(Events)
        BY <1>7, <1>13, <1>15
    <3>2. queues' = [d \in Channels |-> queues'[d]]
        BY <1>1 DEF Restored
    <3>3. QED
        BY <3>1, <3>2
  <2>3. cancelled' \in [Channels -> Seq(Events)]
    <3>1. << >> \in Seq(Events)
        BY EmptySeq
    <3>2. QED
        BY <1>1, <1>4, <3>1 DEF Types
  <2>4. inFlight' \subseteq Channels
    BY <1>1, <1>4 DEF Types, Blocked
  <2>5. QED
    BY <1>2, <1>4, <1>14, <2>1, <2>2, <2>3, <2>4 DEF Types
<1>17. \A d : On(d) \subseteq Events /\ SameTurns(d)
    BY <1>2, SameRows DEF On
<1>18. ASSUME NEW d \in Channels, d # c
       PROVE  Local(d)'
  <2>1. \A e \in On(d) : e \notin On(c)
    BY <1>18 DEF On
  <2>2. \A e \in On(d) : /\ e \in ExpiryLost => fate'[e] # "none"
                         /\ e \notin ExpiryLost => fate'[e] = fate[e]
    BY <1>11, <1>13, <1>14, <1>17, <2>1
  <2>3. queues'[d] = Q(d) /\ withheld'[d] = W[d] /\ cancelled'[d] = cancelled[d]
    BY <1>2, <1>15, <1>18
  <2>4. Blocked \subseteq inFlight' /\ SameTurns(d)
    BY <1>1, <1>17
  <2>5. QED
    BY <1>2, <2>2, <2>3, <2>4, ExpiredLocal
<1>19. Local(c)'
  <2>1. Held(c)
    BY <1>1, <1>2, ReleaseIs
  <2>2. Stock(c)' = Elems(Kept(q)) \cup Elems(W[c])
    BY <1>2, <1>15, EmptyLine DEF Stock
  <2>3. /\ (Elems(v) \cup Elems(m) \cup Elems(l)) \cap Elems(W[c]) = {}
        /\ Elems(m) \cap Elems(q) = {}
        /\ Stock(c) = Elems(q) \cup Elems(m) \cup Elems(W[c]) \cup L
        /\ L \cap (Elems(q) \cup Elems(m) \cup Elems(W[c])) = {}
    BY <1>4, <1>6, <1>9 DEF Flushed, Expires
  <2>4. Filed(c)'
    <3>1. withheld'[c] = W[c] /\ cancelled'[c] = << >>
        BY <1>2, <1>15
    <3>2. Line(On(c), cancelled'[c]) /\ Elems(cancelled'[c]) = {}
        BY <3>1, EmptyLine
    <3>3. Line(On(c), W[c]) /\ Elems(Kept(q)) \cap Elems(W[c]) = {}
        BY <1>6, <1>9, <1>10, <2>3 DEF Expires
    <3>4. QED
        BY <1>10, <1>15, <3>1, <3>2, <3>3 DEF Filed
  <2> DEFINE N == {}
  <2>5. \A e \in On(c) : e \in Stock(c)' <=> (e \in Stock(c) \/ e \in N) /\ e \notin D
    BY <1>9, <1>10, <1>11, <1>12, <2>2, <2>3
  <2>6. D \subseteq On(c) /\ D \subseteq Stock(c)
    BY <1>6, <1>11, <1>12, <1>13, <2>3
  <2>7. \A e \in On(c) : /\ e \in D => fate'[e] # "none"
                         /\ e \notin D => fate'[e] = fate[e]
    <3>1. \A e \in On(c) : e \in ExpiryLost <=> e \in L
        BY <1>4, <1>5, ExpiryLostIs
    <3>2. QED
        BY <1>12, <1>14, <1>17, <3>1
  <2>8. MovesHere(c, N, D)
    BY <1>2, <2>5, <2>6, <2>7 DEF MovesHere
  <2> HIDE DEF N
  <2>9. QED
    BY <1>4, <1>17, <2>1, <2>4, <2>8, StockLocal
<1>20. QED
    BY <1>16, <1>18, <1>19 DEF IInv

-----------------------------------------------------------------------------
LEMMA InitIInv ==
    ASSUME Init
    PROVE  IInv
<1>1. /\ arrived = << >> /\ inFlight = {} /\ outlived = {}
      /\ agents = [a \in Agents |-> Idle]
      /\ steer = [e \in Events |-> "no"] /\ fate = [e \in Events |-> "none"]
      /\ queues = [c \in Channels |-> << >>] /\ withheld = [c \in Channels |-> << >>]
      /\ cancelled = [c \in Channels |-> << >>]
    BY DEF Init
<1>2. << >> \in Seq(Events) /\ Elems(<< >>) = {}
    BY EmptySeq, EmptyLine
<1>3. Idle \in RestRows /\ Idle.st # "busy" /\ Idle.st # "done"
    BY DEF Idle, RestRows
<1>4. Types
    BY <1>1, <1>2, <1>3 DEF Types
<1>5. \A c : TurnsOf(c) = {}
    BY <1>1, <1>3 DEF TurnsOf, Turns, Busy, Done
<1>6. ASSUME NEW c \in Channels
      PROVE  Local(c)
  <2>1. queues[c] = << >> /\ withheld[c] = << >> /\ cancelled[c] = << >>
    BY <1>1
  <2>2. Filed(c)
    BY <2>1, EmptyLine DEF Filed
  <2>3. InHand(c) /\ Holds(c)
    BY <1>5 DEF InHand, Holds
  <2>4. Here(c) = {}
    BY <1>2, <1>5, <2>1 DEF Here, Stock, Hand
  <2>5. Fated(c)
    BY <1>1, <1>2, <2>4 DEF Fated, On
  <2>6. QED
    BY <2>2, <2>3, <2>5 DEF Local
<1>7. QED
    BY <1>4, <1>6 DEF IInv

LEMMA EveryStep ==
    ASSUME IInv, [Next]_vars
    PROVE  IInv'
<1>1. CASE UNCHANGED vars
  <2>1. /\ queues' = queues /\ withheld' = withheld /\ cancelled' = cancelled
        /\ arrived' = arrived /\ inFlight' = inFlight /\ outlived' = outlived
        /\ fate' = fate /\ agents' = agents /\ steer' = steer
    BY <1>1 DEF vars, queue
  <2>2. Types'
    BY <2>1 DEF IInv, Types
  <2>3. QED
    BY <2>1, <2>2, SameRows, StillStep
<1>2. ASSUME Dispatch
      PROVE  IInv'
    BY <1>2, DispatchStep, ExhaustedStep, NothingStep DEF Dispatch
<1>3. ASSUME Drain
      PROVE  IInv'
    BY <1>3, BatchKeptStep, DrainResultStep, ResumeStep DEF Drain
<1>4. ASSUME NEW e \in Events, Receive(e) \/ SteerAck(e)
      PROVE  IInv'
    BY <1>4, ReceiveStep, NativeSteerStep, SteeredStep, SteerFailedStep
       DEF Receive, SteerAck
<1>5. ASSUME NEW a \in Agents,
             \/ run_prompt_task(a) \/ turn_hangs(a) \/ Handle(a) \/ respawned(a)
             \/ \E e \in Events : answer_steer(a, e)
      PROVE  IInv'
    BY <1>5, PromptStep, HangStep, BatchOverStep, BatchKeptStep, BatchRequeuedStep,
       RespawnStep, AnswerStep DEF Handle
<1>6. ASSUME NEW c \in Channels,
             \/ member_removed(c) \/ member_added(c)
             \/ backoff_elapses(c) \/ deadline_passes(c)
             \/ \E sig \in Controls : control(c, sig)
      PROVE  IInv'
    BY <1>6, RemovedStep, QuietSteps, ControlStep
<1>7. CASE Next
    BY <1>2, <1>3, <1>4, <1>5, <1>6, <1>7, QuiesceStep, QuietSteps DEF Next
<1>8. QED
    BY <1>1, <1>7

LEMMA Invariance == Spec => []IInv
<1>1. Init => IInv
    BY InitIInv
<1>2. IInv /\ [Next]_vars => IInv'
    BY EveryStep
<1>3. QED
    BY <1>1, <1>2, PTL DEF Spec

(* For any events, channels, agents and limits: until the backstop of a    *)
(* channel passes under a live turn, and again once the turns it had are   *)
(* over, the channel is not prompted by two agents at a time and every     *)
(* turn holds it in flight (flush_next skips in_flight_channels, and       *)
(* mark_complete releases only the channel of the result).                 *)
THEOREM OneTurnHolds == Spec => []OneTurnUnlessOutlived
<1>1. ASSUME IInv
      PROVE  OneTurnUnlessOutlived
  <2>1. \A a \in Turns : agents[a].chan \in Channels /\ a \in TurnsOf(agents[a].chan)
    BY <1>1, TurnRows DEF IInv, TurnsOf
  <2>2. \A c \in Channels : Holds(c)
    BY <1>1 DEF IInv, Local
  <2>3. QED
    BY <2>1, <2>2 DEF OneTurnUnlessOutlived, Holds
<1>2. QED
    BY <1>1, Invariance, PTL

(* Where an event can be: one kind of place, and there once.               *)
LEMMA TurnOf ==
    ASSUME IInv, NEW e \in Events, NEW c, c = ChannelOf[e], NEW a \in Turns, e \in Batch(a)
    PROVE  a \in TurnsOf(c)
<1>1. PICK d : d = agents[a].chan
    OBVIOUS
<1>2. d \in Channels /\ a \in TurnsOf(d)
    BY <1>1, TurnRows DEF IInv, TurnsOf
<1>3. Line(On(d), agents[a].events) /\ Line(On(d), agents[a].merged)
    BY <1>2 DEF IInv, Local, InHand
<1>4. e \in On(d)
    BY <1>3, LineOfEvents DEF Batch
<1>5. QED
    BY <1>2, <1>4 DEF On

LEMMA AtMostOnePlace ==
    ASSUME IInv, NEW e \in Events, NEW p \in Places(e), NEW r \in Places(e)
    PROVE  p = r
<1>1. PICK c : c = ChannelOf[e]
    OBVIOUS
<1>2. c \in Channels /\ e \in On(c) /\ Local(c)
    BY <1>1, QueueAssumption DEF IInv, On
<1> DEFINE A == Elems(queues[c])
           B == Elems(withheld[c])
           C == Elems(cancelled[c])
           At(x) ==
             \/ \E i \in DOMAIN queues[c] : x = <<"queued", i>> /\ queues[c][i] = e
             \/ \E i \in DOMAIN withheld[c] : x = <<"withheld", i>> /\ withheld[c][i] = e
             \/ \E i \in DOMAIN cancelled[c] : x = <<"cancelled", i>> /\ cancelled[c][i] = e
             \/ \E a \in TurnsOf(c) : x = <<"turn", a>> /\ e \in Elems(agents[a].events)
             \/ \E a \in TurnsOf(c) : x = <<"merged", a>> /\ e \in Elems(agents[a].merged)
<1>3. \A a \in Turns : e \in Elems(agents[a].events) \/ e \in Elems(agents[a].merged)
                       => a \in TurnsOf(c)
    BY <1>1, TurnOf DEF Batch
<1>4. \A x \in Places(e) : At(x)
    BY <1>1, <1>3 DEF Places
<1>5. At(p) /\ At(r)
    BY <1>4
<1>6. /\ Distinct(queues[c]) /\ Distinct(withheld[c]) /\ Distinct(cancelled[c])
      /\ A \cap B = {} /\ A \cap C = {} /\ B \cap C = {}
    BY <1>2 DEF Local, Filed, Line
<1>7. /\ \A a, b \in TurnsOf(c) : e \in Batch(a) /\ e \in Batch(b) => a = b
      /\ \A a \in TurnsOf(c) :
           /\ e \in Batch(a) <=> e \in Elems(agents[a].events) \/ e \in Elems(agents[a].merged)
           /\ Elems(agents[a].events) \cap Elems(agents[a].merged) = {}
           /\ Elems(agents[a].events) \cap (A \cup B \cup C) = {}
           /\ Elems(agents[a].merged) \cap (A \cup B \cup C) = {}
    BY <1>2 DEF Local, Holds, InHand, Batch, Stock
<1>8. /\ \A i \in DOMAIN queues[c] : queues[c][i] \in A
      /\ \A i \in DOMAIN withheld[c] : withheld[c][i] \in B
      /\ \A i \in DOMAIN cancelled[c] : cancelled[c][i] \in C
    BY DEF Elems
<1> HIDE DEF A, B, C
<1>9. CASE e \in A
  <2>1. e \notin B /\ e \notin C
    BY <1>6, <1>9
  <2>2. \A a \in TurnsOf(c) : e \notin Elems(agents[a].events) /\ e \notin Elems(agents[a].merged)
    BY <1>7, <1>9
  <2>3. \A x : At(x) => \E i \in DOMAIN queues[c] : x = <<"queued", i>> /\ queues[c][i] = e
    BY <1>8, <2>1, <2>2
  <2>4. QED
    BY <1>5, <1>6, <2>3 DEF Distinct
<1>10. CASE e \in B
  <2>1. e \notin A /\ e \notin C
    BY <1>6, <1>10
  <2>2. \A a \in TurnsOf(c) : e \notin Elems(agents[a].events) /\ e \notin Elems(agents[a].merged)
    BY <1>7, <1>10
  <2>3. \A x : At(x) => \E i \in DOMAIN withheld[c] : x = <<"withheld", i>> /\ withheld[c][i] = e
    BY <1>8, <2>1, <2>2
  <2>4. QED
    BY <1>5, <1>6, <2>3 DEF Distinct
<1>11. CASE e \in C
  <2>1. e \notin A /\ e \notin B
    BY <1>6, <1>11
  <2>2. \A a \in TurnsOf(c) : e \notin Elems(agents[a].events) /\ e \notin Elems(agents[a].merged)
    BY <1>7, <1>11
  <2>3. \A x : At(x) => \E i \in DOMAIN cancelled[c] :
                           x = <<"cancelled", i>> /\ cancelled[c][i] = e
    BY <1>8, <2>1, <2>2
  <2>4. QED
    BY <1>5, <1>6, <2>3 DEF Distinct
<1>12. CASE e \notin A /\ e \notin B /\ e \notin C
  <2>1. \A x : At(x) =>
          \/ \E a \in TurnsOf(c) : x = <<"turn", a>> /\ e \in Elems(agents[a].events)
          \/ \E a \in TurnsOf(c) : x = <<"merged", a>> /\ e \in Elems(agents[a].merged)
    BY <1>8, <1>12
  <2> HIDE DEF At
  <2>2. CASE \E a \in TurnsOf(c) : e \in Elems(agents[a].events)
    <3>1. \A a \in TurnsOf(c) : e \notin Elems(agents[a].merged)
        BY <1>7, <2>2
    <3>2. QED
        BY <1>5, <1>7, <2>1, <3>1
  <2>3. CASE ~\E a \in TurnsOf(c) : e \in Elems(agents[a].events)
    BY <1>5, <1>7, <2>1, <2>3
  <2>4. QED
    BY <2>2, <2>3
<1>13. QED
    BY <1>9, <1>10, <1>11, <1>12

LEMMA PlaceIffHere ==
    ASSUME IInv, NEW e \in Events
    PROVE  Places(e) # {} <=> e \in Here(ChannelOf[e])
<1>1. PICK c : c = ChannelOf[e]
    OBVIOUS
<1>2. \A a \in Turns : e \in Batch(a) => a \in TurnsOf(c)
    BY <1>1, TurnOf
<1>3. \A a \in TurnsOf(c) : a \in Turns
    BY DEF TurnsOf
<1>4. ASSUME NEW p \in Places(e)
      PROVE  e \in Here(c)
  <2>1. \/ \E i \in DOMAIN queues[c] : queues[c][i] = e
        \/ \E i \in DOMAIN withheld[c] : withheld[c][i] = e
        \/ \E i \in DOMAIN cancelled[c] : cancelled[c][i] = e
        \/ \E a \in Turns : e \in Batch(a)
    BY <1>1 DEF Places, Batch
  <2>2. QED
    BY <1>2, <2>1 DEF Here, Stock, Hand, Elems
<1>5. ASSUME e \in Here(c)
      PROVE  Places(e) # {}
  <2>1. \/ \E i \in DOMAIN queues[c] : queues[c][i] = e
        \/ \E i \in DOMAIN withheld[c] : withheld[c][i] = e
        \/ \E i \in DOMAIN cancelled[c] : cancelled[c][i] = e
        \/ \E a \in Turns : e \in Batch(a)
    BY <1>3, <1>5 DEF Here, Stock, Hand, Elems
  <2>2. CASE \E i \in DOMAIN queues[c] : queues[c][i] = e
    BY <1>1, <2>2 DEF Places
  <2>3. CASE \E i \in DOMAIN withheld[c] : withheld[c][i] = e
    BY <1>1, <2>3 DEF Places
  <2>4. CASE \E i \in DOMAIN cancelled[c] : cancelled[c][i] = e
    BY <1>1, <2>4 DEF Places
  <2>5. CASE \E a \in Turns : e \in Batch(a)
    BY <2>5 DEF Places, Batch
  <2>6. QED
    BY <2>1, <2>2, <2>3, <2>4, <2>5
<1>6. QED
    BY <1>1, <1>4, <1>5

(* For any events, channels, agents and limits: the harness keeps an event *)
(* in one place at a time and in none once it has a fate, whatever order   *)
(* results, acks, cancels, requeues, expiries and drains reach the main    *)
(* loop in, and however many turns of a channel there are.                 *)
THEOREM OneCopyHolds == Spec => []OneCopy
<1>1. ASSUME IInv
      PROVE  OneCopy
  <2> SUFFICES ASSUME NEW e \in Events
               PROVE  Cardinality(Places(e)) <= IF fate[e] = "none" THEN 1 ELSE 0
    BY DEF OneCopy
  <2>1. PICK c, P : c = ChannelOf[e] /\ P = Places(e)
    OBVIOUS
  <2>2. c \in Channels /\ e \in On(c) /\ Local(c)
    BY <1>1, <2>1, QueueAssumption DEF IInv, On
  <2>3. \A p, r \in P : p = r
    BY <1>1, <2>1, AtMostOnePlace
  <2>4. fate[e] # "none" => P = {}
    <3>1. fate[e] # "none" => e \notin Here(c)
        BY <2>2 DEF Local, Fated
    <3>2. QED
        BY <1>1, <2>1, <3>1, PlaceIffHere
  <2>5. CASE P = {}
    <3>1. Cardinality(P) = 0
        BY <2>5, FS_EmptySet
    <3>2. QED
        BY <2>1, <3>1
  <2>6. CASE P # {}
    <3>1. PICK p : p \in P
        BY <2>6
    <3>2. P = {p}
        BY <2>3, <3>1
    <3>3. Cardinality(P) = 1
        BY <3>2, FS_Singleton
    <3>4. fate[e] = "none"
        BY <2>4, <2>6
    <3>5. QED
        BY <2>1, <3>3, <3>4
  <2>7. QED
    BY <2>5, <2>6
<1>2. QED
    BY <1>1, Invariance, PTL

(* For any events, channels, agents and limits: an event that push         *)
(* accepted and that was neither answered nor given up is still queued,    *)
(* withheld, kept as cancelled or in a turn.                               *)
THEOREM NeverLost == Spec => []NothingLost
<1>1. ASSUME IInv
      PROVE  NothingLost
  <2> SUFFICES ASSUME NEW e \in Elems(arrived), fate[e] = "none"
               PROVE  Places(e) # {}
    BY DEF NothingLost
  <2>1. e \in Events
    BY <1>1, LineIs DEF IInv, Types
  <2>2. PICK c : c = ChannelOf[e]
    OBVIOUS
  <2>3. c \in Channels /\ e \in On(c) /\ Fated(c)
    BY <1>1, <2>1, <2>2, QueueAssumption DEF IInv, On, Local
  <2>4. e \in Here(c)
    BY <2>3 DEF Fated
  <2>5. QED
    BY <1>1, <2>1, <2>2, <2>4, PlaceIffHere
<1>2. QED
    BY <1>1, Invariance, PTL
=============================================================================
