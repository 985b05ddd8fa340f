------------------------ MODULE WindowHistoryProofs ------------------------
(***************************************************************************)
(* For any fingerprints, event times, rules and order of deliveries: the   *)
(* incident crosses its threshold only on a burst, a burst makes it cross  *)
(* and plan its notification, and a replay is counted once per window.     *)
(***************************************************************************)
EXTENDS WindowHistory, FiniteSetTheorems, TLAPS

Intents == {"dispatch_planned", "no_dispatch"}
Entries == [in : Inputs, counted : BOOLEAN, intent : Intents]
Histories == Seq(Entries)

------------------------------------------------------------------------------
\* What a history h says of its first n deliveries, as constant operators.

UptoIn(h, n) == {i \in DOMAIN h : i <= n}
FrontIn(h, n) ==
  CHOOSE t \in {h[i].in.time : i \in UptoIn(h, n)} :
    \A i \in UptoIn(h, n) : h[i].in.time <= t
BurstIn(h, n) ==
  {h[i].in.fp : i \in {j \in UptoIn(h, n) :
     FrontIn(h, n) - h[n].in.seconds <= h[j].in.time /\ h[j].in.time <= FrontIn(h, n)}}
FirstIn(h, i) == \A j \in UptoIn(h, i - 1) : h[j].in.fp # h[i].in.fp
FreshIn(h, n) ==
  {h[i].in.fp : i \in {j \in UptoIn(h, n) :
     FirstIn(h, j) /\ FrontIn(h, n) - h[n].in.seconds <= h[j].in.time}}
FpsIn(h) == {h[i].in.fp : i \in DOMAIN h}

LEMMA HistoryViews ==
  /\ \A n : Upto(n) = UptoIn(history, n) /\ Front(n) = FrontIn(history, n)
            /\ Burst(n) = BurstIn(history, n) /\ FreshBurst(n) = FreshIn(history, n)
            /\ (IsFirst(n) <=> FirstIn(history, n))
  /\ {Fp(i) : i \in DOMAIN history} = FpsIn(history)
<1>1. \A n : Upto(n) = UptoIn(history, n)
  BY DEF Upto, UptoIn
<1>2. \A n : Front(n) = FrontIn(history, n)
  BY <1>1 DEF Front, FrontIn, Time
<1>3. \A n : IsFirst(n) <=> FirstIn(history, n)
  BY <1>1 DEF IsFirst, FirstIn, Fp
<1>4. \A n : Burst(n) = BurstIn(history, n)
  BY <1>1, <1>2 DEF Burst, BurstIn, Fp, Time
<1>5. \A n : FreshBurst(n) = FreshIn(history, n)
  BY <1>1, <1>2, <1>3 DEF FreshBurst, FreshIn, Fp, Time
<1> QED
  BY <1>1, <1>2, <1>3, <1>4, <1>5 DEF FpsIn, Fp

\* t is the newest event time of the first n deliveries.
Tops(h, n, t) ==
  /\ \E i \in UptoIn(h, n) : h[i].in.time = t
  /\ \A i \in UptoIn(h, n) : h[i].in.time <= t

LEMMA InputTypes ==
  ASSUME NEW in \in Inputs
  PROVE  /\ in \in ProblemInputs
         /\ in.fp \in Fingerprints /\ in.fp \in Nat
         /\ in.time \in Times /\ in.time \in Int
         /\ in.seconds \in Nat \ {0}
         /\ in.threshold \in Nat \ {0}
         /\ in.object \in Objects
<1>1. in \in ProblemInputs
  BY HistoryAssumption
<1>2. /\ in.fp \in Fingerprints /\ in.time \in Times /\ in.object \in Objects
      /\ in.seconds \in Nat \ {0} /\ in.threshold \in 1..MaxWindowFingerprints
  BY <1>1 DEF ProblemInputs
<1>3. in.threshold \in Nat \ {0}
  BY <1>2, AggregationAssumption
<1> QED
  BY <1>1, <1>2, <1>3, AggregationAssumption

LEMMA EntryTypes ==
  ASSUME NEW h \in Histories, NEW i \in DOMAIN h
  PROVE  /\ i \in Nat \ {0} /\ i <= Len(h)
         /\ h[i] \in Entries
         /\ h[i].in \in Inputs
         /\ h[i].in.fp \in Fingerprints
         /\ h[i].in.time \in Times /\ h[i].in.time \in Int
         /\ h[i].in.seconds \in Nat \ {0}
         /\ h[i].in.threshold \in Nat \ {0}
         /\ h[i].counted \in BOOLEAN
<1>1. h[i] \in Entries /\ i \in Nat \ {0} /\ i <= Len(h)
  BY DEF Histories
<1>2. h[i].in \in Inputs /\ h[i].counted \in BOOLEAN
  BY <1>1 DEF Entries
<1> QED
  BY <1>1, <1>2, InputTypes

LEMMA TopsIsFront ==
  ASSUME NEW h \in Histories, NEW n, NEW t, Tops(h, n, t)
  PROVE  FrontIn(h, n) = t
<1> DEFINE S == {h[i].in.time : i \in UptoIn(h, n)}
           P(s) == \A i \in UptoIn(h, n) : h[i].in.time <= s
<1>1. t \in S /\ P(t)
  BY DEF Tops
<1>2. \A s \in S : s \in Int
  BY EntryTypes DEF UptoIn
<1>3. \A s \in S : P(s) => s = t
  <2> SUFFICES ASSUME NEW s \in S, P(s) PROVE s = t
    OBVIOUS
  <2>1. t <= s
    BY DEF Tops
  <2>2. s <= t
    BY DEF Tops
  <2>3. s \in Int /\ t \in Int
    BY <1>1, <1>2
  <2> QED
    BY <2>1, <2>2, <2>3
<1>4. FrontIn(h, n) = CHOOSE s \in S : P(s)
  BY DEF FrontIn
<1> HIDE DEF S, P
<1> QED
  BY <1>1, <1>3, <1>4

------------------------------------------------------------------------------
\* One more delivery changes nothing of what was said of the earlier ones.

LEMMA Appended ==
  ASSUME NEW h \in Histories, NEW e \in Entries, NEW k, k = Append(h, e)
  PROVE  /\ k \in Histories
         /\ Len(h) \in Nat /\ Len(k) = Len(h) + 1
         /\ DOMAIN h = 1..Len(h) /\ DOMAIN k = 1..(Len(h) + 1)
         /\ \A i \in DOMAIN h : i \in DOMAIN k /\ k[i] = h[i]
         /\ Len(h) + 1 \in DOMAIN k /\ k[Len(h) + 1] = e
BY DEF Histories

LEMMA Extends ==
  ASSUME NEW h \in Histories, NEW e \in Entries, NEW k, k = Append(h, e),
         NEW n \in DOMAIN h
  PROVE  /\ UptoIn(k, n) = UptoIn(h, n) /\ UptoIn(k, n - 1) = UptoIn(h, n - 1)
         /\ FrontIn(k, n) = FrontIn(h, n)
         /\ BurstIn(k, n) = BurstIn(h, n)
         /\ FirstIn(k, n) <=> FirstIn(h, n)
         /\ FreshIn(k, n) = FreshIn(h, n)
<1>1. \A m \in 0..Len(h) : UptoIn(k, m) = UptoIn(h, m)
  BY Appended DEF UptoIn
<1>2. n \in 1..Len(h) /\ n \in 0..Len(h) /\ n - 1 \in 0..Len(h)
  BY Appended
<1>3. \A m \in DOMAIN h : UptoIn(k, m) = UptoIn(h, m) /\ UptoIn(k, m - 1) = UptoIn(h, m - 1)
  <2> TAKE m \in DOMAIN h
  <2>1. m \in 0..Len(h) /\ m - 1 \in 0..Len(h)
    BY Appended
  <2> QED
    BY <1>1, <2>1
<1>4. \A i \in DOMAIN h : k[i] = h[i]
  BY Appended
<1>5. \A m : \A i \in UptoIn(h, m) : i \in DOMAIN h
  BY DEF UptoIn
<1>6. FrontIn(k, n) = FrontIn(h, n)
  <2> DEFINE S == {h[i].in.time : i \in UptoIn(h, n)}
             P(s) == \A i \in UptoIn(h, n) : h[i].in.time <= s
             T == {k[i].in.time : i \in UptoIn(k, n)}
             Q(s) == \A i \in UptoIn(k, n) : k[i].in.time <= s
  <2>1. S = T
    BY <1>3, <1>4, <1>5
  <2>2. \A s : P(s) <=> Q(s)
    BY <1>3, <1>4, <1>5
  <2>3. FrontIn(h, n) = CHOOSE s \in S : P(s)
    BY DEF FrontIn
  <2>4. FrontIn(k, n) = CHOOSE s \in T : Q(s)
    BY DEF FrontIn
  <2> HIDE DEF S, P, T, Q
  <2>5. (CHOOSE s \in S : P(s)) = (CHOOSE s \in T : Q(s))
    BY <2>1, <2>2
  <2> QED
    BY <2>3, <2>4, <2>5
<1>7. \A m \in DOMAIN h : FirstIn(k, m) <=> FirstIn(h, m)
  BY <1>3, <1>4, <1>5 DEF FirstIn
<1>8. BurstIn(k, n) = BurstIn(h, n)
  BY <1>3, <1>4, <1>5, <1>6 DEF BurstIn
<1>9. FreshIn(k, n) = FreshIn(h, n)
  <2> DEFINE A == {j \in UptoIn(h, n) :
                     FirstIn(h, j) /\ FrontIn(h, n) - h[n].in.seconds <= h[j].in.time}
             B == {j \in UptoIn(k, n) :
                     FirstIn(k, j) /\ FrontIn(k, n) - k[n].in.seconds <= k[j].in.time}
  <2>1. A = B
    <3>1. k[n] = h[n] /\ UptoIn(k, n) = UptoIn(h, n)
      BY <1>3, <1>4
    <3>2. \A j \in UptoIn(h, n) : k[j] = h[j] /\ (FirstIn(k, j) <=> FirstIn(h, j))
      BY <1>4, <1>5, <1>7
    <3> QED
      BY <1>6, <3>1, <3>2
  <2>2. \A j \in A : k[j] = h[j]
    BY <1>4, <1>5
  <2>3. FreshIn(h, n) = {h[j].in.fp : j \in A} /\ FreshIn(k, n) = {k[j].in.fp : j \in B}
    BY DEF FreshIn
  <2> HIDE DEF A, B
  <2>4. {k[j].in.fp : j \in B} = {k[j].in.fp : j \in A}
    BY <2>1
  <2>5. {k[j].in.fp : j \in A} = {h[j].in.fp : j \in A}
    BY <2>2
  <2> QED
    BY <2>3, <2>4, <2>5
<1> QED
  BY <1>3, <1>6, <1>7, <1>8, <1>9

LEMMA FpsFinite ==
  ASSUME NEW h \in Histories
  PROVE  /\ IsFiniteSet(FpsIn(h)) /\ Cardinality(FpsIn(h)) \in Nat
         /\ \A S \in SUBSET FpsIn(h) :
              IsFiniteSet(S) /\ Cardinality(S) \in Nat /\ Cardinality(S) <= Cardinality(FpsIn(h))
<1> DEFINE D == 1..Len(h)
           g == [i \in D |-> h[i].in.fp]
<1>1. IsFiniteSet(D)
  BY FS_Interval DEF Histories
<1>2. DOMAIN h = D
  BY DEF Histories
<1>3. g \in Surjection(D, FpsIn(h))
  BY <1>2 DEF Surjection, FpsIn
<1>4. IsFiniteSet(FpsIn(h))
  BY <1>1, <1>3, FS_Surjection
<1> QED
  BY <1>4, FS_CardinalityType, FS_Subset

------------------------------------------------------------------------------
\* What a delivery makes of the row.

LEMMA RowTypes ==
  ASSUME NEW r \in Rows
  PROVE  /\ r.stamps \in Stamps /\ DOMAIN r.stamps \in SUBSET Fingerprints
         /\ \A f \in DOMAIN r.stamps : r.stamps[f] \in Times /\ r.stamps[f] \in Int
         /\ r.last_update \in Times /\ r.last_update \in Int
         /\ r.crossed \in BOOLEAN
<1>1. r.stamps \in Stamps /\ r.last_update \in Times /\ r.crossed \in BOOLEAN
  BY DEF Rows
<1>2. DOMAIN r.stamps \in SUBSET Fingerprints /\ r.stamps \in [DOMAIN r.stamps -> Times]
  BY <1>1 DEF Stamps
<1> QED
  BY <1>1, <1>2, AggregationAssumption

\* The stamps before the cut to the newest: who is kept, who is new, no one outside the window.
Uncut(r, in) ==
  [f \in IF IsCounted(r, in) THEN Retained(r, in) \cup {in.fp} ELSE Retained(r, in) |->
     IF f \in Retained(r, in) THEN r.stamps[f] ELSE in.time]

LEMMA UncutFacts ==
  ASSUME NEW r \in Rows, NEW in \in Inputs
  PROVE  /\ NextStamps(r, in) = Newest(Uncut(r, in), MaxWindowFingerprints)
         /\ DOMAIN Uncut(r, in) =
              IF IsCounted(r, in) THEN Retained(r, in) \cup {in.fp} ELSE Retained(r, in)
         /\ \A f \in DOMAIN Uncut(r, in) :
              Uncut(r, in)[f] = IF f \in Retained(r, in) THEN r.stamps[f] ELSE in.time
         /\ Uncut(r, in) \in Stamps
         /\ DOMAIN Uncut(r, in) \in SUBSET Fingerprints
         /\ \A f \in DOMAIN Uncut(r, in) : Inside(r, in, Uncut(r, in)[f])
<1> DEFINE D == IF IsCounted(r, in) THEN Retained(r, in) \cup {in.fp} ELSE Retained(r, in)
           v == Uncut(r, in)
<1>1. NextStamps(r, in) = Newest(v, MaxWindowFingerprints)
  BY DEF NextStamps, Uncut
<1>2. DOMAIN v = D /\ \A f \in D : v[f] = IF f \in Retained(r, in) THEN r.stamps[f] ELSE in.time
  BY DEF Uncut
<1>3. /\ Retained(r, in) \subseteq DOMAIN r.stamps
      /\ \A f \in Retained(r, in) : Inside(r, in, r.stamps[f])
  BY DEF Retained
<1>4. D \in SUBSET Fingerprints
  BY <1>3, RowTypes, InputTypes
<1>5. v \in [D -> Times]
  BY <1>3, RowTypes, InputTypes DEF Uncut
<1>6. v \in Stamps
  BY <1>4, <1>5 DEF Stamps
<1>7. \A f \in D : Inside(r, in, v[f])
  <2> TAKE f \in D
  <2>1. CASE f \in Retained(r, in)
    BY <1>2, <1>3, <2>1
  <2>2. CASE f \notin Retained(r, in)
    BY <1>2, <2>2 DEF IsCounted
  <2> QED
    BY <2>1, <2>2
<1> QED
  BY <1>1, <1>2, <1>4, <1>6, <1>7

LEMMA NextFacts ==
  ASSUME NEW r \in Rows, NEW in \in Inputs
  PROVE  /\ NextStamps(r, in) \in Stamps
         /\ DOMAIN NextStamps(r, in) \subseteq DOMAIN Uncut(r, in)
         /\ \A f \in DOMAIN NextStamps(r, in) : NextStamps(r, in)[f] = Uncut(r, in)[f]
<1> DEFINE u == Uncut(r, in)
           S == {g \in DOMAIN u :
                   Cardinality({h \in DOMAIN u : Newer(u, h, g)}) < MaxWindowFingerprints}
<1>1. NextStamps(r, in) = [f \in S |-> u[f]]
  BY UncutFacts DEF Newest
<1>2. u \in Stamps /\ DOMAIN u \in SUBSET Fingerprints
  BY UncutFacts
<1>3. u \in [DOMAIN u -> Times]
  BY <1>2 DEF Stamps
<1>4. S \subseteq DOMAIN u
  OBVIOUS
<1> HIDE DEF u, S
<1>5. [f \in S |-> u[f]] \in [S -> Times] /\ S \in SUBSET Fingerprints
  BY <1>2, <1>3, <1>4
<1>6. [f \in S |-> u[f]] \in Stamps
  BY <1>5 DEF Stamps
<1> QED
  BY <1>1, <1>4, <1>6 DEF u

\* With room for every stamp, the cut takes none away.
LEMMA RoomKeeps ==
  ASSUME NEW r \in Rows, NEW in \in Inputs,
         IsFiniteSet(DOMAIN Uncut(r, in)),
         Cardinality(DOMAIN Uncut(r, in)) <= MaxWindowFingerprints
  PROVE  DOMAIN NextStamps(r, in) = DOMAIN Uncut(r, in)
<1> DEFINE u == Uncut(r, in)
           Ahead(g) == {h \in DOMAIN u : Newer(u, h, g)}
<1>1. NextStamps(r, in) = [f \in {g \in DOMAIN u : Cardinality(Ahead(g)) < MaxWindowFingerprints}
                             |-> u[f]]
  BY UncutFacts DEF Newest
<1>2. \A g \in DOMAIN u : ~Newer(u, g, g)
  <2> TAKE g \in DOMAIN u
  <2>1. u[g] \in Int /\ g \in Nat
    <3>1. u \in Stamps /\ DOMAIN u \in SUBSET Fingerprints
      BY UncutFacts
    <3> HIDE DEF u
    <3>2. u \in [DOMAIN u -> Times]
      BY <3>1 DEF Stamps
    <3> QED
      BY <3>1, <3>2, AggregationAssumption
  <2> HIDE DEF u
  <2> QED
    BY <2>1 DEF Newer
<1>3. ASSUME NEW g \in DOMAIN u PROVE Cardinality(Ahead(g)) < MaxWindowFingerprints
  <2>1. Ahead(g) \in SUBSET (DOMAIN u) /\ Ahead(g) # DOMAIN u
    BY <1>2
  <2>2. IsFiniteSet(DOMAIN u) /\ Cardinality(DOMAIN u) <= MaxWindowFingerprints
    OBVIOUS
  <2> HIDE DEF u, Ahead
  <2>3. /\ Cardinality(Ahead(g)) <= Cardinality(DOMAIN u)
        /\ Cardinality(Ahead(g)) # Cardinality(DOMAIN u)
        /\ Cardinality(Ahead(g)) \in Nat /\ Cardinality(DOMAIN u) \in Nat
    BY <2>1, <2>2, FS_Subset, FS_CardinalityType
  <2> QED
    BY <2>2, <2>3, AggregationAssumption
<1> HIDE DEF u, Ahead
<1>4. {g \in DOMAIN u : Cardinality(Ahead(g)) < MaxWindowFingerprints} = DOMAIN u
  BY <1>3
<1>5. DOMAIN NextStamps(r, in) = DOMAIN u
  BY <1>1, <1>4
<1> QED
  BY <1>5 DEF u

LEMMA WindowEndFacts ==
  ASSUME NEW r \in Rows, NEW in \in Inputs
  PROVE  /\ WindowEnd(r, in) \in {r.last_update, in.time}
         /\ WindowEnd(r, in) >= r.last_update /\ WindowEnd(r, in) >= in.time
         /\ WindowEnd(r, in) \in Times /\ WindowEnd(r, in) \in Int
BY RowTypes, InputTypes DEF WindowEnd, Later

LEMMA NewIncidentFacts ==
  ASSUME NEW key \in Keys, NEW in \in Inputs
  PROVE  /\ NewIncident(key, in) \in Rows
         /\ NewIncident(key, in).last_update = in.time
         /\ NewIncident(key, in).crossed = (1 >= in.threshold)
         /\ DOMAIN NewIncident(key, in).stamps = {in.fp}
         /\ NewIncident(key, in).stamps[in.fp] = in.time
<1> DEFINE stamps == [f \in {in.fp} |-> in.time]
<1>1. stamps \in [{in.fp} -> Times] /\ {in.fp} \in SUBSET Fingerprints
  BY InputTypes
<1>2. stamps \in Stamps
  BY <1>1 DEF Stamps
<1>3. DOMAIN stamps = {in.fp} /\ stamps[in.fp] = in.time
  OBVIOUS
<1>4. NewIncident(key, in).stamps = stamps
  BY DEF NewIncident
<1>5. NewIncident(key, in) \in Rows
  <2>1. [p \in Plugins |-> "none"] \in [Plugins -> Results] /\ (1 >= in.threshold) \in BOOLEAN
    BY DEF Results
  <2> QED
    BY <1>2, <2>1, InputTypes DEF NewIncident, Rows, Statuses
<1> HIDE DEF stamps
<1> QED
  BY <1>3, <1>4, <1>5 DEF NewIncident

LEMMA ApplyProblemFacts ==
  ASSUME NEW r \in Rows, NEW in \in Inputs
  PROVE  /\ ApplyProblem(r, in) \in Rows
         /\ ApplyProblem(r, in).last_update = WindowEnd(r, in)
         /\ ApplyProblem(r, in).crossed = (r.crossed \/ WindowCrossed(r, in))
         /\ ApplyProblem(r, in).stamps = NextStamps(r, in)
<1>1. /\ NextStamps(r, in) \in Stamps /\ WindowEnd(r, in) \in Times
      /\ in.object \in Objects /\ in.seconds \in Nat \ {0}
  BY NextFacts, WindowEndFacts, InputTypes
<1>2. NextCount(r, in) \in Nat
  BY DEF NextCount, Rows
<1>3. Latched(r, in) \in BOOLEAN
  BY DEF Latched
<1> QED
  BY <1>1, <1>2, <1>3 DEF ApplyProblem, Rows, PreservedDeliveries, Latched

------------------------------------------------------------------------------
(***************************************************************************)
(* The inductive invariant.  The row's last update is the front of the     *)
(* history and every stamp is the time of a delivery, so a crossing counts *)
(* a burst.  A first delivery inside its window is counted, and what was   *)
(* counted keeps its stamp until the window leaves it, so a burst crosses  *)
(* and a replay is recognised.                                             *)
(***************************************************************************)

OneWindowIn(h) == \A i, j \in DOMAIN h : h[i].in.seconds = h[j].in.seconds
OneRuleIn(h) == OneWindowIn(h) /\ \A i, j \in DOMAIN h : h[i].in.threshold = h[j].in.threshold
Room(h) == Cardinality(FpsIn(h)) <= MaxWindowFingerprints

Fronted(r, h) ==
  /\ \A n \in DOMAIN h : Tops(h, n, FrontIn(h, n))
  /\ r.last_update = FrontIn(h, Len(h))

Sound(r, h) ==
  \A f \in DOMAIN r.stamps : \E i \in DOMAIN h : h[i].in.fp = f /\ h[i].in.time = r.stamps[f]

BurstSeen(r, h) ==
  r.crossed => \E n \in DOMAIN h : Cardinality(BurstIn(h, n)) >= h[n].in.threshold

FirstCounts(h) ==
  \A i \in DOMAIN h :
    FirstIn(h, i) /\ FrontIn(h, i) - h[i].in.seconds <= h[i].in.time => h[i].counted

Kept(r, h) ==
  OneWindowIn(h) /\ Room(h) =>
    \A i \in DOMAIN h :
      h[i].counted /\ r.last_update - h[i].in.seconds <= h[i].in.time =>
        h[i].in.fp \in DOMAIN r.stamps /\ r.stamps[h[i].in.fp] = h[i].in.time

Once(h) ==
  OneWindowIn(h) /\ Room(h) =>
    \A i, j \in DOMAIN h :
      i < j /\ h[i].in.fp = h[j].in.fp /\ h[i].counted /\ h[j].counted =>
        h[i].in.time < FrontIn(h, j) - h[j].in.seconds

\* Under one rule the marker, the size of the map and the planned notification agree.
Decided(r, h) ==
  OneRuleIn(h) =>
    IF r.crossed THEN \E i \in DOMAIN h : h[i].intent = "dispatch_planned"
    ELSE \A i \in DOMAIN h : Cardinality(DOMAIN r.stamps) < h[i].in.threshold

Crosses(r, h) ==
  OneRuleIn(h) /\ Room(h) =>
    \A n \in DOMAIN h :
      Cardinality(FreshIn(h, n)) >= h[n].in.threshold =>
        /\ r.crossed
        /\ \E i \in UptoIn(h, n) : h[i].intent = "dispatch_planned"

HistoryInv(r, h) ==
  /\ h \in Histories
  /\ r # NoRow => /\ r \in Rows /\ h # <<>>
                  /\ Fronted(r, h) /\ Sound(r, h) /\ BurstSeen(r, h) /\ FirstCounts(h)
                  /\ Kept(r, h) /\ Once(h) /\ Decided(r, h) /\ Crosses(r, h)
  /\ r = NoRow => h = <<>>

WindowInv == HistoryInv(row, history) /\ Len(history) <= MaxDeliveries

LEMMA OpenKeeps ==
  ASSUME NEW key \in Keys, NEW in \in Inputs, NEW k, NEW s,
         k = Append(<<>>, [in |-> in, counted |-> TRUE, intent |-> InsertIntent(in)]),
         s = NewIncident(key, in)
  PROVE  HistoryInv(s, k)
<1> DEFINE e == [in |-> in, counted |-> TRUE, intent |-> InsertIntent(in)]
<1>1. e \in Entries /\ <<>> \in Histories
  BY DEF Entries, Intents, InsertIntent, Histories
<1>2. k \in Histories /\ DOMAIN k = {1} /\ Len(k) = 1 /\ k[1] = e /\ k # <<>>
  BY <1>1, Appended DEF Histories
<1>3. k[1].in = in /\ k[1].counted /\ k[1].intent = InsertIntent(in)
  BY <1>2
<1>4. /\ s \in Rows /\ s.last_update = in.time /\ s.crossed = (1 >= in.threshold)
      /\ DOMAIN s.stamps = {in.fp} /\ s.stamps[in.fp] = in.time
  BY NewIncidentFacts
<1>5. /\ in.time \in Int /\ in.seconds \in Nat \ {0} /\ in.threshold \in Nat \ {0}
  BY InputTypes
<1> HIDE DEF e
<1>6. UptoIn(k, 1) = {1} /\ UptoIn(k, 0) = {}
  BY <1>2 DEF UptoIn
<1>7. Tops(k, 1, in.time)
  <2>1. k[1].in.time = in.time /\ in.time <= in.time
    BY <1>3, <1>5
  <2> QED
    BY <1>6, <2>1 DEF Tops
<1>8. FrontIn(k, 1) = in.time
  BY <1>2, <1>7, TopsIsFront
<1>9. FirstIn(k, 1)
  <2>1. 1 - 1 = 0
    OBVIOUS
  <2> QED
    BY <1>6, <2>1 DEF FirstIn
<1>10. BurstIn(k, 1) = {in.fp} /\ FreshIn(k, 1) = {in.fp}
  <2>1. /\ in.time - in.seconds <= in.time /\ in.time <= in.time
        /\ k[1].in.time = in.time /\ k[1].in.seconds = in.seconds /\ k[1].in.fp = in.fp
    BY <1>3, <1>5
  <2>2. BurstIn(k, 1) = {in.fp}
    BY <2>1, <1>6, <1>8, ZenonT(30) DEF BurstIn
  <2>3. FreshIn(k, 1) = {in.fp}
    BY <2>1, <1>6, <1>8, <1>9 DEF FreshIn
  <2> QED
    BY <2>2, <2>3
<1>11. Cardinality({in.fp}) = 1
  BY FS_Singleton
<1>12. Fronted(s, k)
  BY <1>2, <1>4, <1>7, <1>8 DEF Fronted
<1>13. Sound(s, k) /\ FirstCounts(k) /\ Kept(s, k)
  BY <1>2, <1>3, <1>4, SMTT(20) DEF Sound, FirstCounts, Kept
<1>14. Once(k)
  BY <1>2 DEF Once
<1>15. BurstSeen(s, k)
  BY <1>2, <1>3, <1>4, <1>10, <1>11, ZenonT(30) DEF BurstSeen
<1>16. Decided(s, k)
  <2>1. CASE 1 >= in.threshold
    <3>1. k[1].intent = "dispatch_planned" /\ s.crossed
      BY <2>1, <1>3, <1>4 DEF InsertIntent
    <3> QED
      BY <3>1, <1>2 DEF Decided
  <2>2. CASE ~(1 >= in.threshold)
    <3>1. Cardinality(DOMAIN s.stamps) = 1 /\ k[1].in.threshold = in.threshold
      <4>1. DOMAIN s.stamps = {in.fp}
        BY <1>4
      <4> QED
        BY <4>1, <1>3, <1>11
    <3>2. 1 < in.threshold
      BY <2>2, <1>5
    <3>3. ~s.crossed
      BY <2>2, <1>4
    <3> QED
      BY <3>1, <3>2, <3>3, <1>2 DEF Decided
  <2> QED
    BY <2>1, <2>2
<1>17. Crosses(s, k)
  <2>1. Cardinality(FreshIn(k, 1)) = 1 /\ k[1].in.threshold = in.threshold
    BY <1>3, <1>10, <1>11
  <2>2. ASSUME 1 >= in.threshold
        PROVE  s.crossed /\ \E i \in UptoIn(k, 1) : k[i].intent = "dispatch_planned"
    <3>1. s.crossed /\ k[1].intent = "dispatch_planned"
      BY <1>3, <1>4, <2>2 DEF InsertIntent
    <3>2. 1 \in UptoIn(k, 1)
      BY <1>6
    <3> QED
      BY <3>1, <3>2
  <2>3. ASSUME NEW n \in DOMAIN k, Cardinality(FreshIn(k, n)) >= k[n].in.threshold
        PROVE  s.crossed /\ \E i \in UptoIn(k, n) : k[i].intent = "dispatch_planned"
    <3>1. n = 1
      BY <1>2
    <3> QED
      BY <2>1, <2>2, <2>3, <3>1
  <2> QED
    BY <2>3 DEF Crosses
<1> QED
  BY <1>2, <1>4, <1>12, <1>13, <1>14, <1>15, <1>16, <1>17, NoRowAssumption DEF HistoryInv

------------------------------------------------------------------------------
\* The index of the delivery that a merge appends to h.
Latest(h) == Len(h) + 1

\* The step of a merge, from the row r and the history h to s and k, as the lemmas use it.
Merging(r, h, in, s, k) ==
  /\ HistoryInv(r, h) /\ r \in Rows /\ in \in Inputs
  /\ h \in Histories /\ k \in Histories /\ k # <<>> /\ h # <<>>
  /\ k = Append(h, [in |-> in, counted |-> IsCounted(r, in), intent |-> UpdateIntent(r, in)])
  /\ Latest(h) \in Nat \ {0} /\ Len(k) = Latest(h) /\ Latest(h) \notin DOMAIN h
  /\ DOMAIN k = DOMAIN h \cup {Latest(h)} /\ UptoIn(k, Latest(h)) = DOMAIN k
  /\ \A i \in DOMAIN h : i < Latest(h) /\ i \in Nat \ {0} /\ k[i] = h[i]
  /\ UptoIn(k, Latest(h) - 1) = DOMAIN h
  /\ k[Latest(h)].in = in
  /\ k[Latest(h)].counted <=> IsCounted(r, in)
  /\ k[Latest(h)].intent = UpdateIntent(r, in)
  /\ s \in Rows /\ s.stamps = NextStamps(r, in) /\ s.last_update = WindowEnd(r, in)
  /\ s.crossed <=> r.crossed \/ WindowCrossed(r, in)

LEMMA MergeFacts ==
  ASSUME NEW r, NEW h, NEW in \in Inputs, NEW s, NEW k, HistoryInv(r, h), r # NoRow,
         s = ApplyProblem(r, in),
         k = Append(h, [in |-> in, counted |-> IsCounted(r, in), intent |-> UpdateIntent(r, in)])
  PROVE  Merging(r, h, in, s, k)
<1> DEFINE e == [in |-> in, counted |-> IsCounted(r, in), intent |-> UpdateIntent(r, in)]
           n == Latest(h)
<1>1. h \in Histories /\ e \in Entries /\ k = Append(h, e)
  <2>1. IsCounted(r, in) \in BOOLEAN
    BY DEF IsCounted, Inside
  <2> QED
    BY <2>1 DEF HistoryInv, Entries, Intents, UpdateIntent
<1>2. r \in Rows /\ h # <<>>
  BY DEF HistoryInv
<1>3. e.in = in /\ (e.counted <=> IsCounted(r, in)) /\ e.intent = UpdateIntent(r, in)
  OBVIOUS
<1> HIDE DEF e
<1>4. /\ k \in Histories
      /\ Len(h) \in Nat /\ Len(k) = Len(h) + 1
      /\ DOMAIN h = 1..Len(h) /\ DOMAIN k = 1..(Len(h) + 1)
      /\ \A i \in DOMAIN h : i \in DOMAIN k /\ k[i] = h[i]
      /\ Len(h) + 1 \in DOMAIN k /\ k[Len(h) + 1] = e
  BY <1>1 DEF Histories
<1>5. n = Len(h) + 1 /\ n - 1 = Len(h)
  BY <1>4 DEF Latest
<1> HIDE DEF n
<1>6. UptoIn(k, n) = DOMAIN k /\ UptoIn(k, Len(h)) = DOMAIN h
  BY <1>4, <1>5 DEF UptoIn
<1>7. DOMAIN k = DOMAIN h \cup {n} /\ n \notin DOMAIN h /\ k # <<>>
  BY <1>4, <1>5
<1>8. /\ s \in Rows /\ s.stamps = NextStamps(r, in) /\ s.last_update = WindowEnd(r, in)
      /\ s.crossed <=> r.crossed \/ WindowCrossed(r, in)
  BY <1>2, ApplyProblemFacts
<1>9. \A i \in DOMAIN h : i < n /\ i \in Nat \ {0} /\ k[i] = h[i]
  BY <1>4, <1>5
<1>10. n \in Nat \ {0} /\ Len(k) = n /\ UptoIn(k, n - 1) = DOMAIN h
  BY <1>4, <1>5, <1>6
<1>11. k[n].in = in /\ (k[n].counted <=> IsCounted(r, in)) /\ k[n].intent = UpdateIntent(r, in)
  BY <1>3, <1>4, <1>5
<1> QED
  BY <1>1, <1>2, <1>4, <1>6, <1>7, <1>8, <1>9, <1>10, <1>11 DEF n, Merging, e

LEMMA MergeViews ==
  ASSUME NEW r, NEW h, NEW in, NEW s, NEW k, Merging(r, h, in, s, k),
         NEW i \in DOMAIN h
  PROVE  /\ UptoIn(k, i) = UptoIn(h, i) /\ FrontIn(k, i) = FrontIn(h, i)
         /\ BurstIn(k, i) = BurstIn(h, i) /\ FreshIn(k, i) = FreshIn(h, i)
         /\ FirstIn(k, i) <=> FirstIn(h, i)
<1> DEFINE e == [in |-> in, counted |-> IsCounted(r, in), intent |-> UpdateIntent(r, in)]
<1>1. h \in Histories /\ e \in Entries /\ k = Append(h, e)
  <2>1. IsCounted(r, in) \in BOOLEAN
    BY DEF IsCounted, Inside
  <2> QED
    BY <2>1 DEF Merging, Entries, Intents, UpdateIntent
<1> HIDE DEF e
<1> QED
  BY <1>1, Extends

\* The newest event time of a history is the row's last update.
LEMMA MergeTop ==
  ASSUME NEW r, NEW h, NEW in, NEW s, NEW k, Merging(r, h, in, s, k)
  PROVE  /\ Fronted(s, k) /\ FrontIn(k, Latest(h)) = WindowEnd(r, in)
         /\ \A i \in DOMAIN k : FrontIn(k, i) \in Int /\ FrontIn(k, i) <= WindowEnd(r, in)
         /\ \A i \in DOMAIN h : h[i].in.time <= r.last_update
<1> DEFINE n == Latest(h)
           m == Len(h)
<1>1. in \in Inputs /\ r \in Rows /\ h \in Histories /\ h # <<>> /\ Fronted(r, h)
  BY NoRowAssumption DEF Merging, HistoryInv
<1>2. m \in DOMAIN h /\ UptoIn(h, m) = DOMAIN h
  <2>1. Len(h) \in Nat \ {0} /\ DOMAIN h = 1..Len(h)
    BY <1>1 DEF Histories
  <2> QED
    BY <2>1 DEF UptoIn
<1>3. /\ \E i \in DOMAIN h : h[i].in.time = r.last_update
      /\ \A i \in DOMAIN h : h[i].in.time <= r.last_update
  BY <1>1, <1>2 DEF Fronted, Tops
<1>4. /\ WindowEnd(r, in) \in {r.last_update, in.time} /\ WindowEnd(r, in) \in Int
      /\ WindowEnd(r, in) >= r.last_update /\ WindowEnd(r, in) >= in.time
      /\ r.last_update \in Int /\ in.time \in Int
  BY <1>1, WindowEndFacts, RowTypes, InputTypes
<1>5. /\ DOMAIN k = DOMAIN h \cup {n} /\ UptoIn(k, n) = DOMAIN k /\ k[n].in = in
      /\ k \in Histories /\ Len(k) = n /\ s.last_update = WindowEnd(r, in)
      /\ \A i \in DOMAIN h : k[i] = h[i]
  BY DEF Merging
<1>6. \A i \in DOMAIN h : h[i].in.time \in Int
  BY <1>1, EntryTypes
<1>7. Tops(k, n, WindowEnd(r, in))
  <2>1. \E i \in DOMAIN k : k[i].in.time = WindowEnd(r, in)
    BY <1>3, <1>4, <1>5
  <2>2. \A i \in DOMAIN k : k[i].in.time <= WindowEnd(r, in)
    BY <1>3, <1>4, <1>5, <1>6
  <2> QED
    BY <2>1, <2>2, <1>5 DEF Tops
<1>8. FrontIn(k, n) = WindowEnd(r, in)
  BY <1>5, <1>7, TopsIsFront
<1>9. \A i \in DOMAIN h : Tops(k, i, FrontIn(k, i))
  <2> TAKE i \in DOMAIN h
  <2>1. Tops(h, i, FrontIn(h, i)) /\ UptoIn(k, i) = UptoIn(h, i) /\ FrontIn(k, i) = FrontIn(h, i)
    BY <1>1, MergeViews DEF Fronted
  <2>2. \A j \in UptoIn(h, i) : k[j] = h[j]
    BY <1>5 DEF UptoIn
  <2> QED
    BY <2>1, <2>2 DEF Tops
<1>10. Fronted(s, k)
  BY <1>5, <1>7, <1>8, <1>9 DEF Fronted
<1>11. ASSUME NEW i \in DOMAIN k
       PROVE  FrontIn(k, i) \in Int /\ FrontIn(k, i) <= WindowEnd(r, in)
  <2>1. PICK j \in UptoIn(k, i) : k[j].in.time = FrontIn(k, i)
    BY <1>10 DEF Fronted, Tops
  <2>2. j \in DOMAIN k
    BY DEF UptoIn
  <2>3. k[j].in.time \in Int /\ k[j].in.time <= WindowEnd(r, in)
    BY <2>2, <1>5, <1>7, EntryTypes DEF Tops
  <2> QED
    BY <2>1, <2>3
<1> QED
  BY <1>3, <1>8, <1>10, <1>11

\* A stamp is the time of a delivery.
LEMMA MergeSound ==
  ASSUME NEW r, NEW h, NEW in, NEW s, NEW k, Merging(r, h, in, s, k)
  PROVE  Sound(s, k)
<1> DEFINE n == Latest(h)
<1>1. in \in Inputs /\ r \in Rows /\ Sound(r, h)
  BY NoRowAssumption DEF Merging, HistoryInv
<1>2. /\ DOMAIN k = DOMAIN h \cup {n} /\ k[n].in = in
      /\ \A i \in DOMAIN h : k[i] = h[i]
      /\ s.stamps = NextStamps(r, in)
  BY DEF Merging
<1> SUFFICES ASSUME NEW f \in DOMAIN NextStamps(r, in)
             PROVE  \E i \in DOMAIN k : k[i].in.fp = f /\ k[i].in.time = NextStamps(r, in)[f]
  BY <1>2 DEF Sound
<1> HIDE DEF n
<1>3. f \in DOMAIN Uncut(r, in) /\ NextStamps(r, in)[f] = Uncut(r, in)[f]
  BY <1>1, NextFacts
<1>4. CASE f \in Retained(r, in)
  <2>1. f \in DOMAIN r.stamps /\ Uncut(r, in)[f] = r.stamps[f]
    BY <1>1, <1>3, <1>4, UncutFacts DEF Retained
  <2>2. PICK i \in DOMAIN h : h[i].in.fp = f /\ h[i].in.time = r.stamps[f]
    BY <1>1, <2>1 DEF Sound
  <2> QED
    BY <1>2, <1>3, <2>1, <2>2
<1>5. CASE f \notin Retained(r, in)
  <2>1. DOMAIN Uncut(r, in) \subseteq Retained(r, in) \cup {in.fp}
    BY <1>1, UncutFacts
  <2>2. f = in.fp
    BY <1>3, <1>5, <2>1
  <2>3. Uncut(r, in)[f] = in.time
    BY <1>1, <1>3, <1>5, UncutFacts
  <2> QED
    BY <1>2, <1>3, <2>2, <2>3
<1> QED
  BY <1>4, <1>5

LEMMA StampsAreSeen ==
  ASSUME NEW r, NEW h \in Histories, Sound(r, h)
  PROVE  /\ DOMAIN r.stamps \in SUBSET FpsIn(h)
         /\ IsFiniteSet(DOMAIN r.stamps) /\ Cardinality(DOMAIN r.stamps) \in Nat
<1>1. DOMAIN r.stamps \in SUBSET FpsIn(h)
  BY DEF Sound, FpsIn
<1> QED
  BY <1>1, FpsFinite

\* A crossing completes a burst.
LEMMA MergeBurst ==
  ASSUME NEW r, NEW h, NEW in, NEW s, NEW k, Merging(r, h, in, s, k)
  PROVE  BurstSeen(s, k)
<1> DEFINE n == Latest(h)
           D == DOMAIN NextStamps(r, in)
<1>1. in \in Inputs /\ r \in Rows /\ BurstSeen(r, h)
  BY NoRowAssumption DEF Merging, HistoryInv
<1>2. /\ DOMAIN k = DOMAIN h \cup {n} /\ k[n].in = in /\ k \in Histories
      /\ UptoIn(k, n) = DOMAIN k
      /\ \A i \in DOMAIN h : k[i] = h[i]
      /\ s.stamps = NextStamps(r, in)
      /\ s.crossed <=> r.crossed \/ WindowCrossed(r, in)
  BY DEF Merging
<1>3. FrontIn(k, n) = WindowEnd(r, in)
  BY MergeTop
<1> HIDE DEF n
<1>4. CASE r.crossed
  <2>1. PICK i \in DOMAIN h : Cardinality(BurstIn(h, i)) >= h[i].in.threshold
    BY <1>1, <1>4 DEF BurstSeen
  <2>2. Cardinality(BurstIn(k, i)) >= k[i].in.threshold
    BY <1>2, <2>1, MergeViews
  <2> QED
    BY <1>2, <2>2 DEF BurstSeen
<1>5. CASE WindowCrossed(r, in)
  <2>1. Cardinality(D) >= in.threshold
    BY <1>5 DEF WindowCrossed
  <2>2. ASSUME NEW f \in D PROVE f \in BurstIn(k, n)
    <3>1. Inside(r, in, s.stamps[f])
      <4>1. f \in DOMAIN Uncut(r, in) /\ s.stamps[f] = Uncut(r, in)[f]
        BY <1>1, <1>2, NextFacts
      <4>2. Inside(r, in, Uncut(r, in)[f])
        BY <1>1, <4>1, UncutFacts
      <4> QED
        BY <4>1, <4>2
    <3>2. PICK i \in DOMAIN k : k[i].in.fp = f /\ k[i].in.time = s.stamps[f]
      BY <1>2, MergeSound DEF Sound
    <3>3. /\ FrontIn(k, n) - k[n].in.seconds <= k[i].in.time
          /\ k[i].in.time <= FrontIn(k, n)
      BY <1>2, <1>3, <3>1, <3>2 DEF Inside, WindowStart
    <3> QED
      BY <1>2, <3>2, <3>3 DEF BurstIn
  <2>3. BurstIn(k, n) \in SUBSET FpsIn(k)
    BY DEF BurstIn, FpsIn, UptoIn
  <2>4. IsFiniteSet(BurstIn(k, n)) /\ Cardinality(BurstIn(k, n)) \in Nat
    BY <1>2, <2>3, FpsFinite
  <2>5. D \in SUBSET BurstIn(k, n)
    BY <2>2
  <2> HIDE DEF D
  <2>6. Cardinality(D) <= Cardinality(BurstIn(k, n)) /\ Cardinality(D) \in Nat
    BY <2>4, <2>5, FS_Subset, FS_CardinalityType
  <2>7. Cardinality(BurstIn(k, n)) >= k[n].in.threshold
    BY <1>1, <1>2, <2>1, <2>4, <2>6, InputTypes
  <2> QED
    BY <1>2, <2>7 DEF BurstSeen
<1> QED
  BY <1>2, <1>4, <1>5 DEF BurstSeen

\* A first delivery inside its window is counted.
LEMMA MergeFirst ==
  ASSUME NEW r, NEW h, NEW in, NEW s, NEW k, Merging(r, h, in, s, k)
  PROVE  FirstCounts(k)
<1> DEFINE n == Latest(h)
<1>1. in \in Inputs /\ r \in Rows /\ FirstCounts(h) /\ Sound(r, h)
  BY NoRowAssumption DEF Merging, HistoryInv
<1>2. /\ DOMAIN k = DOMAIN h \cup {n} /\ k[n].in = in /\ (k[n].counted <=> IsCounted(r, in))
      /\ UptoIn(k, n - 1) = DOMAIN h
      /\ \A i \in DOMAIN h : k[i] = h[i]
  BY DEF Merging
<1>3. FrontIn(k, n) = WindowEnd(r, in)
  BY MergeTop
<1> HIDE DEF n
<1>4. ASSUME NEW i \in DOMAIN h,
             FirstIn(k, i), FrontIn(k, i) - k[i].in.seconds <= k[i].in.time
      PROVE  k[i].counted
  BY <1>1, <1>2, <1>4, MergeViews DEF FirstCounts
<1>5. ASSUME FirstIn(k, n), FrontIn(k, n) - k[n].in.seconds <= k[n].in.time
      PROVE  k[n].counted
  <2>1. \A j \in DOMAIN h : h[j].in.fp # in.fp
    BY <1>2, <1>5 DEF FirstIn
  <2>2. in.fp \notin Retained(r, in)
    BY <1>1, <2>1 DEF Sound, Retained
  <2>3. Inside(r, in, in.time)
    BY <1>1, <1>2, <1>3, <1>5, WindowEndFacts, InputTypes DEF Inside, WindowStart
  <2> QED
    BY <1>2, <2>2, <2>3 DEF IsCounted, IsReplay
<1> QED
  BY <1>2, <1>4, <1>5 DEF FirstCounts

\* What one window, one rule and room for every fingerprint say before the merge too.
LEMMA MergeScope ==
  ASSUME NEW r, NEW h, NEW in, NEW s, NEW k, Merging(r, h, in, s, k)
  PROVE  /\ OneWindowIn(k) => OneWindowIn(h) /\ \A i \in DOMAIN k : k[i].in.seconds = in.seconds
         /\ OneRuleIn(k) => /\ OneRuleIn(h)
                            /\ \A i \in DOMAIN k : k[i].in.threshold = in.threshold
         /\ Room(k) => Room(h) /\ DOMAIN s.stamps = DOMAIN Uncut(r, in)
<1> DEFINE n == Latest(h)
           U == DOMAIN Uncut(r, in)
<1>1. /\ DOMAIN k = DOMAIN h \cup {n} /\ k[n].in = in /\ h \in Histories /\ k \in Histories
      /\ \A i \in DOMAIN h : k[i] = h[i]
      /\ in \in Inputs /\ r \in Rows /\ s.stamps = NextStamps(r, in)
  BY DEF Merging
<1>2. Sound(r, h)
  BY NoRowAssumption DEF Merging, HistoryInv
<1> HIDE DEF n
<1>3. OneWindowIn(k) => OneWindowIn(h) /\ \A i \in DOMAIN k : k[i].in.seconds = in.seconds
  BY <1>1 DEF OneWindowIn
<1>4. OneRuleIn(k) => OneRuleIn(h) /\ \A i \in DOMAIN k : k[i].in.threshold = in.threshold
  BY <1>1, <1>3 DEF OneRuleIn
<1>5. FpsIn(h) \in SUBSET FpsIn(k) /\ in.fp \in FpsIn(k)
  BY <1>1 DEF FpsIn
<1>6. /\ IsFiniteSet(FpsIn(k)) /\ Cardinality(FpsIn(k)) \in Nat /\ Cardinality(FpsIn(h)) \in Nat
      /\ Cardinality(FpsIn(h)) <= Cardinality(FpsIn(k))
  BY <1>1, <1>5, FpsFinite
<1>7. U \in SUBSET FpsIn(k)
  <2>1. U \subseteq Retained(r, in) \cup {in.fp}
    BY <1>1, UncutFacts
  <2>2. Retained(r, in) \subseteq DOMAIN r.stamps
    BY DEF Retained
  <2>3. DOMAIN r.stamps \in SUBSET FpsIn(h)
    BY <1>1, <1>2, StampsAreSeen
  <2> QED
    BY <1>5, <2>1, <2>2, <2>3
<1>8. IsFiniteSet(U) /\ Cardinality(U) \in Nat /\ Cardinality(U) <= Cardinality(FpsIn(k))
  BY <1>1, <1>7, FpsFinite
<1>9. ASSUME Room(k) PROVE Room(h) /\ DOMAIN s.stamps = U
  <2>1. Cardinality(FpsIn(k)) <= MaxWindowFingerprints /\ MaxWindowFingerprints \in Nat
    BY <1>9, AggregationAssumption DEF Room
  <2>2. Room(h)
    BY <1>6, <2>1 DEF Room
  <2>3. Cardinality(U) <= MaxWindowFingerprints
    BY <1>6, <1>8, <2>1
  <2> QED
    BY <1>1, <1>8, <2>2, <2>3, RoomKeeps
<1> QED
  BY <1>3, <1>4, <1>9

\* What was counted and is still inside the window is recognised.
LEMMA MergeRetains ==
  ASSUME NEW r, NEW h, NEW in, NEW s, NEW k, Merging(r, h, in, s, k),
         OneWindowIn(k), Room(k), NEW i \in DOMAIN h, h[i].counted,
         WindowEnd(r, in) - in.seconds <= h[i].in.time
  PROVE  /\ h[i].in.fp \in DOMAIN r.stamps /\ r.stamps[h[i].in.fp] = h[i].in.time
         /\ h[i].in.fp \in Retained(r, in)
<1>1. in \in Inputs /\ r \in Rows /\ h \in Histories /\ Kept(r, h)
  BY NoRowAssumption DEF Merging, HistoryInv
<1>2. OneWindowIn(h) /\ Room(h)
  BY MergeScope
<1>3. h[i].in.seconds = in.seconds
  <2>1. i \in DOMAIN k /\ k[i] = h[i]
    BY DEF Merging
  <2> QED
    BY <2>1, MergeScope
<1>4. /\ WindowEnd(r, in) \in Int /\ WindowEnd(r, in) >= r.last_update
      /\ r.last_update \in Int /\ in.seconds \in Nat /\ h[i].in.time \in Int
  BY <1>1, WindowEndFacts, RowTypes, InputTypes, EntryTypes
<1>5. r.last_update - h[i].in.seconds <= h[i].in.time
  BY <1>3, <1>4
<1>6. h[i].in.fp \in DOMAIN r.stamps /\ r.stamps[h[i].in.fp] = h[i].in.time
  BY <1>1, <1>2, <1>5 DEF Kept
<1>7. h[i].in.time <= r.last_update
  BY MergeTop
<1>8. Inside(r, in, h[i].in.time)
  BY <1>4, <1>7 DEF Inside, WindowStart
<1> QED
  BY <1>6, <1>8 DEF Retained

LEMMA MergeKept ==
  ASSUME NEW r, NEW h, NEW in, NEW s, NEW k, Merging(r, h, in, s, k)
  PROVE  Kept(s, k)
<1> DEFINE n == Latest(h)
<1> SUFFICES ASSUME OneWindowIn(k), Room(k), NEW i \in DOMAIN k, k[i].counted,
                    s.last_update - k[i].in.seconds <= k[i].in.time
             PROVE  k[i].in.fp \in DOMAIN s.stamps /\ s.stamps[k[i].in.fp] = k[i].in.time
  BY DEF Kept
<1>1. /\ DOMAIN k = DOMAIN h \cup {n} /\ k[n].in = in /\ (k[n].counted <=> IsCounted(r, in))
      /\ \A j \in DOMAIN h : k[j] = h[j]
      /\ in \in Inputs /\ r \in Rows
      /\ s.stamps = NextStamps(r, in) /\ s.last_update = WindowEnd(r, in)
  BY DEF Merging
<1>2. DOMAIN s.stamps = DOMAIN Uncut(r, in) /\ k[i].in.seconds = in.seconds
  BY MergeScope
<1> HIDE DEF n
<1>3. \A f \in DOMAIN s.stamps :
        s.stamps[f] = IF f \in Retained(r, in) THEN r.stamps[f] ELSE in.time
  <2> TAKE f \in DOMAIN s.stamps
  <2>1. s.stamps[f] = Uncut(r, in)[f]
    BY <1>1, NextFacts
  <2>2. f \in DOMAIN Uncut(r, in)
    BY <1>2
  <2>3. Uncut(r, in)[f] = IF f \in Retained(r, in) THEN r.stamps[f] ELSE in.time
    <3>1. r \in Rows /\ in \in Inputs
      BY <1>1
    <3>2. \A g \in DOMAIN Uncut(r, in) :
            Uncut(r, in)[g] = IF g \in Retained(r, in) THEN r.stamps[g] ELSE in.time
      BY <3>1, UncutFacts
    <3> QED
      BY <2>2, <3>2
  <2> QED
    BY <2>1, <2>3
<1>4. Retained(r, in) \subseteq DOMAIN s.stamps
  <2>1. DOMAIN Uncut(r, in) \in {Retained(r, in) \cup {in.fp}, Retained(r, in)}
    BY <1>1, UncutFacts
  <2> QED
    BY <1>2, <2>1
<1>5. CASE i \in DOMAIN h
  <2>1. k[i] = h[i]
    BY <1>1, <1>5
  <2>2. h[i].counted /\ WindowEnd(r, in) - in.seconds <= h[i].in.time
    BY <1>1, <1>2, <2>1
  <2>3. h[i].in.fp \in Retained(r, in) /\ r.stamps[h[i].in.fp] = h[i].in.time
    BY <1>5, <2>2, MergeRetains
  <2> QED
    BY <1>3, <1>4, <2>1, <2>3
<1>6. CASE i = n
  <2>1. IsCounted(r, in) /\ k[i].in = in
    BY <1>1, <1>6
  <2>2. in.fp \notin Retained(r, in)
    BY <2>1 DEF IsCounted, IsReplay
  <2>3. in.fp \in DOMAIN s.stamps
    BY <1>1, <1>2, <2>1, UncutFacts
  <2> QED
    BY <1>3, <2>1, <2>2, <2>3
<1> QED
  BY <1>1, <1>5, <1>6

\* A second delivery that is counted comes after the first has left its window.
LEMMA MergeOnce ==
  ASSUME NEW r, NEW h, NEW in, NEW s, NEW k, Merging(r, h, in, s, k)
  PROVE  Once(k)
<1> DEFINE n == Latest(h)
<1> SUFFICES ASSUME OneWindowIn(k), Room(k), NEW i \in DOMAIN k, NEW j \in DOMAIN k,
                    i < j, k[i].in.fp = k[j].in.fp, k[i].counted, k[j].counted
             PROVE  k[i].in.time < FrontIn(k, j) - k[j].in.seconds
  BY DEF Once
<1>1. /\ DOMAIN k = DOMAIN h \cup {n} /\ k[n].in = in /\ (k[n].counted <=> IsCounted(r, in))
      /\ \A m \in DOMAIN h : k[m] = h[m] /\ m < n /\ m \in Nat
      /\ n \in Nat /\ n \notin DOMAIN h
      /\ in \in Inputs /\ r \in Rows /\ h \in Histories
  BY DEF Merging
<1>2. FrontIn(k, n) = WindowEnd(r, in)
  BY MergeTop
<1>3. OneWindowIn(h) /\ Room(h)
  BY MergeScope
<1>4. Once(h)
  BY NoRowAssumption DEF Merging, HistoryInv
<1> HIDE DEF n
<1>5. CASE j \in DOMAIN h
  <2>1. i \in DOMAIN h
    BY <1>1, <1>5
  <2>2. k[i] = h[i] /\ k[j] = h[j]
    BY <1>1, <1>5, <2>1
  <2>3. FrontIn(k, j) = FrontIn(h, j)
    BY <1>5, MergeViews
  <2>4. h[i].in.time < FrontIn(h, j) - h[j].in.seconds
    BY <1>3, <1>4, <1>5, <2>1, <2>2 DEF Once
  <2> QED
    BY <2>2, <2>3, <2>4
<1>6. CASE j = n
  <2>1. i \in DOMAIN h
    BY <1>1, <1>6
  <2>2. k[i] = h[i] /\ k[j].in = in /\ IsCounted(r, in)
    BY <1>1, <1>6, <2>1
  <2>3. h[i].in.fp \notin Retained(r, in)
    BY <2>2 DEF IsCounted, IsReplay
  <2>4. ~(WindowEnd(r, in) - in.seconds <= h[i].in.time)
    BY <2>1, <2>2, <2>3, MergeRetains
  <2>5. WindowEnd(r, in) \in Int /\ in.seconds \in Nat /\ h[i].in.time \in Int
    BY <1>1, <2>1, WindowEndFacts, InputTypes, EntryTypes
  <2>6. h[i].in.time < WindowEnd(r, in) - in.seconds
    BY <2>4, <2>5
  <2> QED
    BY <1>2, <1>6, <2>2, <2>6
<1> QED
  BY <1>1, <1>5, <1>6

\* Under one rule: a delivery that takes the map over the threshold is no replay, so it
\* plans the notification.
LEMMA MergeDecided ==
  ASSUME NEW r, NEW h, NEW in, NEW s, NEW k, Merging(r, h, in, s, k)
  PROVE  Decided(s, k)
<1> DEFINE n == Latest(h)
           D == DOMAIN NextStamps(r, in)
<1> SUFFICES ASSUME OneRuleIn(k)
             PROVE  IF s.crossed THEN \E i \in DOMAIN k : k[i].intent = "dispatch_planned"
                    ELSE \A i \in DOMAIN k : Cardinality(DOMAIN s.stamps) < k[i].in.threshold
  BY DEF Decided
<1>1. /\ DOMAIN k = DOMAIN h \cup {n} /\ k[n].in = in /\ k[n].intent = UpdateIntent(r, in)
      /\ \A j \in DOMAIN h : k[j] = h[j]
      /\ in \in Inputs /\ r \in Rows /\ h \in Histories /\ k \in Histories /\ h # <<>>
      /\ s.stamps = NextStamps(r, in) /\ (s.crossed <=> r.crossed \/ WindowCrossed(r, in))
  BY DEF Merging
<1>2. Decided(r, h) /\ Sound(r, h)
  BY NoRowAssumption DEF Merging, HistoryInv
<1>3. OneRuleIn(h) /\ \A i \in DOMAIN k : k[i].in.threshold = in.threshold
  BY MergeScope
<1>4. in.threshold \in Nat /\ Cardinality(DOMAIN s.stamps) \in Nat
  BY <1>1, InputTypes, MergeSound, StampsAreSeen
<1> HIDE DEF n
<1>5. CASE r.crossed
  <2>1. PICK i \in DOMAIN h : h[i].intent = "dispatch_planned"
    BY <1>2, <1>3, <1>5 DEF Decided
  <2>2. i \in DOMAIN k /\ k[i].intent = "dispatch_planned"
    BY <1>1, <2>1
  <2>3. s.crossed
    BY <1>1, <1>5
  <2> QED
    BY <2>2, <2>3
<1>6. CASE ~r.crossed /\ WindowCrossed(r, in)
  <2>1. ~IsReplay(r, in)
    <3> SUFFICES ASSUME IsReplay(r, in) PROVE FALSE
      OBVIOUS
    <3>1. DOMAIN Uncut(r, in) = Retained(r, in)
      BY <1>1, UncutFacts DEF IsCounted
    <3>2. D \in SUBSET (DOMAIN r.stamps)
      BY <1>1, <3>1, NextFacts DEF Retained
    <3>3. IsFiniteSet(DOMAIN r.stamps) /\ Cardinality(DOMAIN r.stamps) \in Nat
      BY <1>1, <1>2, StampsAreSeen
    <3>4. PICK i \in DOMAIN h : TRUE
      BY <1>1 DEF Histories
    <3>5. Cardinality(DOMAIN r.stamps) < in.threshold
      <4>1. Cardinality(DOMAIN r.stamps) < h[i].in.threshold
        BY <1>2, <1>3, <1>6 DEF Decided
      <4>2. h[i].in.threshold = in.threshold
        <5>1. i \in DOMAIN k /\ k[i] = h[i]
          BY <1>1
        <5> QED
          BY <1>3, <5>1
      <4> QED
        BY <4>1, <4>2
    <3>6. Cardinality(D) >= in.threshold
      BY <1>6 DEF WindowCrossed
    <3> HIDE DEF D
    <3>7. Cardinality(D) <= Cardinality(DOMAIN r.stamps) /\ Cardinality(D) \in Nat
      BY <3>2, <3>3, FS_Subset, FS_CardinalityType
    <3> QED
      BY <1>4, <3>3, <3>5, <3>6, <3>7
  <2>2. k[n].intent = "dispatch_planned"
    BY <1>1, <1>6, <2>1 DEF UpdateIntent, FirstTransition
  <2>3. s.crossed /\ n \in DOMAIN k
    BY <1>1, <1>6
  <2> QED
    BY <2>2, <2>3
<1>7. CASE ~r.crossed /\ ~WindowCrossed(r, in)
  <2>1. ~s.crossed
    BY <1>1, <1>7
  <2>2. Cardinality(DOMAIN s.stamps) < in.threshold
    BY <1>1, <1>4, <1>7 DEF WindowCrossed
  <2> QED
    BY <1>3, <2>1, <2>2
<1> QED
  BY <1>5, <1>6, <1>7

\* A burst of first deliveries is in the map, so it crosses.
LEMMA MergeCrosses ==
  ASSUME NEW r, NEW h, NEW in, NEW s, NEW k, Merging(r, h, in, s, k)
  PROVE  Crosses(s, k)
<1> DEFINE n == Latest(h)
<1> SUFFICES ASSUME OneRuleIn(k), Room(k), NEW m \in DOMAIN k,
                    Cardinality(FreshIn(k, m)) >= k[m].in.threshold
             PROVE  s.crossed /\ \E i \in UptoIn(k, m) : k[i].intent = "dispatch_planned"
  BY DEF Crosses
<1>1. /\ DOMAIN k = DOMAIN h \cup {n} /\ k[n].in = in /\ UptoIn(k, n) = DOMAIN k
      /\ \A j \in DOMAIN h : k[j] = h[j]
      /\ in \in Inputs /\ r \in Rows /\ h \in Histories /\ k \in Histories
      /\ s.last_update = WindowEnd(r, in) /\ (s.crossed <=> r.crossed \/ WindowCrossed(r, in))
  BY DEF Merging
<1>2. Crosses(r, h)
  BY NoRowAssumption DEF Merging, HistoryInv
<1>3. /\ OneRuleIn(h) /\ Room(h) /\ OneWindowIn(k)
      /\ \A i \in DOMAIN k : k[i].in.threshold = in.threshold
      /\ \A i \in DOMAIN k : k[i].in.seconds = in.seconds
  <2>1. OneWindowIn(k)
    BY DEF OneRuleIn
  <2> QED
    BY <2>1, MergeScope
<1>4. FrontIn(k, n) = WindowEnd(r, in)
  BY MergeTop
<1>5. Sound(s, k) /\ FirstCounts(k) /\ Kept(s, k) /\ Decided(s, k)
  BY MergeSound, MergeFirst, MergeKept, MergeDecided
<1> HIDE DEF n
<1>6. CASE m \in DOMAIN h
  <2>1. k[m] = h[m] /\ FreshIn(k, m) = FreshIn(h, m) /\ UptoIn(k, m) = UptoIn(h, m)
    BY <1>1, <1>6, MergeViews
  <2>2. r.crossed /\ \E i \in UptoIn(h, m) : h[i].intent = "dispatch_planned"
    BY <1>2, <1>3, <1>6, <2>1 DEF Crosses
  <2>3. \A i \in UptoIn(h, m) : k[i] = h[i]
    BY <1>1 DEF UptoIn
  <2> QED
    BY <1>1, <2>1, <2>2, <2>3
<1>7. CASE m = n
  <2>1. ASSUME NEW j \in UptoIn(k, n), FirstIn(k, j),
               FrontIn(k, n) - k[n].in.seconds <= k[j].in.time
        PROVE  k[j].in.fp \in DOMAIN s.stamps
    <3>1. j \in DOMAIN k /\ k[j].in.seconds = in.seconds
      BY <1>1, <1>3, <2>1
    <3>2. FrontIn(k, j) \in Int /\ FrontIn(k, j) <= WindowEnd(r, in)
      BY <3>1, MergeTop
    <3>3. /\ in.seconds \in Nat /\ k[j].in.time \in Int /\ WindowEnd(r, in) \in Int
      BY <1>1, <3>1, InputTypes, EntryTypes, WindowEndFacts
    <3>4. /\ FrontIn(k, j) - k[j].in.seconds <= k[j].in.time
          /\ s.last_update - k[j].in.seconds <= k[j].in.time
      BY <1>1, <1>4, <2>1, <3>1, <3>2, <3>3
    <3>5. k[j].counted
      BY <1>5, <2>1, <3>1, <3>4 DEF FirstCounts
    <3> QED
      BY <1>3, <1>5, <3>1, <3>4, <3>5 DEF Kept
  <2>2. FreshIn(k, n) \in SUBSET (DOMAIN s.stamps)
    BY <2>1 DEF FreshIn
  <2>3. IsFiniteSet(DOMAIN s.stamps) /\ Cardinality(DOMAIN s.stamps) \in Nat
    BY <1>1, <1>5, StampsAreSeen
  <2>4. /\ Cardinality(FreshIn(k, n)) <= Cardinality(DOMAIN s.stamps)
        /\ Cardinality(FreshIn(k, n)) \in Nat
    BY <2>2, <2>3, FS_Subset, FS_CardinalityType
  <2>5. in.threshold \in Nat /\ Cardinality(FreshIn(k, n)) >= in.threshold
    BY <1>1, <1>7, InputTypes
  <2>6. Cardinality(DOMAIN s.stamps) >= in.threshold
    BY <2>3, <2>4, <2>5
  <2>7. s.crossed
    <3> SUFFICES ASSUME ~s.crossed PROVE FALSE
      OBVIOUS
    <3>1. Cardinality(DOMAIN s.stamps) < k[m].in.threshold
      BY <1>5 DEF Decided
    <3> QED
      BY <1>1, <1>7, <2>3, <2>5, <2>6, <3>1
  <2> QED
    BY <1>1, <1>5, <1>7, <2>7 DEF Decided
<1> QED
  BY <1>1, <1>6, <1>7

LEMMA MergeKeeps ==
  ASSUME NEW r, NEW h, NEW in, NEW s, NEW k, Merging(r, h, in, s, k)
  PROVE  HistoryInv(s, k)
<1>1. k \in Histories /\ s \in Rows /\ k # <<>>
  BY DEF Merging
<1>2. Fronted(s, k) /\ Sound(s, k) /\ BurstSeen(s, k) /\ FirstCounts(k)
  BY MergeTop, MergeSound, MergeBurst, MergeFirst
<1>3. Kept(s, k) /\ Once(k) /\ Decided(s, k) /\ Crosses(s, k)
  BY MergeKept, MergeOnce, MergeDecided, MergeCrosses
<1> QED
  BY <1>1, <1>2, <1>3, NoRowAssumption DEF HistoryInv

------------------------------------------------------------------------------
\* The writes between two problems.

\* A write that leaves the window, the marker and the last update alone keeps what
\* the history says of the row.
LEMMA OtherWriteKeeps ==
  ASSUME NEW r \in Rows, NEW h, HistoryInv(r, h), NEW s \in Rows,
         s.stamps = r.stamps, s.crossed = r.crossed, s.last_update = r.last_update
  PROVE  HistoryInv(s, h)
<1>1. /\ h \in Histories /\ h # <<>>
      /\ Fronted(r, h) /\ Sound(r, h) /\ BurstSeen(r, h) /\ FirstCounts(h)
      /\ Kept(r, h) /\ Once(h) /\ Decided(r, h) /\ Crosses(r, h)
  BY NoRowAssumption DEF HistoryInv
<1>2. Fronted(s, h)
  BY <1>1 DEF Fronted
<1>3. Sound(s, h)
  BY <1>1 DEF Sound
<1>4. BurstSeen(s, h)
  BY <1>1 DEF BurstSeen
<1>5. Kept(s, h)
  BY <1>1 DEF Kept
<1>6. Decided(s, h)
  BY <1>1 DEF Decided
<1>7. Crosses(s, h)
  BY <1>1 DEF Crosses
<1> QED
  BY <1>1, <1>2, <1>3, <1>4, <1>5, <1>6, <1>7, NoRowAssumption DEF HistoryInv

\* They are such writes.
LEMMA OtherWrites ==
  ASSUME NEW r \in Rows, NEW s,
         \/ \E object : s = ApplyRecovery(r, object)
         \/ s = ApplyAck(r)
         \/ s = ApplyClose(r)
         \/ \E plugin : \E result \in Results : s = ApplyDelivery(r, plugin, result)
  PROVE  s \in Rows /\ s.stamps = r.stamps /\ s.crossed = r.crossed
           /\ s.last_update = r.last_update
<1>1. CASE \E object : s = ApplyRecovery(r, object)
  <2>1. PICK object : s = ApplyRecovery(r, object)
    BY <1>1
  <2> DEFINE left == {o \in r.active : ~Recovers(object, o)}
             status == IF left = {} THEN "RESOLVED" ELSE r.status
  <2>2. left \in SUBSET Objects /\ status \in Statuses
    BY DEF Rows, Statuses
  <2>3. s = [r EXCEPT !.active = left, !.status = status]
    BY <2>1 DEF ApplyRecovery
  <2> HIDE DEF left, status
  <2> QED
    BY <2>2, <2>3 DEF Rows
<1>2. CASE s = ApplyAck(r)
  BY <1>2 DEF ApplyAck, Rows
<1>3. CASE s = ApplyClose(r)
  BY <1>3 DEF ApplyClose, Rows, Statuses
<1>4. CASE \E plugin : \E result \in Results : s = ApplyDelivery(r, plugin, result)
  <2>1. PICK plugin : \E result \in Results : s = ApplyDelivery(r, plugin, result)
    BY <1>4
  <2>2. PICK result \in Results : s = ApplyDelivery(r, plugin, result)
    BY <2>1
  <2> DEFINE delivery == [r.delivery EXCEPT ![plugin] = result]
  <2>3. delivery \in [Plugins -> Results]
    BY DEF Rows
  <2>4. s = [r EXCEPT !.delivery = delivery]
    BY <2>2 DEF ApplyDelivery
  <2> HIDE DEF delivery
  <2> QED
    BY <2>3, <2>4 DEF Rows
<1> QED
  BY <1>1, <1>2, <1>3, <1>4

------------------------------------------------------------------------------
(* The theorems *)

LEMMA InitHistory == Init => WindowInv
<1> SUFFICES ASSUME Init PROVE WindowInv
  OBVIOUS
<1>1. row = NoRow /\ history = <<>> /\ Len(history) = 0 /\ <<>> \in Histories
  BY DEF Init, Histories
<1> QED
  BY <1>1, HistoryAssumption DEF WindowInv, HistoryInv

LEMMA StepHistory == WindowInv /\ [Next]_vars => WindowInv'
<1> SUFFICES ASSUME WindowInv, [Next]_vars PROVE WindowInv'
  OBVIOUS
<1>1. HistoryInv(row, history) /\ Len(history) <= MaxDeliveries /\ MaxDeliveries \in Nat \ {0}
  BY HistoryAssumption DEF WindowInv
<1>2. CASE UNCHANGED vars
  BY <1>2, <1>1 DEF vars, WindowInv
<1>3. ASSUME NEW in \in Inputs, NEW key \in Keys, Open(key, in)
      PROVE  WindowInv'
  <2>1. /\ history = <<>>
        /\ row' = NewIncident(key, in)
        /\ history' = Append(<<>>, [in |-> in, counted |-> TRUE, intent |-> InsertIntent(in)])
    BY <1>1, <1>3 DEF Open, Delivered, HistoryInv
  <2>2. HistoryInv(row', history')
    BY <2>1, OpenKeeps
  <2>3. Len(history') <= MaxDeliveries
    BY <1>1, <2>1
  <2> QED
    BY <2>2, <2>3 DEF WindowInv
<1>4. ASSUME NEW in \in Inputs, Merge(in)
      PROVE  WindowInv'
  <2>1. /\ row # NoRow /\ row' = ApplyProblem(row, in)
        /\ history' = Append(history, [in |-> in, counted |-> IsCounted(row, in),
                                       intent |-> UpdateIntent(row, in)])
    BY <1>4 DEF Merge, Delivered
  <2>2. Merging(row, history, in, row', history')
    BY <1>1, <2>1, MergeFacts
  <2>3. HistoryInv(row', history')
    BY <2>2, MergeKeeps
  <2>4. Len(history') <= MaxDeliveries
    <3>1. Len(history') = Len(history) + 1 /\ Len(history) < MaxDeliveries /\ Len(history) \in Nat
      BY <1>1, <1>4, <2>1 DEF Merge, HistoryInv, Histories
    <3> QED
      BY <1>1, <3>1
  <2> QED
    BY <2>3, <2>4 DEF WindowInv
<1>5. ASSUME \/ \E object \in Objects : Recover(object)
             \/ Acknowledge \/ Close
             \/ \E plugin \in Plugins, result \in Results \ {"none"} :
                  RecordDelivery(plugin, result)
      PROVE  WindowInv'
  <2>1. row # NoRow /\ history' = history
    BY <1>5 DEF Recover, Acknowledge, Close, RecordDelivery
  <2>2. row \in Rows
    BY <1>1, <2>1 DEF HistoryInv
  <2>3. \/ \E object : row' = ApplyRecovery(row, object)
        \/ row' = ApplyAck(row)
        \/ row' = ApplyClose(row)
        \/ \E plugin : \E result \in Results : row' = ApplyDelivery(row, plugin, result)
    <3>1. CASE \E object \in Objects : Recover(object)
      <4>1. PICK object \in Objects : Recover(object)
        BY <3>1
      <4> QED
        BY <4>1 DEF Recover
    <3>2. CASE Acknowledge \/ Close
      BY <3>2 DEF Acknowledge, Close
    <3>3. CASE \E plugin \in Plugins, result \in Results \ {"none"} : RecordDelivery(plugin, result)
      <4>1. PICK plugin \in Plugins, result \in Results : RecordDelivery(plugin, result)
        BY <3>3
      <4> QED
        BY <4>1 DEF RecordDelivery
    <3> QED
      BY <1>5, <3>1, <3>2, <3>3
  <2>4. /\ row' \in Rows
        /\ row'.stamps = row.stamps /\ row'.crossed = row.crossed
        /\ row'.last_update = row.last_update
    BY <2>2, <2>3, OtherWrites
  <2>5. HistoryInv(row', history)
    BY <1>1, <2>2, <2>4, OtherWriteKeeps
  <2> QED
    BY <1>1, <2>1, <2>5 DEF WindowInv
<1> QED
  BY <1>2, <1>3, <1>4, <1>5 DEF Next

LEMMA WindowInvariant == Spec => []WindowInv
BY InitHistory, StepHistory, PTL DEF Spec

\* The row and the history keep their types, in every run of the deliveries.
THEOREM HistoryTypeCorrect == Spec => []TypeOK
<1>1. WindowInv => TypeOK
  BY DEF WindowInv, HistoryInv, TypeOK, Histories, Entries, Intents
<1> QED
  BY <1>1, WindowInvariant, PTL

\* No false alarm: the crossing marker is never set without a burst of as many distinct
\* fingerprints, inside one window, as some delivery's threshold asks for, however late,
\* repeated or post-dated the deliveries and whatever rules they came under.
THEOREM NoFalseAlarm == Spec => []CrossingIsABurst
<1>1. WindowInv => CrossingIsABurst
  BY HistoryViews DEF WindowInv, HistoryInv, BurstSeen, CrossingIsABurst
<1> QED
  BY <1>1, WindowInvariant, PTL

\* No missed alarm: under one rule, with room in the map, a burst of first deliveries has
\* crossed and one of the deliveries up to it planned the notification.
THEOREM NoMissedAlarm == Spec => []BurstCrosses
<1>1. WindowInv => BurstCrosses
  <2> SUFFICES ASSUME WindowInv, OneRule, Room(history), NEW n \in DOMAIN history,
                      Cardinality(FreshBurst(n)) >= history[n].in.threshold
               PROVE  row.crossed /\ \E i \in Upto(n) : history[i].intent = "dispatch_planned"
    BY HistoryViews DEF BurstCrosses, Room
  <2>1. row # NoRow
    BY DEF WindowInv, HistoryInv
  <2>2. OneRuleIn(history)
    BY DEF OneRule, OneWindow, OneRuleIn, OneWindowIn
  <2>3. Crosses(row, history)
    BY <2>1 DEF WindowInv, HistoryInv
  <2> QED
    BY <2>2, <2>3, HistoryViews DEF Crosses
<1> QED
  BY <1>1, WindowInvariant, PTL

\* Replay protection: with room in the map, no fingerprint is counted again while its first
\* count is still inside the window.
THEOREM ReplaysDoNotCount == Spec => []CountedOncePerWindow
<1>1. WindowInv => CountedOncePerWindow
  <2> SUFFICES ASSUME WindowInv, OneWindow, Room(history),
                      NEW i \in DOMAIN history, NEW j \in DOMAIN history,
                      i < j, Fp(i) = Fp(j), history[i].counted, history[j].counted
               PROVE  Time(i) < Front(j) - history[j].in.seconds
    BY HistoryViews DEF CountedOncePerWindow, Room
  <2>1. row # NoRow
    BY DEF WindowInv, HistoryInv
  <2>2. OneWindowIn(history) /\ Once(history)
    BY <2>1 DEF OneWindow, OneWindowIn, WindowInv, HistoryInv
  <2> QED
    BY <2>2, HistoryViews DEF Once, Fp, Time
<1> QED
  BY <1>1, WindowInvariant, PTL
==============================================================================
