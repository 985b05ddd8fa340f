--------------------------- MODULE ListingsProofs ---------------------------
(***************************************************************************)
(* For any table, any number of rows and any page size: the types of       *)
(* Listings, that no walk shows a row twice, and that a finished walk has  *)
(* shown every row of its baseline.                                        *)
(***************************************************************************)
EXTENDS Listings, FiniteSetTheorems, WellFoundedInduction, TLAPS

\* A version is a record, and no version is Absent.
LEMMA VersionType ==
  ASSUME NEW v \in Versions
  PROVE  v.time \in Nat /\ v # Absent
BY ListingsAssumption, AbsentAssumption DEF Versions

\* A page starts from rows that exist, so its cursor is a time and an id.
LEMMA PageType ==
  ASSUME TypeOK, NEW S \in SUBSET Selected, Page(S)
  PROVE  /\ walk' \in {"walking", "done"}
         /\ cursor' \in [time : Nat, id : Nat]
         /\ listed' \in [Ids -> Nat]
<1>1. listed' \in [Ids -> Nat]
  BY DEF Page, TypeOK
<1>2. CASE HasMore(S)
  <2>1. PICK last \in Top(S, Limit) : cursor' = CursorOf(last)
    BY <1>2 DEF Page
  <2>2. last \in Ids /\ row[last] \in Versions
    BY <2>1 DEF Top, Selected, TypeOK
  <2>3. CursorOf(last) \in [time : Nat, id : Nat]
    BY <2>2, VersionType, ListingsAssumption DEF CursorOf
  <2> QED
    BY <1>1, <1>2, <2>1, <2>3 DEF Page
<1>3. CASE ~HasMore(S)
  BY <1>1, <1>3 DEF Page, TypeOK
<1> QED
  BY <1>2, <1>3

\* Every step keeps the types.
LEMMA TypeStep == TypeOK /\ [Next]_vars => TypeOK'
<1> SUFFICES ASSUME TypeOK, [Next]_vars PROVE TypeOK'
  OBVIOUS
<1>1. ASSUME NEW i \in Ids, NEW v \in Versions, Insert(i, v) \/ Update(i, v)
      PROVE  TypeOK'
  BY <1>1 DEF TypeOK, Insert, Update
<1>2. ASSUME NEW i \in Ids, Commit(i) \/ Rollback(i) PROVE TypeOK'
  BY <1>2 DEF TypeOK, Commit, Rollback
<1>3. CASE Tick
  BY <1>3 DEF TypeOK, Tick
<1>4. CASE FirstPage
  <2>1. Selected \subseteq Ids
    BY DEF Selected
  <2>2. UNCHANGED <<table, row, writing, clock>>
    BY <1>4 DEF FirstPage, Page
  <2> QED
    BY <1>4, <2>1, <2>2, PageType DEF FirstPage, TypeOK
<1>5. CASE NextPage
  <2>1. UNCHANGED <<table, row, writing, clock, stable>>
    BY <1>5 DEF NextPage, Page
  <2> QED
    BY <1>5, <2>1, PageType DEF NextPage, TypeOK
<1>6. CASE UNCHANGED vars
  BY <1>6 DEF TypeOK, vars
<1> QED
  BY <1>1, <1>2, <1>3, <1>4, <1>5, <1>6 DEF Next

\* Every state of a walk has the types it is declared with.
THEOREM TypeCorrect == Spec => []TypeOK
<1>1. Init => TypeOK
  BY ListingsAssumption DEF Init, TypeOK
<1> QED
  BY <1>1, TypeStep, PTL DEF Spec

------------------------------------------------------------------------------
\* NothingTwice is not inductive: what keeps a listed row out of the pages to
\* come is that it exists and lies at or above the cursor, and that a
\* transaction that is about to change it will only raise it.
ListedInv ==
  /\ NothingTwice
  /\ walk = "idle" => \A i \in Ids : listed[i] = 0
  /\ walk = "walking" => \A i \in Ids : listed[i] # 0 => row[i] # Absent /\ ~Below(i)
  /\ \A i \in Ids : row[i] # Absent /\ writing[i] # Absent => writing[i].time >= row[i].time

\* A page of rows that are not listed yet, all of them below the cursor of the
\* listed ones, keeps the invariant.
LEMMA PageStep ==
  ASSUME TypeOK, ListedInv, NEW S \in SUBSET Selected, Page(S),
         \A i \in S : listed[i] = 0,
         \A i \in Ids : listed[i] # 0 =>
           row[i] # Absent /\ ~Below(i) /\ \A j \in S : Below(j)
  PROVE  ListedInv'
<1> DEFINE page == Top(S, Limit)
<1>1. page \subseteq S /\ S \subseteq Ids
  BY DEF Top, Selected
<1>2. UNCHANGED <<row, writing>> /\ walk' # "idle"
  BY DEF Page
<1>3. \A i \in Ids : listed'[i] = IF i \in page THEN listed[i] + 1 ELSE listed[i]
  BY DEF Page
<1>4. NothingTwice'
  BY <1>1, <1>3 DEF ListedInv, NothingTwice, TypeOK
<1>5. ASSUME walk' = "walking", NEW i \in Ids, listed'[i] # 0
      PROVE  row[i] # Absent /\ ~Below(i)'
  <2>1. PICK last \in page :
          /\ \A j \in page : ~Precedes(last, j)
          /\ cursor' = CursorOf(last)
    BY <1>5 DEF Page
  <2>2. last \in S /\ last \in Ids /\ row[last].time \in Nat /\ last \in Nat /\ i \in Nat
    BY <1>1, <2>1, VersionType, ListingsAssumption DEF Selected, TypeOK
  <2>3. cursor'.time = row[last].time /\ cursor'.id = last
    BY <2>1 DEF CursorOf
  <2>4. CASE i \in page
    <3>1. row[i] # Absent /\ row[i].time \in Nat
      BY <1>1, <2>4, VersionType DEF Selected, TypeOK
    <3>2. ~Precedes(last, i)
      BY <2>1, <2>4
    <3> QED
      BY <1>2, <2>2, <2>3, <3>1, <3>2 DEF Precedes, Below
  <2>5. CASE i \notin page
    <3>1. listed[i] # 0
      BY <1>3, <1>5, <2>5
    <3>2. row[i] # Absent /\ ~Below(i) /\ Below(last)
      BY <2>2, <3>1
    <3>3. row[i].time \in Nat /\ cursor.time \in Nat /\ cursor.id \in Nat
      BY <3>2, VersionType DEF TypeOK
    <3> QED
      BY <1>2, <2>2, <2>3, <3>2, <3>3 DEF Below
  <2> QED
    BY <2>4, <2>5
<1> QED
  BY <1>2, <1>4, <1>5 DEF ListedInv

\* Every step keeps the invariant.
LEMMA ListedStep == TypeOK /\ ListedInv /\ [Next]_vars => ListedInv'
<1> SUFFICES ASSUME TypeOK, ListedInv, [Next]_vars PROVE ListedInv'
  OBVIOUS
<1>1. ASSUME NEW i \in Ids, NEW v \in Versions, Insert(i, v) \/ Update(i, v)
      PROVE  ListedInv'
  <2>1. UNCHANGED <<row, walk, cursor, listed>>
    BY <1>1 DEF Insert, Update
  <2>2. \A j \in Ids : writing'[j] = IF j = i THEN v ELSE writing[j]
    BY <1>1 DEF Insert, Update, TypeOK
  <2>3. row[i] # Absent => v.time >= row[i].time
    BY <1>1 DEF Insert, Update
  <2> QED
    BY <2>1, <2>2, <2>3 DEF ListedInv, NothingTwice, Below
<1>2. ASSUME NEW i \in Ids, Commit(i) PROVE ListedInv'
  <2>1. UNCHANGED <<walk, cursor, listed>> /\ writing[i] \in Versions
    BY <1>2 DEF Commit, TypeOK
  <2>2. \A j \in Ids : /\ row'[j] = IF j = i THEN writing[i] ELSE row[j]
                       /\ writing'[j] = IF j = i THEN Absent ELSE writing[j]
    BY <1>2 DEF Commit, TypeOK
  <2>3. ASSUME walk = "walking", NEW j \in Ids, listed[j] # 0
        PROVE  row'[j] # Absent /\ ~Below(j)'
    <3>1. row[j] # Absent /\ ~Below(j) /\ row[j].time \in Nat
      BY <2>3, VersionType DEF ListedInv, TypeOK
    <3>2. cursor.time \in Nat /\ cursor.id \in Nat /\ j \in Nat
      BY ListingsAssumption DEF TypeOK
    <3>3. CASE j = i
      <4>1. writing[i].time >= row[i].time /\ writing[i].time \in Nat /\ writing[i] # Absent
        BY <2>1, <3>1, <3>3, VersionType DEF ListedInv
      <4> QED
        BY <2>1, <2>2, <3>1, <3>2, <3>3, <4>1 DEF Below
    <3>4. CASE j # i
      BY <2>1, <2>2, <3>1, <3>4 DEF Below
    <3> QED
      BY <3>3, <3>4
  <2> QED
    BY <2>1, <2>2, <2>3 DEF ListedInv, NothingTwice
<1>3. ASSUME NEW i \in Ids, Rollback(i) PROVE ListedInv'
  <2>1. \A j \in Ids : writing'[j] = IF j = i THEN Absent ELSE writing[j]
    BY <1>3 DEF Rollback, TypeOK
  <2> QED
    BY <1>3, <2>1 DEF Rollback, ListedInv, NothingTwice, Below
<1>4. CASE Tick
  BY <1>4 DEF Tick, ListedInv, NothingTwice, Below
<1>5. CASE FirstPage
  BY <1>5, PageStep DEF FirstPage, ListedInv, Selected
<1>6. CASE NextPage
  <2> DEFINE rest == {i \in Selected : Below(i)}
  <2>1. rest \subseteq Selected /\ Page(rest) /\ walk = "walking"
    BY <1>6 DEF NextPage
  <2>2. \A i \in rest : listed[i] = 0
    BY <2>1 DEF ListedInv, Selected
  <2>3. \A i \in Ids : listed[i] # 0 => row[i] # Absent /\ ~Below(i) /\ \A j \in rest : Below(j)
    BY <2>1 DEF ListedInv
  <2> QED
    BY <2>1, <2>2, <2>3, PageStep
<1>7. CASE UNCHANGED vars
  BY <1>7 DEF vars, ListedInv, NothingTwice, Below
<1> QED
  BY <1>1, <1>2, <1>3, <1>4, <1>5, <1>6, <1>7 DEF Next

\* No walk over either list shows a row twice, whatever is inserted, updated,
\* committed or rolled back between its pages.
THEOREM ShownAtMostOnce == Spec => []NothingTwice
<1>1. Init => ListedInv
  BY DEF Init, ListedInv, NothingTwice
<1>2. ListedInv => NothingTwice
  BY DEF ListedInv
<1> QED
  BY <1>1, <1>2, TypeCorrect, ListedStep, PTL DEF Spec

------------------------------------------------------------------------------
(* What ORDER BY .. LIMIT selects *)

\* A set of subsets of a finite set has a smallest member.
LEMMA Smallest ==
  ASSUME NEW S, IsFiniteSet(S), NEW F \in SUBSET SUBSET S, F # {}
  PROVE  \E A \in F : \A B \in F : B \subseteq A => B = A
<1>1. F \subseteq FiniteSubsetsOf(S)
  BY FS_Subset DEF FiniteSubsetsOf
<1>2. \E A \in F : \A B \in F : ~(<<B, A>> \in StrictSubsetOrdering(S))
  BY <1>1, FS_StrictSubsetOrderingWellFounded, WFMin
<1> QED
  BY <1>2 DEF StrictSubsetOrdering

\* The rows that come before i in a list of S.
Ahead(S, i) == {j \in S : Precedes(j, i)}

\* The order of the list is strict, and total on rows that exist.
LEMMA ListOrder ==
  ASSUME TypeOK, NEW i \in Selected, NEW j \in Selected, NEW k \in Selected
  PROVE  /\ ~Precedes(i, i)
         /\ Precedes(i, j) /\ Precedes(j, k) => Precedes(i, k)
         /\ i # j => Precedes(i, j) \/ Precedes(j, i)
<1>1. i \in Nat /\ j \in Nat /\ k \in Nat
  BY ListingsAssumption DEF Selected
<1>2. row[i].time \in Nat /\ row[j].time \in Nat /\ row[k].time \in Nat
  BY VersionType DEF Selected, TypeOK
<1> QED
  BY <1>1, <1>2 DEF Precedes

\* What comes before a row has less before it.
LEMMA AheadGrows ==
  ASSUME TypeOK, NEW S \in SUBSET Selected, IsFiniteSet(S), NEW i \in S, NEW j \in Ahead(S, i)
  PROVE  /\ Ahead(S, j) \subseteq Ahead(S, i)
         /\ Cardinality(Ahead(S, j)) \in Nat
         /\ Cardinality(Ahead(S, i)) \in Nat
         /\ Cardinality(Ahead(S, j)) < Cardinality(Ahead(S, i))
<1>1. j \in S /\ Precedes(j, i)
  BY DEF Ahead
<1>2. Ahead(S, j) \subseteq Ahead(S, i)
  BY <1>1, ListOrder DEF Ahead
<1>3. j \notin Ahead(S, j)
  BY <1>1, ListOrder DEF Ahead
<1>4. IsFiniteSet(Ahead(S, i)) /\ IsFiniteSet(Ahead(S, j))
  BY FS_Subset DEF Ahead
<1>5. Cardinality(Ahead(S, j)) <= Cardinality(Ahead(S, i))
  BY <1>2, <1>4, FS_Subset
<1>6. Cardinality(Ahead(S, j)) # Cardinality(Ahead(S, i))
  BY <1>2, <1>3, <1>4, FS_Subset
<1> QED
  BY <1>2, <1>4, <1>5, <1>6, FS_CardinalityType

\* A query for more rows than it returns has returned them all.
LEMMA ShortQueryIsWhole ==
  ASSUME TypeOK, NEW S \in SUBSET Selected, IsFiniteSet(S), NEW n \in Nat,
         Cardinality(Top(S, n + 1)) <= n
  PROVE  Top(S, n + 1) = S /\ Cardinality(S) <= n
<1> DEFINE T == Top(S, n + 1)
<1>1. T \subseteq S
  BY DEF Top
<1>2. ASSUME S \ T # {} PROVE FALSE
  <2> DEFINE F == {Ahead(S, i) : i \in S \ T}
  <2>1. F \in SUBSET SUBSET S /\ F # {}
    BY <1>2 DEF Ahead
  <2>2. PICK A \in F : \A B \in F : B \subseteq A => B = A
    <3> HIDE DEF F
    <3> QED
      BY <2>1, Smallest
  <2>3. PICK i \in S \ T : A = Ahead(S, i)
    BY <2>2
  <2>4. Ahead(S, i) \subseteq T
    <3> SUFFICES ASSUME NEW j \in Ahead(S, i), j \notin T PROVE FALSE
      OBVIOUS
    <3>1. j \in S \ T
      BY DEF Ahead
    <3>2. Ahead(S, j) \in F
      BY <3>1
    <3>3. Ahead(S, j) \subseteq Ahead(S, i)
          /\ Cardinality(Ahead(S, j)) # Cardinality(Ahead(S, i))
      BY AheadGrows, <2>3
    <3> QED
      BY <2>2, <2>3, <3>2, <3>3
  <2>5. IsFiniteSet(T)
    BY <1>1, FS_Subset
  <2>6. Cardinality(Ahead(S, i)) <= Cardinality(T)
    BY <2>4, <2>5, FS_Subset
  <2>7. Cardinality(Ahead(S, i)) \in Nat /\ Cardinality(T) \in Nat
    BY <2>4, <2>5, FS_Subset, FS_CardinalityType
  <2>8. Cardinality(Ahead(S, i)) < n + 1
    <3> HIDE DEF T
    <3>1. Cardinality(T) <= n
      BY DEF T
    <3> QED
      BY <2>6, <2>7, <3>1
  <2>9. i \in T
    BY <2>3, <2>8 DEF Top, Ahead
  <2> QED
    BY <2>3, <2>9
<1> QED
  BY <1>1, <1>2

\* The first page of rows that all fit on it is all of them.
LEMMA LastPageIsRest ==
  ASSUME TypeOK, NEW S \in SUBSET Selected, IsFiniteSet(S), ~HasMore(S)
  PROVE  Top(S, Limit) = S
<1>1. Limit \in Nat /\ Limit # 0
  BY ListingsAssumption
<1>2. IsFiniteSet(Top(S, Limit + 1))
  BY FS_Subset DEF Top
<1>3. Cardinality(Top(S, Limit + 1)) <= Limit
  BY <1>1, <1>2, FS_CardinalityType DEF HasMore
<1>4. Cardinality(S) <= Limit /\ Cardinality(S) \in Nat
  BY <1>1, <1>3, ShortQueryIsWhole, FS_CardinalityType
<1>5. ASSUME NEW i \in S PROVE Cardinality(Ahead(S, i)) < Limit
  <2>1. Ahead(S, i) \subseteq S /\ i \notin Ahead(S, i)
    BY ListOrder DEF Ahead
  <2>2. /\ Cardinality(Ahead(S, i)) <= Cardinality(S)
        /\ Cardinality(Ahead(S, i)) # Cardinality(S)
        /\ Cardinality(Ahead(S, i)) \in Nat
    BY <2>1, FS_Subset, FS_CardinalityType
  <2> QED
    BY <1>1, <1>4, <2>2
<1> QED
  BY <1>5 DEF Top, Ahead

\* What a page leaves out comes after its last row.
LEMMA RestFollows ==
  ASSUME TypeOK, NEW S \in SUBSET Selected, IsFiniteSet(S),
         NEW last \in Top(S, Limit), NEW i \in S, i \notin Top(S, Limit)
  PROVE  Precedes(last, i)
<1>1. last \in S /\ Cardinality(Ahead(S, last)) < Limit
  BY DEF Top, Ahead
<1>2. ~(Cardinality(Ahead(S, i)) < Limit)
  BY DEF Top, Ahead
<1>3. ~Precedes(i, last)
  <2> SUFFICES ASSUME Precedes(i, last) PROVE FALSE
    OBVIOUS
  <2>1. i \in Ahead(S, last)
    BY DEF Ahead
  <2> QED
    BY <1>1, <1>2, <2>1, AheadGrows, ListingsAssumption
<1> QED
  BY <1>1, <1>3, ListOrder

------------------------------------------------------------------------------
(* The baseline *)

\* Why a walk misses nothing: the rows of the baseline that are not listed are
\* exactly those below the cursor, which the pages to come are taken from.  The
\* pages are finite because so is the table.
BaselineInv ==
  /\ IsFiniteSet({i \in Ids : row[i] # Absent})
  /\ stable \subseteq Selected
  /\ walk = "walking" => \A i \in stable : listed[i] = IF Below(i) THEN 0 ELSE 1
  /\ BaselineListed

\* A page of what is below the cursor, or of everything selected.
LEMMA BaselinePage ==
  ASSUME TypeOK, NEW S \in SUBSET Selected, IsFiniteSet(S), Page(S), stable' \subseteq Selected,
         \A i \in stable' : IF i \in S THEN listed[i] = 0 ELSE listed[i] = 1,
         \A i \in stable', j \in S : i \notin S => Precedes(i, j)
  PROVE  /\ walk' = "walking" => \A i \in stable' : listed'[i] = IF Below(i)' THEN 0 ELSE 1
         /\ BaselineListed'
<1> DEFINE page == Top(S, Limit)
<1>1. page \subseteq S /\ stable' \subseteq Ids /\ UNCHANGED row
  BY DEF Top, Selected, Page
<1>2. \A i \in stable' : listed'[i] = IF i \in page THEN listed[i] + 1 ELSE listed[i]
  BY <1>1 DEF Page
<1>3. \A i \in stable' : listed'[i] = IF i \in S \ page THEN 0 ELSE 1
  BY <1>1, <1>2
<1>4. CASE HasMore(S)
  <2>1. PICK last \in page : (\A i \in page : ~Precedes(last, i)) /\ cursor' = CursorOf(last)
    BY <1>4 DEF Page
  <2>2. last \in S /\ last \in Selected
    BY <1>1
  <2>3. \A i \in stable' : Below(i)' <=> Precedes(last, i)
    <3> SUFFICES ASSUME NEW i \in stable' PROVE Below(i)' <=> Precedes(last, i)
      OBVIOUS
    <3>1. row[i].time \in Nat /\ row[last].time \in Nat /\ i \in Nat /\ last \in Nat
      BY <2>2, VersionType, ListingsAssumption DEF Selected, TypeOK
    <3> QED
      BY <1>1, <2>1, <3>1 DEF CursorOf, Below, Precedes
  <2>4. \A i \in stable' : Precedes(last, i) <=> i \in S \ page
    <3> SUFFICES ASSUME NEW i \in stable' PROVE Precedes(last, i) <=> i \in S \ page
      OBVIOUS
    <3>1. CASE i \in page
      BY <2>1, <3>1
    <3>2. CASE i \in S \ page
      BY <3>2, RestFollows
    <3>3. CASE i \notin S
      <4>1. Precedes(i, last)
        BY <2>2, <3>3
      <4> QED
        BY <2>2, <3>3, <4>1, ListOrder
    <3> QED
      BY <1>1, <3>1, <3>2, <3>3
  <2> QED
    BY <1>3, <1>4, <2>3, <2>4 DEF Page, BaselineListed
<1>5. CASE ~HasMore(S)
  <2>1. page = S
    BY <1>5, LastPageIsRest
  <2> QED
    BY <1>3, <1>5, <2>1 DEF Page, BaselineListed
<1> QED
  BY <1>4, <1>5

\* Every step keeps the invariant; NothingTwice's invariant says that nothing is listed
\* before the first page.
LEMMA BaselineStep ==
  TypeOK /\ ListedInv /\ BaselineInv /\ [Next]_vars => BaselineInv'
<1> SUFFICES ASSUME TypeOK, ListedInv, BaselineInv, [Next]_vars PROVE BaselineInv'
  OBVIOUS
<1> DEFINE Rows == {i \in Ids : row[i] # Absent}
<1>1. CASE UNCHANGED <<row, walk, cursor, listed, stable>>
  BY <1>1 DEF BaselineInv, BaselineListed, Selected, Below
<1>2. ASSUME NEW i \in Ids, Commit(i) PROVE BaselineInv'
  <2>1. UNCHANGED <<walk, cursor, listed>> /\ stable' = stable \ {i}
    BY <1>2 DEF Commit
  <2>2. \A j \in Ids : j # i => row'[j] = row[j]
    BY <1>2 DEF Commit, TypeOK
  <2>3. IsFiniteSet(Rows')
    <3>1. IsFiniteSet(Rows \cup {i})
      BY FS_AddElement DEF BaselineInv
    <3>2. Rows' \in SUBSET (Rows \cup {i})
      BY <2>2
    <3> QED
      BY <3>1, <3>2, FS_Subset
  <2>4. stable' \subseteq Selected'
    BY <2>1, <2>2 DEF BaselineInv, Selected
  <2>5. \A j \in stable' : Below(j)' <=> Below(j)
    BY <2>1, <2>2, <2>4 DEF Below, Selected
  <2> QED
    BY <2>1, <2>3, <2>4, <2>5 DEF BaselineInv, BaselineListed
<1>3. CASE FirstPage
  <2>1. Selected \subseteq Rows /\ IsFiniteSet(Selected)
    <3>1. Selected \in SUBSET Rows
      BY DEF Selected
    <3> QED
      BY <3>1, FS_Subset DEF BaselineInv
  <2>2. Page(Selected) /\ stable' = Selected /\ UNCHANGED row
    BY <1>3 DEF FirstPage, Page
  <2>3. \A i \in Selected : listed[i] = 0
    BY <1>3 DEF FirstPage, ListedInv, Selected
  <2>4. /\ walk' = "walking" => \A i \in stable' : listed'[i] = IF Below(i)' THEN 0 ELSE 1
        /\ BaselineListed'
    BY <2>1, <2>2, <2>3, BaselinePage
  <2> QED
    BY <2>2, <2>4 DEF BaselineInv, Selected
<1>4. CASE NextPage
  <2> DEFINE rest == {i \in Selected : Below(i)}
  <2>1. Page(rest) /\ UNCHANGED <<stable, row>> /\ walk = "walking"
    BY <1>4 DEF NextPage, Page
  <2>2. rest \subseteq Selected /\ IsFiniteSet(rest)
    <3>1. rest \in SUBSET Rows
      BY DEF Selected
    <3> QED
      BY <3>1, FS_Subset DEF BaselineInv
  <2>3. \A i \in stable' : IF i \in rest THEN listed[i] = 0 ELSE listed[i] = 1
    BY <2>1 DEF BaselineInv
  <2>4. ASSUME NEW i \in stable', NEW j \in rest, i \notin rest PROVE Precedes(i, j)
    <3>1. i \in Selected /\ j \in Selected /\ ~Below(i) /\ Below(j)
      BY <2>1, <2>4 DEF BaselineInv
    <3>2. row[i].time \in Nat /\ row[j].time \in Nat /\ i \in Nat /\ j \in Nat
      BY <3>1, VersionType, ListingsAssumption DEF Selected, TypeOK
    <3>3. cursor.time \in Nat /\ cursor.id \in Nat
      BY DEF TypeOK
    <3> QED
      BY <3>1, <3>2, <3>3 DEF Below, Precedes
  <2>5. stable' \subseteq Selected
    BY <2>1 DEF BaselineInv
  <2>6. /\ walk' = "walking" => \A i \in stable' : listed'[i] = IF Below(i)' THEN 0 ELSE 1
        /\ BaselineListed'
    <3> HIDE DEF rest
    <3> QED
      BY <2>1, <2>2, <2>3, <2>4, <2>5, BaselinePage
  <2> QED
    BY <2>1, <2>5, <2>6 DEF BaselineInv, Selected
<1> QED
  BY <1>1, <1>2, <1>3, <1>4 DEF Next, Insert, Update, Rollback, Tick, vars

\* A finished walk has shown every row that was there when it began and that nobody
\* has written since, however many pages it took and whatever was committed between.
THEOREM WalkMissesNothing == Spec => []BaselineListed
<1>1. Init => ListedInv /\ BaselineInv
  <2>1. Init => {i \in Ids : row[i] # Absent} = {}
    BY DEF Init
  <2> QED
    BY <2>1, FS_EmptySet DEF Init, ListedInv, NothingTwice, BaselineInv, BaselineListed
<1>2. BaselineInv => BaselineListed
  BY DEF BaselineInv
<1> QED
  BY <1>1, <1>2, TypeCorrect, ListedStep, BaselineStep, PTL DEF Spec
==============================================================================
