---------------------------- MODULE ScriptsProofs ----------------------------
(***************************************************************************)
(* The operator scripts, for any parameters.  The claims: one invocation   *)
(* at most works in a verification namespace, and a verification that      *)
(* reports success has left nothing of its own in it.  The migration: the  *)
(* output directory is what a run found or wholly the run's own, what is   *)
(* published about it is true, the server can read it, and the generated   *)
(* rules decide every event as the rules they were made of.                *)
(***************************************************************************)
EXTENDS Migration, VerificationClaims, FiniteSetTheorems, WellFoundedInduction, TLAPS

(* ---- scripts/: the claim of a verification namespace ---- *)

Holding == {"inspecting", "confirming", "rejecting", "running"}

\* The actions by what they do to the claim, which is what the proofs split on.
InvocationStep(i) ==
  \/ Create(i) \/ CreateFails(i) \/ Inspect(i) \/ Confirm(i) \/ Reject(i) \/ ReleaseRejected(i)
  \/ Use(i) \/ CommandEnds(i) \/ Crash(i)
  \/ Retry(i) \/ Owned(i) \/ ReleaseOwned(i) \/ ReleaseFails(i)
CleanerStep(p) == Listing(p) \/ RemoveListed(p) \/ NothingToRemove(p) \/ Verify(p)

LEMMA StepCases ==
  ClaimsNext <=> \/ \E i \in Invocations : InvocationStep(i)
                 \/ \E p \in Cleaners : CleanerStep(p)
                 \/ Deliberate \/ ReleaseSeen
  BY DEF ClaimsNext, InvocationStep, CleanerStep

LEMMA KindsFacts ==
  /\ Len(Kinds) \in Nat \ {0}
  /\ \A n \in 1..Len(Kinds) : Kinds[n] \in KindSet
  /\ \A k \in KindSet : \E n \in 1..Len(Kinds) : k = Kinds[n]
<1>1. Len(Kinds) \in Nat \ {0}
  BY ClaimsAssumption
<1> QED
  BY <1>1 DEF KindSet

------------------------------------------------------------------------------
(* Types *)

LEMMA TypeInvocation ==
  ASSUME ClaimsTypeOK, NEW i \in Invocations, InvocationStep(i)
  PROVE  ClaimsTypeOK'
<1> USE ClaimsTypeOK, KindsFacts DEF ClaimsTypeOK, Cleaners, To, Ends
<1>1. CASE Create(i)          BY <1>1 DEF Create
<1>2. CASE CreateFails(i)     BY <1>2 DEF CreateFails
<1>3. CASE Inspect(i)         BY <1>3, SMTT(20) DEF Inspect
<1>4. CASE Confirm(i)         BY <1>4 DEF Confirm
<1>5. CASE Reject(i)          BY <1>5 DEF Reject
<1>6. CASE ReleaseRejected(i) BY <1>6 DEF ReleaseRejected, RemoveMarker
<1>7. CASE Use(i)             BY <1>7 DEF Use
<1>8. CASE CommandEnds(i)     BY <1>8 DEF CommandEnds
<1>9. CASE Crash(i)           BY <1>9 DEF Crash
<1>10. CASE Retry(i)          BY <1>10 DEF Retry
<1>11. CASE Owned(i)          BY <1>11, ZenonT(30) DEF Owned
<1>12. CASE ReleaseOwned(i)   BY <1>12 DEF ReleaseOwned, RemoveMarker
<1>13. CASE ReleaseFails(i)   BY <1>13 DEF ReleaseFails, RemoveMarker
<1> QED
  BY <1>1, <1>2, <1>3, <1>4, <1>5, <1>6, <1>7, <1>8, <1>9, <1>10, <1>11, <1>12, <1>13
  DEF InvocationStep

\* A cleaner passes to the next kind, or to another phase at the first kind.
Advances(p) ==
  \/ UNCHANGED <<phase, position>>
  \/ \E next \in {"verifying", "releasing", "idle", "ended"} :
       To(p, next) /\ position' = [position EXCEPT ![p] = 1]
  \/ position[p] # Len(Kinds) /\ position' = [position EXCEPT ![p] = @ + 1] /\ UNCHANGED phase

LEMMA AdvancesTyped ==
  ASSUME ClaimsTypeOK, NEW p \in Cleaners, Advances(p)
  PROVE  /\ phase' \in [Cleaners -> {"idle", "inspecting", "confirming", "rejecting", "running", "checking",
                                     "cleaning", "verifying", "releasing", "ended"}]
         /\ position' \in [Cleaners -> 1..Len(Kinds)]
<1>1. CASE UNCHANGED <<phase, position>>
  BY <1>1 DEF ClaimsTypeOK
<1>2. ASSUME NEW next \in {"verifying", "releasing", "idle", "ended"},
             To(p, next), position' = [position EXCEPT ![p] = 1]
      PROVE  /\ phase' \in [Cleaners -> {"idle", "inspecting", "confirming", "rejecting", "running", "checking",
                                         "cleaning", "verifying", "releasing", "ended"}]
             /\ position' \in [Cleaners -> 1..Len(Kinds)]
  BY <1>2, KindsFacts DEF ClaimsTypeOK, To
<1>3. CASE position[p] # Len(Kinds) /\ position' = [position EXCEPT ![p] = @ + 1] /\ UNCHANGED phase
  <2>1. position[p] + 1 \in 1..Len(Kinds)
    BY <1>3, KindsFacts DEF ClaimsTypeOK
  <2> QED
    BY <1>3, <2>1 DEF ClaimsTypeOK
<1> QED
  BY <1>1, <1>2, <1>3 DEF Advances

LEMMA TypeCleaner ==
  ASSUME ClaimsTypeOK, NEW p \in Cleaners, CleanerStep(p)
  PROVE  ClaimsTypeOK'
<1>1. CASE Listing(p)
  <2>1. OfKind(Kinds[position[p]]) \in SUBSET (Invocations \X KindSet)
    BY DEF ClaimsTypeOK, OfKind
  <2> QED
    BY <1>1, <2>1 DEF Listing, ClaimsTypeOK
<1>2. CASE RemoveListed(p)
  <2>1. PICK r \in listed[p] :
          /\ resources' \in {resources \ {r}, resources}
          /\ failed' \in {failed, [failed EXCEPT ![p] = TRUE]}
          /\ listed' = [listed EXCEPT ![p] = @ \ {r}]
          /\ IF listed'[p] # {} THEN UNCHANGED <<phase, position>>
             ELSE IF position[p] = Len(Kinds) THEN To(p, "verifying") /\ position' = [position EXCEPT ![p] = 1]
             ELSE position' = [position EXCEPT ![p] = @ + 1] /\ UNCHANGED phase
    BY <1>2 DEF RemoveListed
  <2>2. Advances(p)
    BY <2>1 DEF Advances
  <2>3. listed' \in [Cleaners -> SUBSET (Invocations \X KindSet)]
    BY <2>1 DEF ClaimsTypeOK
  <2>4. failed' \in [Cleaners -> BOOLEAN]
    BY <2>1 DEF ClaimsTypeOK
  <2>5. resources' \subseteq Invocations \X KindSet
    BY <2>1 DEF ClaimsTypeOK
  <2> QED
    BY <1>2, <2>2, <2>3, <2>4, <2>5, AdvancesTyped DEF RemoveListed, ClaimsTypeOK
<1>3. CASE NothingToRemove(p)
  <2>1. Advances(p)
    BY <1>3 DEF NothingToRemove, Advances
  <2>2. failed' \in {failed, [failed EXCEPT ![p] = TRUE]}
    BY <1>3 DEF NothingToRemove
  <2>3. failed' \in [Cleaners -> BOOLEAN]
    BY <2>2 DEF ClaimsTypeOK
  <2> QED
    BY <1>3, <2>1, <2>3, AdvancesTyped DEF NothingToRemove, ClaimsTypeOK
<1>4. CASE Verify(p)
  <2>1. Advances(p)
    <3>1. CASE position[p] < Len(Kinds)
      BY <1>4, <3>1, KindsFacts DEF Verify, Advances, ClaimsTypeOK
    <3>2. CASE ~(position[p] < Len(Kinds))
      BY <1>4, <3>2 DEF Verify, Advances, Fails, Ends
    <3> QED
      BY <3>1, <3>2
  <2>2. \E bad \in BOOLEAN : failed' = [failed EXCEPT ![p] = bad]
    <3> DEFINE bad == failed[p] \/ OfKind(Kinds[position[p]]) # {}
    <3>1. failed' = [failed EXCEPT ![p] = bad] \/ failed' = [failed EXCEPT ![p] = FALSE]
      BY <1>4 DEF Verify
    <3>2. bad \in BOOLEAN
      BY DEF ClaimsTypeOK
    <3> HIDE DEF bad
    <3> QED
      BY <3>1, <3>2
  <2>3. failed' \in [Cleaners -> BOOLEAN]
    BY <2>2 DEF ClaimsTypeOK
  <2>4. result' \in [Invocations -> {0, 1}]
    BY <1>4 DEF Verify, Fails, Ends, ClaimsTypeOK, Cleaners
  <2> QED
    BY <1>4, <2>1, <2>3, <2>4, AdvancesTyped DEF Verify, ClaimsTypeOK
<1> QED
  BY <1>1, <1>2, <1>3, <1>4 DEF CleanerStep

LEMMA TypeStep == ClaimsTypeOK /\ [ClaimsNext]_cvars => ClaimsTypeOK'
<1> SUFFICES ASSUME ClaimsTypeOK, [ClaimsNext]_cvars
             PROVE  ClaimsTypeOK'
  OBVIOUS
<1>1. CASE Deliberate
  BY <1>1 DEF Deliberate, ClaimsTypeOK, Cleaners, To
<1>2. CASE ReleaseSeen
  BY <1>2 DEF ReleaseSeen, RemoveMarker, ClaimsTypeOK, Cleaners, To
<1>3. CASE UNCHANGED cvars
  BY <1>3 DEF cvars, ClaimsTypeOK
<1> QED
  BY <1>1, <1>2, <1>3, TypeInvocation, TypeCleaner, StepCases

\* Every reachable state of the namespace is well formed.
THEOREM ClaimsTypeCorrect == ClaimsSpec => []ClaimsTypeOK
<1>1. ClaimsInit => ClaimsTypeOK
  BY KindsFacts DEF ClaimsInit, ClaimsTypeOK, Cleaners
<1> QED
  BY <1>1, TypeStep, PTL DEF ClaimsSpec

------------------------------------------------------------------------------
(* The claim *)

\* What makes exclusiveness inductive: the claim an operator has read, and may still remove,
\* was left by an invocation that has ended and cannot begin again.
ExclusiveInv ==
  /\ NamespaceIsExclusive
  /\ seen # NoClaim => phase[seen] \notin Holding \cup {"idle"}

\* A cleaner only moves among the phases after the command.
LEMMA CleanerPhases ==
  ASSUME ClaimsTypeOK, NEW p \in Cleaners, CleanerStep(p)
  PROVE  /\ \A q \in Cleaners : q # p => phase'[q] = phase[q]
         /\ phase[p] \in {"cleaning", "verifying"}
         /\ phase'[p] \in {"cleaning", "verifying", "releasing", "ended", "idle"}
         /\ phase'[p] = "idle" => p = Operator
         /\ UNCHANGED <<claim, receipts, seen>>
<1> USE DEF To
<1>1. CASE Listing(p)
  BY <1>1 DEF Listing, ClaimsTypeOK
<1>2. CASE RemoveListed(p)
  <2>1. phase' = phase \/ phase' = [phase EXCEPT ![p] = "verifying"]
    BY <1>2 DEF RemoveListed
  <2> QED
    BY <1>2, <2>1 DEF RemoveListed, ClaimsTypeOK
<1>3. CASE NothingToRemove(p)
  <2>1. phase' = phase \/ phase' = [phase EXCEPT ![p] = "verifying"]
    BY <1>3 DEF NothingToRemove
  <2> QED
    BY <1>3, <2>1 DEF NothingToRemove, ClaimsTypeOK
<1>4. CASE Verify(p)
  <2>1. \/ phase' = phase
        \/ phase' = [phase EXCEPT ![p] = "releasing"]
        \/ phase' = [phase EXCEPT ![p] = "ended"]
        \/ p = Operator /\ phase' = [phase EXCEPT ![p] = "idle"]
    BY <1>4 DEF Verify, Fails, Ends
  <2> QED
    BY <1>4, <2>1 DEF Verify, ClaimsTypeOK
<1> QED
  BY <1>1, <1>2, <1>3, <1>4 DEF CleanerStep

\* An invocation takes the claim when nobody has it, and gives up at most its own.
LEMMA InvocationClaim ==
  ASSUME ClaimsTypeOK, NEW i \in Invocations, InvocationStep(i)
  PROVE  /\ seen' = seen
         /\ \A q \in Cleaners : q # i => phase'[q] = phase[q]
         /\ \/ claim' = claim
            \/ claim = NoClaim /\ claim' = i
            \/ claim = i /\ claim' = NoClaim /\ phase'[i] = "ended"
         /\ phase'[i] \in Holding => phase[i] \in Holding \/ (phase[i] = "idle" /\ claim' = i)
         /\ phase'[i] # "idle"
<1> USE DEF To, Ends, Holding, ClaimsTypeOK, Cleaners
<1>1. CASE Create(i)          BY <1>1 DEF Create
<1>2. CASE CreateFails(i)     BY <1>2 DEF CreateFails
<1>3. CASE Inspect(i)
  <2>1. phase' \in {phase, [phase EXCEPT ![i] = "rejecting"], [phase EXCEPT ![i] = "confirming"]}
    BY <1>3 DEF Inspect
  <2> QED
    BY <1>3, <2>1 DEF Inspect
<1>4. CASE Confirm(i)         BY <1>4 DEF Confirm
<1>5. CASE Reject(i)          BY <1>5 DEF Reject
<1>6. CASE ReleaseRejected(i) BY <1>6 DEF ReleaseRejected, RemoveMarker
<1>7. CASE Use(i)             BY <1>7 DEF Use
<1>8. CASE CommandEnds(i)     BY <1>8 DEF CommandEnds
<1>9. CASE Crash(i)           BY <1>9 DEF Crash
<1>10. CASE Retry(i)          BY <1>10 DEF Retry
<1>11. CASE Owned(i)          BY <1>11 DEF Owned
<1>12. CASE ReleaseOwned(i)   BY <1>12 DEF ReleaseOwned, RemoveMarker
<1>13. CASE ReleaseFails(i)   BY <1>13 DEF ReleaseFails, RemoveMarker
<1> QED
  BY <1>1, <1>2, <1>3, <1>4, <1>5, <1>6, <1>7, <1>8, <1>9, <1>10, <1>11, <1>12, <1>13
  DEF InvocationStep

LEMMA ExclusiveStep == ClaimsTypeOK /\ ExclusiveInv /\ [ClaimsNext]_cvars => ExclusiveInv'
<1> SUFFICES ASSUME ClaimsTypeOK, ExclusiveInv, [ClaimsNext]_cvars
             PROVE  ExclusiveInv'
  OBVIOUS
<1> USE ClaimsAssumption
<1>1. ASSUME NEW i \in Invocations, InvocationStep(i)
      PROVE  ExclusiveInv'
  <2>1. \A j \in Invocations : phase'[j] \in Holding => claim' = j
    BY <1>1, InvocationClaim DEF ExclusiveInv, NamespaceIsExclusive, Holding, Cleaners
  <2>2. seen' # NoClaim => phase'[seen'] \notin Holding \cup {"idle"}
    BY <1>1, InvocationClaim DEF ExclusiveInv, ClaimsTypeOK, Holding, Cleaners
  <2> QED
    BY <2>1, <2>2 DEF ExclusiveInv, NamespaceIsExclusive, Holding
<1>2. ASSUME NEW p \in Cleaners, CleanerStep(p)
      PROVE  ExclusiveInv'
  <2>1. \A j \in Invocations : phase'[j] \in Holding => phase[j] \in Holding
    BY <1>2, CleanerPhases DEF Holding, Cleaners
  <2>2. \A j \in Invocations : phase'[j] = "idle" => phase[j] = "idle"
    BY <1>2, CleanerPhases DEF Cleaners
  <2>3. claim' = claim /\ seen' = seen
    BY <1>2, CleanerPhases
  <2> QED
    BY <2>1, <2>2, <2>3 DEF ExclusiveInv, NamespaceIsExclusive, Holding, ClaimsTypeOK
<1>3. CASE Deliberate
  <2>1. \A j \in Invocations : phase'[j] = phase[j]
    BY <1>3 DEF Deliberate, To, ClaimsTypeOK, Cleaners
  <2> QED
    BY <1>3, <2>1 DEF Deliberate, ExclusiveInv, NamespaceIsExclusive, Holding, ClaimsTypeOK
<1>4. CASE ReleaseSeen
  <2>1. \A j \in Invocations : phase'[j] = phase[j]
    BY <1>4 DEF ReleaseSeen, To, ClaimsTypeOK, Cleaners
  <2>2. claim' = claim \/ (seen # NoClaim /\ claim = seen)
    BY <1>4 DEF ReleaseSeen, RemoveMarker
  <2>3. \A j \in Invocations : phase[j] \in Holding => claim' = j
    BY <2>2 DEF ExclusiveInv, NamespaceIsExclusive, Holding
  <2> QED
    BY <1>4, <2>1, <2>3 DEF ReleaseSeen, ExclusiveInv, NamespaceIsExclusive, Holding
<1>5. CASE UNCHANGED cvars
  BY <1>5 DEF cvars, ExclusiveInv, NamespaceIsExclusive
<1> QED
  BY <1>1, <1>2, <1>3, <1>4, <1>5, StepCases

\* At most one invocation works in the namespace, whichever Docker commands fail with or
\* without effect, and whenever an operator cleans up.
THEOREM ClaimIsExclusive == ClaimsSpec => []NamespaceIsExclusive
<1>1. ClaimsInit => ExclusiveInv
  BY DEF ClaimsInit, ExclusiveInv, NamespaceIsExclusive, Cleaners
<1>2. ExclusiveInv => NamespaceIsExclusive
  BY DEF ExclusiveInv
<1> QED
  BY <1>1, <1>2, ExclusiveStep, ClaimsTypeCorrect, PTL DEF ClaimsSpec

------------------------------------------------------------------------------
(* What a success leaves behind *)

Gone(i, k) == <<i, k>> \notin resources

\* Why PassedIsClean holds: as long as no removal or listing has failed, the kinds the
\* verification has passed are empty, and so are all of them when the claim is released.
CleanFor(i) ==
  /\ phase[i] = "verifying" /\ ~failed[i] => \A n \in 1..(position[i] - 1) : Gone(i, Kinds[n])
  /\ phase[i] = "releasing" => \A k \in KindSet : Gone(i, k)
  /\ phase[i] = "ended" /\ result[i] = 0 =>
       i \notin receipts /\ claim # i /\ \A k \in KindSet : Gone(i, k)

CleanInv == \A i \in Invocations : CleanFor(i)

\* A step of another leaves it alone if it changes nothing of i's and gives i no claim.
LEMMA CleanKept ==
  ASSUME NEW i \in Invocations, CleanFor(i),
         phase'[i] = phase[i], position'[i] = position[i], failed'[i] = failed[i],
         result'[i] = result[i], i \in receipts' => i \in receipts,
         claim' = i => claim = i \/ phase[i] # "ended",
         \A k : <<i, k>> \in resources' => <<i, k>> \in resources
  PROVE  CleanFor(i)'
  BY DEF CleanFor, Gone

LEMMA CleanInvocation ==
  ASSUME ClaimsTypeOK, CleanInv, NEW i \in Invocations, InvocationStep(i)
  PROVE  CleanInv'
<1>1. ASSUME NEW j \in Invocations, j # i
      PROVE  CleanFor(j)'
  <2>1. CleanFor(j)
    BY <1>1 DEF CleanInv
  <2>2. /\ phase'[j] = phase[j]
        /\ claim' = j => claim = j
    BY <1>1, InvocationClaim, ClaimsAssumption DEF Cleaners
  <2>3. /\ position'[j] = position[j] /\ failed'[j] = failed[j] /\ result'[j] = result[j]
        /\ j \in receipts' => j \in receipts
        /\ \A k : <<j, k>> \in resources' => <<j, k>> \in resources
    <3> USE <1>1 DEF ClaimsTypeOK, Cleaners, Ends
    <3>1. CASE Create(i)          BY <3>1 DEF Create
    <3>2. CASE CreateFails(i)     BY <3>2 DEF CreateFails
    <3>3. CASE Inspect(i)         BY <3>3 DEF Inspect
    <3>4. CASE Confirm(i)         BY <3>4 DEF Confirm
    <3>5. CASE Reject(i)          BY <3>5 DEF Reject
    <3>6. CASE ReleaseRejected(i) BY <3>6 DEF ReleaseRejected
    <3>7. CASE Use(i)             BY <3>7 DEF Use
    <3>8. CASE CommandEnds(i)     BY <3>8 DEF CommandEnds
    <3>9. CASE Crash(i)           BY <3>9 DEF Crash
    <3>10. CASE Retry(i)          BY <3>10 DEF Retry
    <3>11. CASE Owned(i)          BY <3>11 DEF Owned
    <3>12. CASE ReleaseOwned(i)   BY <3>12 DEF ReleaseOwned
    <3>13. CASE ReleaseFails(i)   BY <3>13 DEF ReleaseFails
    <3> QED
      BY <3>1, <3>2, <3>3, <3>4, <3>5, <3>6, <3>7, <3>8, <3>9, <3>10, <3>11, <3>12, <3>13
      DEF InvocationStep
  <2> QED
    BY <2>1, <2>2, <2>3, CleanKept
<1>2. CleanFor(i)'
  <2>1. CASE ReleaseOwned(i)
    <3>1. \A k \in KindSet : Gone(i, k)
      BY <2>1 DEF ReleaseOwned, CleanInv, CleanFor
    <3>2. phase'[i] = "ended" /\ i \notin receipts' /\ claim' # i /\ resources' = resources
      BY <2>1, ClaimsAssumption DEF ReleaseOwned, RemoveMarker, To, ClaimsTypeOK, Cleaners
    <3> QED
      BY <3>1, <3>2 DEF CleanFor, Gone
  <2>2. CASE ~ReleaseOwned(i)
    <3>1. phase'[i] \notin {"verifying", "releasing"}
          /\ (phase'[i] = "ended" => result'[i] = 1)
      <4> USE DEF ClaimsTypeOK, Cleaners, Ends, To
      <4>1. CASE Create(i)          BY <4>1 DEF Create
      <4>2. CASE CreateFails(i)     BY <4>2 DEF CreateFails
      <4>3. CASE Inspect(i)
        <5>1. phase' \in {phase, [phase EXCEPT ![i] = "rejecting"], [phase EXCEPT ![i] = "confirming"]}
          BY <4>3 DEF Inspect
        <5> QED
          BY <4>3, <5>1 DEF Inspect
      <4>4. CASE Confirm(i)         BY <4>4 DEF Confirm
      <4>5. CASE Reject(i)          BY <4>5 DEF Reject
      <4>6. CASE ReleaseRejected(i) BY <4>6 DEF ReleaseRejected
      <4>7. CASE Use(i)             BY <4>7 DEF Use
      <4>8. CASE CommandEnds(i)     BY <4>8 DEF CommandEnds
      <4>9. CASE Crash(i)           BY <4>9 DEF Crash
      <4>10. CASE Retry(i)          BY <4>10 DEF Retry
      <4>11. CASE Owned(i)          BY <4>11 DEF Owned
      <4>12. CASE ReleaseFails(i)   BY <4>12 DEF ReleaseFails
      <4> QED
        BY <2>2, <4>1, <4>2, <4>3, <4>4, <4>5, <4>6, <4>7, <4>8, <4>9, <4>10, <4>11, <4>12
        DEF InvocationStep
    <3> QED
      BY <3>1 DEF CleanFor
  <2> QED
    BY <2>1, <2>2
<1> QED
  BY <1>1, <1>2 DEF CleanInv

LEMMA CleanCleaner ==
  ASSUME ClaimsTypeOK, CleanInv, NEW p \in Cleaners, CleanerStep(p)
  PROVE  CleanInv'
<1>1. ASSUME NEW j \in Invocations, j # p
      PROVE  CleanFor(j)'
  <2>1. CleanFor(j)
    BY DEF CleanInv
  <2>2. phase'[j] = phase[j] /\ claim' = claim /\ receipts' = receipts
    BY <1>1, CleanerPhases DEF Cleaners
  <2>3. /\ position'[j] = position[j] /\ failed'[j] = failed[j] /\ result'[j] = result[j]
        /\ \A k : <<j, k>> \in resources' => <<j, k>> \in resources
    <3> USE <1>1 DEF ClaimsTypeOK, Cleaners
    <3>1. CASE Listing(p)
      BY <3>1 DEF Listing
    <3>2. CASE RemoveListed(p)
      <4>1. /\ failed' \in {failed, [failed EXCEPT ![p] = TRUE]}
            /\ \E n : position' \in {position, [position EXCEPT ![p] = n]}
            /\ \A r : r \in resources' => r \in resources
        BY <3>2 DEF RemoveListed
      <4> QED
        BY <3>2, <4>1 DEF RemoveListed
    <3>3. CASE NothingToRemove(p)
      <4>1. /\ failed' \in {failed, [failed EXCEPT ![p] = TRUE]}
            /\ \E n : position' \in {position, [position EXCEPT ![p] = n]}
        BY <3>3 DEF NothingToRemove
      <4> QED
        BY <3>3, <4>1 DEF NothingToRemove
    <3>4. CASE Verify(p)
      <4>1. /\ \E b : failed' = [failed EXCEPT ![p] = b]
            /\ \E n : position' = [position EXCEPT ![p] = n]
            /\ result' = result \/ result' = [result EXCEPT ![p] = 1]
        BY <3>4 DEF Verify, Fails, Ends
      <4> QED
        BY <3>4, <4>1 DEF Verify
    <3> QED
      BY <3>1, <3>2, <3>3, <3>4 DEF CleanerStep
  <2> QED
    BY <2>1, <2>2, <2>3, CleanKept
<1>2. ASSUME p \in Invocations
      PROVE  CleanFor(p)'
  <2> USE DEF To
  <2>1. CASE Listing(p)
    BY <2>1, CleanerPhases DEF Listing, CleanFor
  <2>2. CASE RemoveListed(p) \/ NothingToRemove(p)
    <3>1. \/ phase' = phase
          \/ phase' = [phase EXCEPT ![p] = "verifying"] /\ position' = [position EXCEPT ![p] = 1]
      <4>1. CASE RemoveListed(p)
        BY <4>1 DEF RemoveListed
      <4>2. CASE NothingToRemove(p)
        BY <4>2 DEF NothingToRemove
      <4> QED
        BY <2>2, <4>1, <4>2
    <3>2. phase[p] = "cleaning"
      BY <2>2 DEF RemoveListed, NothingToRemove
    <3> QED
      BY <1>2, <3>1, <3>2 DEF CleanFor, ClaimsTypeOK
  <2>3. CASE Verify(p)
    <3> DEFINE bad == failed[p] \/ OfKind(Kinds[position[p]]) # {}
    <3>1. ~bad => \A n \in 1..position[p] : Gone(p, Kinds[n])
      <4> SUFFICES ASSUME ~bad, NEW n \in 1..position[p]
                   PROVE  Gone(p, Kinds[n])
        OBVIOUS
      <4>1. CASE n = position[p]
        BY <4>1 DEF OfKind, Gone
      <4>2. CASE n # position[p]
        BY <1>2, <2>3, <4>2, KindsFacts DEF Verify, CleanInv, CleanFor, ClaimsTypeOK
      <4> QED
        BY <4>1, <4>2
    <3>2. resources' = resources
      BY <2>3 DEF Verify
    <3>3. CASE position[p] < Len(Kinds)
      <4>1. /\ phase' = phase /\ phase[p] = "verifying"
            /\ position' = [position EXCEPT ![p] = @ + 1]
            /\ failed' = [failed EXCEPT ![p] = bad]
        BY <2>3, <3>3 DEF Verify
      <4> HIDE DEF bad
      <4>2. position'[p] = position[p] + 1 /\ failed'[p] = bad
        BY <4>1 DEF ClaimsTypeOK
      <4>3. position'[p] - 1 = position[p]
        BY <4>2, KindsFacts DEF ClaimsTypeOK
      <4> QED
        BY <3>1, <3>2, <4>1, <4>2, <4>3 DEF CleanFor, Gone
    <3>4. CASE ~(position[p] < Len(Kinds))
      <4>1. position[p] = Len(Kinds)
        BY <3>4, KindsFacts DEF ClaimsTypeOK
      <4>2. CASE bad
        <5>1. phase'[p] = "ended" /\ result'[p] = 1
          BY <1>2, <2>3, <3>4, <4>2, ClaimsAssumption DEF Verify, Fails, Ends, ClaimsTypeOK, Cleaners
        <5> QED
          BY <5>1 DEF CleanFor
      <4>3. CASE ~bad
        <5>1. phase'[p] = "releasing"
          BY <2>3, <3>4, <4>3 DEF Verify, ClaimsTypeOK
        <5>2. \A k \in KindSet : Gone(p, k)
          BY <3>1, <4>1, <4>3, KindsFacts
        <5> QED
          BY <3>2, <5>1, <5>2 DEF CleanFor, Gone
      <4> QED
        BY <4>2, <4>3
    <3> QED
      BY <3>3, <3>4
  <2> QED
    BY <2>1, <2>2, <2>3 DEF CleanerStep
<1> QED
  BY <1>1, <1>2 DEF CleanInv

LEMMA CleanStep == ClaimsTypeOK /\ CleanInv /\ [ClaimsNext]_cvars => CleanInv'
<1> SUFFICES ASSUME ClaimsTypeOK, CleanInv, [ClaimsNext]_cvars
             PROVE  CleanInv'
  OBVIOUS
<1> USE DEF CleanInv, CleanFor, Gone
<1>1. CASE Deliberate \/ ReleaseSeen
  <2>1. \A j \in Invocations : phase'[j] = phase[j]
    BY <1>1, ClaimsAssumption DEF Deliberate, ReleaseSeen, To, ClaimsTypeOK, Cleaners
  <2>2. claim' = claim \/ claim' = NoClaim
    BY <1>1 DEF Deliberate, ReleaseSeen, RemoveMarker
  <2>3. UNCHANGED <<resources, receipts, position, failed, result>>
    BY <1>1 DEF Deliberate, ReleaseSeen
  <2> QED
    BY <2>1, <2>2, <2>3, ClaimsAssumption
<1>2. CASE UNCHANGED cvars
  BY <1>2 DEF cvars
<1> QED
  BY <1>1, <1>2, CleanInvocation, CleanCleaner, StepCases

\* A verification that reports success has removed its claim and every resource of its own,
\* whatever failed on the way and whoever cleaned up beside it.
THEOREM SuccessIsClean == ClaimsSpec => []PassedIsClean
<1>1. ClaimsInit => CleanInv
  BY DEF ClaimsInit, CleanInv, CleanFor, Cleaners
<1>2. CleanInv => PassedIsClean
  BY DEF CleanInv, CleanFor, PassedIsClean, Gone
<1> QED
  BY <1>1, <1>2, CleanStep, ClaimsTypeCorrect, PTL DEF ClaimsSpec

------------------------------------------------------------------------------
(* ---- scripts/migrate_vigilo_config.py ---- *)

(***************************************************************************)
(* The inductive invariant.  Whatever the step of _promote, every output   *)
(* is what the run found there or the run's own, and which of the two is a *)
(* matter of the loop's index and of the backups: so what is restored and  *)
(* unlinked is what was found.  The report in hand speaks for the output   *)
(* directory, the published one for the directory the run found.           *)
(***************************************************************************)

N == Len(Order)
Found == before[1]       \* the files the run found
Known(v) == {NoFile, Torn} \cup 0..v
Started == {"arguments", "staging", "validating", "mkdir"}
Reporting == {"reporting", "renaming"}

Shape ==
  /\ TypeOK
  /\ before \in [Names -> Known(MaxRuns)] \X BOOLEAN
  /\ spoiled \in BOOLEAN
  /\ files \in [Names -> Known(run)]
  /\ pc # "idle" => run > 0
  /\ pc # "idle" => Found \in [Names -> Known(run - 1)]
  /\ ~before[2] => Found = NoFiles

Untouched ==
  pc \in Started => <<files, dir>> = before /\ backup = NoFiles /\ at = 1 /\ moved = 0

Copied ==
  pc = "backup" =>
    /\ dir /\ files = Found /\ moved = 0 /\ at <= N
    /\ \A i \in 1..N : backup[Order[i]] = IF i < at THEN Found[Order[i]] ELSE NoFile

Replaced ==
  pc = "replace" =>
    /\ dir /\ moved < N /\ at = 1 /\ backup = Found
    /\ \A i \in 1..N : files[Order[i]] = IF i <= moved THEN run ELSE Found[Order[i]]

\* The outputs before a have been restored from their backups.
RestoredTo(a) ==
  /\ moved < N
  /\ moved > 0 => backup = Found
  /\ ~dir => backup = NoFiles
  /\ \A i \in 1..N :
       /\ backup[Order[i]] \in {NoFile, Found[Order[i]]}
       /\ files[Order[i]] = IF i <= moved /\ (i >= a \/ backup[Order[i]] = NoFile)
                            THEN run ELSE Found[Order[i]]
Restoring ==
  /\ pc = "restore" => at <= N /\ RestoredTo(at)
  /\ pc = "unlink" => RestoredTo(N + 1)

Drafted ==
  pc \in Reporting =>
    /\ draft # NoReport /\ draft.run = run /\ draft.ok = (exit = 0)
    /\ draft.ok => Whole(run)
    /\ ~draft.ok /\ ~spoiled => <<files, dir>> = before

Standing == IF pc \in Promoting THEN Found ELSE files
Truthful ==
  report # NoReport =>
    /\ report.run <= run /\ (pc # "idle" => report.run < run)
    /\ ~spoiled => IF report.ok
                   THEN \E v \in report.run..run : \A n \in Names : Standing[n] = v
                   ELSE \A n \in Names : Standing[n] # report.run

Readable ==
  /\ \A r \in {draft, report} : r # NoReport => Summary(r) = "valid"
  /\ status \in {"absent", "valid"}

MigrationInv ==
  /\ Shape /\ Untouched /\ Copied /\ Replaced /\ Restoring /\ Drafted /\ Truthful /\ Readable
  /\ OutputIsWhole /\ EndsReported

LEMMA OrderFacts ==
  /\ N \in Nat \ {0} /\ DOMAIN Order = 1..N
  /\ \A i \in 1..N : Order[i] \in Names
  /\ \A n \in Names : \E i \in 1..N : n = Order[i]
  /\ \A i, j \in 1..N : Order[i] = Order[j] => i = j
<1>1. Order \in Seq(Names) /\ Order # <<>> /\ IsInjective(Order)
  BY BoundsAssumption
<1>2. N \in Nat \ {0} /\ DOMAIN Order = 1..N
  BY <1>1 DEF N
<1>3. \A i \in 1..N : Order[i] \in Names
  BY <1>1, <1>2
<1>4. \A n \in Names : \E i \in 1..N : n = Order[i]
  BY <1>2 DEF Names, ToSet
<1>5. \A i, j \in 1..N : Order[i] = Order[j] => i = j
  BY <1>1, <1>2 DEF IsInjective
<1> QED
  BY <1>2, <1>3, <1>4, <1>5

------------------------------------------------------------------------------
(* The documents: preflight speaks for the transforms and stays in the catalogue. *)

LEMMA RulesDoNotRaise ==
  ASSUME NEW rules, RulesIssues(rules) = {}
  PROVE  ~RulesRaise(rules)
<1>1. rules # Wrong
  BY DEF RulesIssues
<1>2. \A r \in ToSet(rules) : RuleIssues(r) = {}
  BY <1>1 DEF RulesIssues
<1>3. ASSUME NEW r \in ToSet(rules), r # Wrong
      PROVE  Given(r.priority) /\ MatchIssues(r.match) = {} /\ WindowIssues(r.window) = {}
  <2>1. RuleIssues(r) = {}
    BY <1>2
  <2> QED
    BY <1>3, <2>1 DEF RuleIssues, Issue
<1>4. ASSUME NEW m, MatchIssues(m) = {}, m # Wrong
      PROVE  Wrong \notin {m.host, m.service, m.tags}
  BY <1>4 DEF MatchIssues, Issue
<1>5. ASSUME NEW w, WindowIssues(w) = {}, Given(w)
      PROVE  Wrong \notin ToSet(Or(w.groupBy, <<>>))
  BY <1>5 DEF WindowIssues, Issue, GroupByIssues, Unsupported
<1> QED
  BY <1>3, <1>4, <1>5 DEF RulesRaise, Given

LEMMA TopologyDoesNotRaise ==
  ASSUME NEW topology, TopologyIssues(topology) = {}
  PROVE  ~TopologyRaises(topology)
BY DEF TopologyIssues, TopologyRaises, Issue

LEMMA PluginsDoNotRaise ==
  ASSUME NEW plugins, PluginsIssues(plugins) = {}
  PROVE  ~PluginsRaise(plugins)
<1>1. plugins # Wrong /\ plugins.outputs # Wrong
  BY DEF PluginsIssues, Issue
<1>2. \A o \in ToSet(Or(plugins.outputs, <<>>)) : OutputIssues(o) = {}
  BY <1>1 DEF PluginsIssues
<1>3. ASSUME NEW o, OutputIssues(o) = {}, o.body # Wrong
      PROVE  /\ o.name # "placeholder" /\ o.body.config # Wrong
             /\ o.body.config.useTls # Wrong /\ o.body.config.host # "placeholder"
  <2> DEFINE b == o.body  c == o.body.config
  <2>1. o.name # "placeholder"
    BY <1>3 DEF OutputIssues, Issue
  <2>2. /\ b.module # "other output" /\ b.module \in {"email", "other output"}
        /\ ~(b.module = "email" /\ b.class # "EmailPlugin")
    BY <1>3 DEF OutputIssues
  <2>3. (IF c = Wrong THEN {"unsupported_plugin_option"}
         ELSE Issue(c.credential, "plaintext_smtp_credentials")
              \cup Issue(c.unknown \/ c.useTls = Wrong \/ c.host = "placeholder",
                         "unsupported_plugin_option")) = {}
    BY <1>3, <2>2 DEF OutputIssues
  <2>4. c # Wrong /\ c.useTls # Wrong /\ c.host # "placeholder"
    BY <2>3 DEF Issue
  <2> QED
    BY <2>1, <2>4
<1> QED
  BY <1>1, <1>2, <1>3 DEF PluginsRaise

LEMMA PreflightSpeaks ==
  ASSUME NEW d, Preflight(d) = {}
  PROVE  ~TransformRaises(d)
<1>1. /\ WrapperIssues(d.rulesWrapper) = {} /\ WrapperIssues(d.topologyWrapper) = {}
      /\ RulesIssues(RulesOf(d)) = {} /\ TopologyIssues(TopologyOf(d)) = {}
      /\ PluginsIssues(d.plugins) = {}
  BY DEF Preflight
<1>2. RulesOf(d) = d.rules /\ TopologyOf(d) = d.topology
  BY <1>1 DEF WrapperIssues, Issue, RulesOf, TopologyOf
<1> QED
  BY <1>1, <1>2, RulesDoNotRaise, TopologyDoesNotRaise, PluginsDoNotRaise DEF TransformRaises

LEMMA PreflightIsCatalogued == \A d : Preflight(d) \subseteq CatalogCodes
<1>0. \A condition, code : Issue(condition, code) \subseteq {code}
  BY DEF Issue
<1> USE DEF Issue
<1>1. \A tags : TagIssues(tags) \subseteq CatalogCodes
  BY DEF TagIssues, CatalogCodes
<1>2. \A match : MatchIssues(match) \subseteq CatalogCodes
  BY <1>1 DEF MatchIssues, CatalogCodes
<1>3. \A window : WindowIssues(window) \subseteq CatalogCodes
  BY DEF WindowIssues, GroupByIssues, CatalogCodes
<1>4. \A summary : SummaryIssues(summary) \subseteq CatalogCodes
  BY DEF SummaryIssues, CatalogCodes
<1>5. \A rule : RuleIssues(rule) \subseteq CatalogCodes
  BY <1>2, <1>3, <1>4 DEF RuleIssues, CatalogCodes
<1>7. \A entry : HostnameIssues(entry) \subseteq CatalogCodes
  BY DEF HostnameIssues, CatalogCodes
<1>8. \A entry : SubnetIssues(entry) \subseteq CatalogCodes
  BY DEF SubnetIssues, CatalogCodes
<1>10. \A output : OutputIssues(output) \subseteq CatalogCodes
  <2> TAKE output
  <2>1. /\ \A condition : Issue(condition, "unsupported_plugin_option") \subseteq CatalogCodes
        /\ \A condition : Issue(condition, "unknown_source_field") \subseteq CatalogCodes
        /\ \A condition : Issue(condition, "plaintext_smtp_credentials") \subseteq CatalogCodes
    BY <1>0 DEF CatalogCodes
  <2>2. {"unsupported_plugin_class"} \subseteq CatalogCodes
        /\ {"unsupported_plugin_type"} \subseteq CatalogCodes
        /\ {"unsupported_plugin_option"} \subseteq CatalogCodes
    BY DEF CatalogCodes
  <2> HIDE DEF Issue
  <2>3. CASE output.body = Wrong
    BY <2>1, <2>2, <2>3 DEF OutputIssues
  <2>4. CASE output.body # Wrong /\ (output.body.module # "email" \/ output.body.class # "EmailPlugin")
    BY <2>1, <2>2, <2>4 DEF OutputIssues
  <2>5. CASE output.body # Wrong /\ ~(output.body.module # "email" \/ output.body.class # "EmailPlugin")
    <3>1. CASE output.body.config = Wrong
      BY <2>1, <2>2, <2>5, <3>1 DEF OutputIssues
    <3>2. CASE output.body.config # Wrong
      BY <2>1, <2>2, <2>5, <3>2, ZenonT(30) DEF OutputIssues
    <3> QED
      BY <3>1, <3>2
  <2> QED
    BY <2>3, <2>4, <2>5
<1>11. \A plugins : PluginsIssues(plugins) \subseteq CatalogCodes
  BY <1>10 DEF PluginsIssues, CatalogCodes
<1>12. \A wrapper : WrapperIssues(wrapper) \subseteq CatalogCodes
  BY DEF WrapperIssues, CatalogCodes
<1>13. \A rules, plugins : UnknownActions(rules, plugins) \subseteq CatalogCodes
  BY DEF UnknownActions, CatalogCodes
<1> HIDE DEF Issue
<1>6. \A rules : RulesIssues(rules) \subseteq CatalogCodes
  <2> TAKE rules
  <2>1. {"invalid_rule_severity", "duplicate_rule_priority"} \subseteq CatalogCodes
    BY DEF CatalogCodes
  <2>2. UNION {RuleIssues(r) : r \in ToSet(rules)} \subseteq CatalogCodes
    BY <1>5
  <2>3. CASE rules = Wrong
    BY <2>1, <2>3 DEF RulesIssues
  <2>4. CASE rules # Wrong
    <3> DEFINE U == UNION {RuleIssues(r) : r \in ToSet(rules)}
               D == Issue(DuplicatePriority(rules), "duplicate_rule_priority")
    <3>1. RulesIssues(rules) = U \cup D
      BY <2>4 DEF RulesIssues
    <3>2. D \subseteq CatalogCodes /\ U \subseteq CatalogCodes
      BY <1>0, <2>1, <2>2
    <3> HIDE DEF U, D
    <3> QED
      BY <3>1, <3>2
  <2> QED
    BY <2>3, <2>4
<1>9. \A topology : TopologyIssues(topology) \subseteq CatalogCodes
  <2> TAKE topology
  <2>1. {"unsupported_hostname_topology", "unknown_source_field", "invalid_topology_section"}
          \subseteq CatalogCodes
    BY DEF CatalogCodes
  <2>2. UNION {HostnameIssues(e) : e \in ToSet(Or(topology.hostnames, <<>>))} \subseteq CatalogCodes
    BY <1>7
  <2>3. UNION {SubnetIssues(e) : e \in ToSet(Or(topology.subnets, <<>>))} \subseteq CatalogCodes
    BY <1>8
  <2>4. CASE topology = Wrong
    BY <2>1, <2>4 DEF TopologyIssues
  <2>5. CASE topology # Wrong
    <3> DEFINE H == UNION {HostnameIssues(e) : e \in ToSet(Or(topology.hostnames, <<>>))}
               S == UNION {SubnetIssues(e) : e \in ToSet(Or(topology.subnets, <<>>))}
               U == Issue(topology.unknown, "unknown_source_field")
               W == Issue(Wrong \in {topology.hostnames, topology.subnets}, "invalid_topology_section")
    <3>1. TopologyIssues(topology) = U \cup W \cup H \cup S
      BY <2>5 DEF TopologyIssues
    <3>2. /\ U \subseteq CatalogCodes /\ W \subseteq CatalogCodes
          /\ H \subseteq CatalogCodes /\ S \subseteq CatalogCodes
      BY <1>0, <2>1, <2>2, <2>3
    <3> HIDE DEF H, S, U, W
    <3> QED
      BY <3>1, <3>2
  <2> QED
    BY <2>4, <2>5
<1> QED
  BY <1>6, <1>9, <1>11, <1>12, <1>13 DEF Preflight

------------------------------------------------------------------------------
(* The report *)

LEMMA MinOfTwo ==
  ASSUME NEW a \in Int, NEW b \in Int
  PROVE  Min({a, b}) = IF a <= b THEN a ELSE b
BY DEF Min

\* What _build_report caps, counts and truncates is what _validate_migration_report accepts.
LEMMA ReportIsValid ==
  ASSUME NEW ok \in BOOLEAN, NEW code \in FailureCodes \cup {"none"}, ok <=> code = "none",
         NEW codes \in SUBSET ReportCodes, NEW issues \in Nat, ok => issues = 0,
         NEW fit \in 0..MaxFit, run \in 0..MaxRuns
  PROVE  LET r == Report(ok, code, codes, issues, fit)
         IN  r \in Reports /\ r # NoReport /\ r.run = run /\ r.ok = ok /\ Summary(r) = "valid"
<1> DEFINE emitted == IF issues <= fit THEN issues ELSE fit
           count == IF issues <= MaxIssues THEN issues ELSE MaxIssues
           r == Report(ok, code, codes, issues, fit)
<1>1. /\ MaxFit \in Nat /\ MaxIssues \in Nat /\ MaxFit < MaxIssues /\ fit \in Nat /\ fit <= MaxFit
      /\ NoReport \notin Reports
  BY BoundsAssumption
<1>2. Min({issues, fit}) = emitted /\ Min({issues, MaxIssues}) = count
  BY <1>1, MinOfTwo
<1>3. /\ r.run = run /\ r.ok = ok /\ r.outcome = (IF ok THEN "success" ELSE "failure")
      /\ r.code = code /\ r.generated = ok /\ r.emitted = emitted
      /\ r.codes = (IF emitted = 0 THEN {} ELSE codes)
      /\ r.count = count /\ r.truncated = (emitted < issues)
  BY <1>2 DEF Report
<1>4. r \in Reports
  <2>1. emitted \in 0..MaxFit /\ count \in 0..MaxIssues
    BY <1>1
  <2>2. r = [run |-> run, ok |-> ok, outcome |-> (IF ok THEN "success" ELSE "failure"), code |-> code,
             generated |-> ok, emitted |-> emitted, codes |-> (IF emitted = 0 THEN {} ELSE codes),
             count |-> count, truncated |-> (emitted < issues)]
    BY <1>2 DEF Report
  <2> HIDE DEF emitted, count, r
  <2> QED
    BY <2>1, <2>2 DEF Reports
<1>5. Summary(r) = "valid"
  <2> HIDE DEF r
  <2>1. ~(r.ok /\ (~r.generated \/ r.emitted > 0)) /\ ~(~r.ok /\ r.generated)
    BY <1>1, <1>3
  <2>2. /\ r.codes \subseteq ReportCodes /\ r.code \in FailureCodes \cup {"none"}
        /\ (r.outcome = "success") = r.ok /\ (r.outcome = "success") = (r.code = "none")
    <3>1. CASE ok
      BY <1>3, <3>1
    <3>2. CASE ~ok
      BY <1>3, <3>2
    <3> QED
      BY <3>1, <3>2
  <2>3. /\ ~(r.count > MaxIssues) /\ ~(r.emitted > r.count)
        /\ ~(r.truncated /\ r.count < MaxIssues /\ r.emitted = r.count)
        /\ ~(~r.truncated /\ r.count # r.emitted)
    <3>1. r.truncated <=> emitted < issues
      BY <1>3
    <3>2. r.count = count /\ r.emitted = emitted
      BY <1>3
    <3> QED
      BY <1>1, <3>1, <3>2
  <2> QED
    BY <2>1, <2>2, <2>3, Zenon DEF Summary
<1> QED
  BY <1>1, <1>3, <1>4, <1>5

------------------------------------------------------------------------------
(* Steps outside _promote *)

Places == Promoting \cup {"idle", "arguments", "inputs", "documents", "staging", "validating",
                          "reporting", "renaming"}

\* The step ends with a report of this run in hand.
Drafts(ok) ==
  draft' \in Reports /\ draft' # NoReport /\ draft'.run = run /\ draft'.ok = ok
  /\ Summary(draft') = "valid"

LEMMA FinishDrafts ==
  ASSUME run \in 0..MaxRuns,
         NEW ok \in BOOLEAN, NEW code \in FailureCodes \cup {"none"}, ok <=> code = "none",
         NEW codes \in SUBSET ReportCodes, NEW issues \in Nat, ok => issues = 0, NEW e,
         Finish(ok, code, codes, issues, e)
  PROVE  Drafts(ok) /\ pc' = "reporting" /\ exit' = e
<1>1. PICK fit \in 0..MaxFit : draft' = Report(ok, code, codes, issues, fit)
  BY DEF Finish
<1>2. LET r == Report(ok, code, codes, issues, fit)
      IN  r \in Reports /\ r # NoReport /\ r.run = run /\ r.ok = ok /\ Summary(r) = "valid"
  BY ReportIsValid
<1> QED
  BY <1>1, <1>2 DEF Finish, Drafts

\* A refusal reports what it refuses and touches nothing.
Refusal ==
  /\ pc \in Started \ {"mkdir"}
  /\ Quiet /\ pc' = "reporting" /\ exit' \in {1, 2} /\ Drafts(FALSE)

LEMMA RefusalsRefuse ==
  ASSUME run \in 0..MaxRuns, RefuseArguments \/ RefuseInputs \/ RefuseDocuments \/ RefuseStaged
  PROVE  Refusal
<1>1. /\ {"argument", "input_validation", "source_validation", "cataloged_incompatibility",
          "staged_validation", "promotion_failure"} = FailureCodes
      /\ "none" \notin FailureCodes
  BY DEF FailureCodes
<1>2. /\ {} \subseteq ReportCodes /\ {"duplicate_flag"} \subseteq ReportCodes
      /\ {"invalid_input_path"} \subseteq ReportCodes /\ {"invalid_yaml"} \subseteq ReportCodes
      /\ {"validation_failure"} \subseteq ReportCodes
      /\ \A d : Preflight(d) \subseteq ReportCodes
  BY CodesAssumption, PreflightIsCatalogued DEF CatalogCodes
<1>3. ASSUME NEW code \in FailureCodes, NEW codes \in SUBSET ReportCodes, NEW n \in Nat, NEW e,
             Finish(FALSE, code, codes, n, e)
      PROVE  Drafts(FALSE) /\ pc' = "reporting" /\ exit' = e
  BY <1>1, <1>3, FinishDrafts
<1>4. CASE RefuseArguments
  BY <1>1, <1>2, <1>3, <1>4 DEF RefuseArguments, Refusal, Started
<1>5. CASE RefuseInputs
  <2>1. PICK n \in 1..3 : \/ Finish(FALSE, "input_validation", {"invalid_input_path"}, n, 1)
                         \/ Finish(FALSE, "source_validation", {"invalid_yaml"}, n, 1)
    BY <1>5 DEF RefuseInputs
  <2>2. n \in Nat
    OBVIOUS
  <2>3. Drafts(FALSE) /\ pc' = "reporting" /\ exit' = 1
    BY <1>1, <1>2, <1>3, <2>1, <2>2
  <2> QED
    BY <1>5, <2>3 DEF RefuseInputs, Refusal, Started
<1>6. CASE RefuseDocuments
  <2>1. PICK n \in 1..(MaxIssues + 1) :
               Finish(FALSE, "cataloged_incompatibility", Preflight(docs), n, 1)
    BY <1>6 DEF RefuseDocuments
  <2>2. n \in Nat
    OBVIOUS
  <2> QED
    BY <1>1, <1>2, <1>3, <1>6, <2>1, <2>2 DEF RefuseDocuments, Refusal, Started
<1>7. CASE RefuseStaged
  <2>1. PICK n \in 1..2 : Finish(FALSE, "staged_validation", {"validation_failure"}, n, 1)
    BY <1>7 DEF RefuseStaged
  <2>2. n \in Nat
    OBVIOUS
  <2>3. Drafts(FALSE) /\ pc' = "reporting" /\ exit' = 1
    BY <1>1, <1>2, <1>3, <2>1, <2>2
  <2> QED
    BY <1>7, <2>3 DEF RefuseStaged, Refusal, Started
<1> QED
  BY <1>4, <1>5, <1>6, <1>7

\* What is said of the outputs is untouched by a step that touches neither them nor _promote.
LEMMA OutputsFrame ==
  ASSUME MigrationInv, UNCHANGED <<run, fs, history>>, pc' \in Places, exit' \in 0..2,
         draft' \in Reports \cup {NoReport}, report' \in Reports \cup {NoReport},
         status' \in {"absent", "valid", "malformed", "invalid_summary"},
         pc' # "idle" => pc # "idle",
         pc' \in Started => pc \in Started,
         pc' \in Promoting \ {"mkdir"} => pc' = pc
  PROVE  Shape' /\ Untouched' /\ Copied' /\ Replaced' /\ Restoring'
<1> USE DEF MigrationInv, history, fs, Found, Promoting
<1>1. Shape'
  BY DEF Shape, TypeOK, Known, Places
<1>2. Untouched'
  BY DEF Untouched
<1>3. Copied' /\ Replaced'
  BY DEF Copied, Replaced
<1>4. Restoring'
  BY DEF Restoring, RestoredTo
<1> QED
  BY <1>1, <1>2, <1>3, <1>4

\* Before _promote and after it the outputs are what they were, so the published report
\* speaks for them as before.
LEMMA AccountsFrame ==
  ASSUME MigrationInv, UNCHANGED <<run, fs, history, report>>,
         pc # "idle", pc \notin Promoting, pc' \notin Promoting \ {"mkdir"},
         pc' = "mkdir" => pc \in Started
  PROVE  Truthful' /\ OutputIsWhole'
<1> USE DEF MigrationInv, history, fs, Promoting
<1>1. Truthful'
  <2>1. Standing' = Standing
    BY DEF Standing, Untouched, Found, Started
  <2>2. report' # NoReport => report.run < run /\ report.run <= run
    BY DEF Truthful
  <2>3. UNCHANGED <<run, spoiled, report>>
    OBVIOUS
  <2> QED
    BY <2>1, <2>2, <2>3 DEF Truthful
<1>2. OutputIsWhole'
  BY DEF OutputIsWhole, Whole
<1> QED
  BY <1>1, <1>2

LEMMA RefusalKeeps ==
  ASSUME MigrationInv, Refusal
  PROVE  MigrationInv'
<1> USE DEF Refusal, Quiet, Started
<1>1. draft' \in Reports /\ draft' # NoReport /\ draft'.run = run /\ ~draft'.ok
      /\ Summary(draft') = "valid" /\ draft'.ok = FALSE
  BY DEF Drafts
<1>2. UNCHANGED <<run, docs, fs, history, report, status, faulted>>
  BY DEF history
<1>3. TypeOK /\ Readable /\ status \in {"absent", "valid"}
  BY DEF MigrationInv, Shape, Readable
<1>4. Shape' /\ Untouched' /\ Copied' /\ Replaced' /\ Restoring'
  BY <1>1, <1>2, <1>3, OutputsFrame DEF TypeOK, Places, Promoting
<1>5. Truthful' /\ OutputIsWhole'
  BY <1>2, AccountsFrame DEF Promoting
<1>6. Drafted'
  <2>1. <<files, dir>> = before /\ UNCHANGED <<run, files, dir, before, spoiled>>
    BY <1>2 DEF MigrationInv, Untouched, fs, history
  <2>2. draft'.ok <=> exit' = 0
    BY <1>1
  <2>3. draft'.ok = (exit' = 0)
    BY <1>1, <2>2
  <2> QED
    BY <1>1, <2>1, <2>3 DEF Drafted
<1>7. Readable'
  BY <1>1, <1>2, <1>3 DEF Readable
<1>8. EndsReported'
  BY DEF EndsReported
<1> QED
  BY <1>4, <1>5, <1>6, <1>7, <1>8 DEF MigrationInv

\* The steps that only move on, or stop: the run has no report yet, or one in hand.
Passing ==
  /\ UNCHANGED <<run, docs, fs, report, status, history, draft>>
  /\ pc \notin Promoting /\ pc # "idle"
  /\ \/ pc \in Started /\ pc' \in Started /\ exit' \in {0, exit} /\ UNCHANGED faulted
     \/ pc' = "idle" /\ faulted' = TRUE /\ exit' = 1
     \/ pc' = "idle" /\ ~docs.reportPath /\ UNCHANGED <<exit, faulted>>
     \/ pc = "reporting" /\ pc' = "renaming" /\ UNCHANGED <<exit, faulted>>

LEMMA PassingKeeps ==
  ASSUME MigrationInv, Passing
  PROVE  MigrationInv'
<1> USE DEF Passing
<1>1. UNCHANGED <<run, docs, fs, history, report, status, draft>>
  OBVIOUS
<1>2. TypeOK /\ Readable
  BY DEF MigrationInv, Shape
<1>3. pc' \in Places /\ exit' \in 0..2
  BY <1>2 DEF TypeOK, Places, Started, Promoting
<1>4. Shape' /\ Untouched' /\ Copied' /\ Replaced' /\ Restoring'
  BY <1>1, <1>2, <1>3, OutputsFrame DEF TypeOK, Promoting, Started
<1>5. Truthful' /\ OutputIsWhole'
  BY <1>1, AccountsFrame DEF Promoting, Started
<1>6. Drafted'
  <2>1. pc' \in Reporting => pc \in Reporting /\ UNCHANGED exit
    BY DEF Reporting, Started
  <2>2. UNCHANGED <<run, files, dir, before, spoiled, draft>>
    BY DEF fs, history
  <2>3. Drafted
    BY DEF MigrationInv
  <2>4. (draft.ok => Whole(run)) = (draft.ok => Whole(run))'
    BY <2>2 DEF Whole
  <2> HIDE DEF Passing
  <2> QED
    BY <2>1, <2>2, <2>3, <2>4 DEF Drafted
<1>7. Readable'
  BY <1>1, <1>2 DEF Readable
<1>8. EndsReported'
  BY DEF EndsReported, Started
<1> QED
  BY <1>4, <1>5, <1>6, <1>7, <1>8 DEF MigrationInv

LEMMA EmitReportKeeps ==
  ASSUME MigrationInv, EmitReport
  PROVE  MigrationInv'
<1> USE DEF EmitReport
<1>1. UNCHANGED <<run, docs, exit, fs, draft, status, history, faulted>>
  OBVIOUS
<1>2. TypeOK /\ Readable /\ run \in Nat
  BY DEF MigrationInv, Shape, TypeOK
<1>3. /\ draft # NoReport /\ draft.run = run /\ draft.ok = (exit = 0)
      /\ draft.ok => Whole(run)
      /\ ~draft.ok /\ ~spoiled => <<files, dir>> = before
      /\ files \in [Names -> Known(run)] /\ run > 0
      /\ Found \in [Names -> Known(run - 1)]
  BY DEF MigrationInv, Drafted, Reporting, Shape
<1>4. Shape' /\ Untouched' /\ Copied' /\ Replaced' /\ Restoring'
  BY <1>1, <1>2, OutputsFrame DEF TypeOK, Promoting, Started, Places
<1>5. Truthful'
  <2>1. report' = draft /\ report'.run = run /\ run' = run /\ report'.ok = draft.ok
        /\ Standing' = files /\ spoiled' = spoiled /\ pc' = "idle"
    BY <1>1, <1>3 DEF Standing, Promoting, fs, history
  <2>2. CASE draft.ok
    <3>1. run \in run..run /\ \A n \in Names : files[n] = run
      BY <1>2, <1>3, <2>2 DEF Whole
    <3> QED
      BY <1>2, <2>1, <2>2, <3>1 DEF Truthful
  <2>3. CASE ~draft.ok
    <3>1. ~spoiled => \A n \in Names : files[n] # run
      <4>1. \A v \in Known(run - 1) : v # run
        <5>1. NoFile \notin Nat /\ Torn \notin Nat
          BY BoundsAssumption
        <5> QED
          BY <1>2, <5>1 DEF Known
      <4> QED
        BY <1>3, <2>3, <4>1 DEF Found
    <3> QED
      BY <1>2, <2>1, <2>3, <3>1 DEF Truthful
  <2> QED
    BY <2>2, <2>3
<1>6. OutputIsWhole'
  BY <1>1, <1>2 DEF OutputIsWhole, Whole, MigrationInv, fs, history, Promoting
<1>7. Drafted'
  BY DEF Drafted, Reporting
<1>8. Readable'
  BY <1>1, <1>2 DEF Readable
<1>9. EndsReported'
  BY <1>1, <1>3 DEF EndsReported
<1> QED
  BY <1>4, <1>5, <1>6, <1>7, <1>8, <1>9 DEF MigrationInv

LEMMA RefreshKeeps ==
  ASSUME MigrationInv, Refresh
  PROVE  MigrationInv'
<1> USE DEF Refresh
<1>1. UNCHANGED <<run, docs, pc, exit, fs, draft, report, history, faulted>>
  OBVIOUS
<1>2. status' \in {"absent", "valid"} /\ TypeOK
  BY DEF MigrationInv, Readable, Shape
<1>3. Shape' /\ Untouched' /\ Copied' /\ Replaced' /\ Restoring'
  BY <1>1, <1>2, OutputsFrame DEF TypeOK, Places
<1>4. Drafted' /\ Truthful'
  BY <1>1 DEF MigrationInv, Drafted, Truthful, Standing, Found, Whole, fs, history
<1>5. Readable'
  BY <1>1, <1>2 DEF MigrationInv, Readable
<1>6. OutputIsWhole' /\ EndsReported'
  BY <1>1 DEF MigrationInv, OutputIsWhole, EndsReported, Whole, fs, history
<1> QED
  BY <1>3, <1>4, <1>5, <1>6 DEF MigrationInv

LEMMA KnownGrows ==
  ASSUME NEW a \in Nat, NEW b \in Nat, a <= b, NEW f \in [Names -> Known(a)]
  PROVE  f \in [Names -> Known(b)]
<1>1. Known(a) \subseteq Known(b)
  BY DEF Known
<1> QED
  BY <1>1

LEMMA BeginKeeps ==
  ASSUME MigrationInv, NEW d, Begin(d)
  PROVE  MigrationInv'
<1> USE DEF Begin
<1>1. /\ run \in 0..MaxRuns /\ run < MaxRuns /\ MaxRuns \in Nat /\ run' = run + 1
      /\ files \in [Names -> Known(run)] /\ dir \in BOOLEAN /\ (~dir => files = NoFiles)
      /\ UNCHANGED <<files, dir, report, status, spoiled>> /\ before' = <<files, dir>>
  BY BoundsAssumption DEF MigrationInv, Shape, TypeOK
<1>3. Shape'
  <2>1. NoFiles \in [Names -> {NoFile, Torn} \cup 0..MaxRuns] /\ N \in Nat
    BY OrderFacts, <1>1 DEF NoFiles
  <2>2. files \in [Names -> Known(MaxRuns)] /\ files \in [Names -> Known(run + 1)]
    BY <1>1, KnownGrows
  <2>3. files \in [Names -> {NoFile, Torn} \cup 0..MaxRuns]
    BY <2>2 DEF Known
  <2>4. TypeOK'
    BY <1>1, <2>1, <2>3 DEF TypeOK, MigrationInv, Shape, Promoting, N
  <2>5. /\ before' = <<files, dir>> /\ Found' = before'[1] /\ files' = files
        /\ run' = run + 1 /\ run \in Nat /\ dir \in BOOLEAN /\ (~dir => files = NoFiles)
    BY <1>1 DEF Found
  <2>6. spoiled' \in BOOLEAN
    BY DEF Shape, MigrationInv
  <2> HIDE DEF Begin
  <2>7. Found' = files /\ before'[2] = dir
    BY <2>5
  <2>8. before' \in [Names -> Known(MaxRuns)] \X BOOLEAN
    BY <2>2, <2>5
  <2>9. run' - 1 = run /\ run' > 0
    BY <2>5
  <2>10. Found' \in [Names -> Known(run' - 1)]
    BY <1>1, <2>7, <2>9
  <2>11. files' \in [Names -> Known(run')]
    BY <2>2, <2>5
  <2>12. ~before'[2] => Found' = NoFiles
    BY <2>5, <2>7
  <2> QED
    BY <2>4, <2>6, <2>8, <2>9, <2>10, <2>11, <2>12 DEF Shape
<1>4. Untouched' /\ Copied' /\ Replaced' /\ Restoring' /\ Drafted'
  BY <1>1 DEF Untouched, Copied, Replaced, Restoring, Drafted, Reporting
<1>5. Truthful'
  <2> SUFFICES ASSUME report # NoReport
               PROVE  Truthful'
    BY DEF Truthful
  <2>1. Standing = files /\ Standing' = files
    BY DEF Standing, Promoting
  <2>2. report.run <= run /\ report.run \in Nat
    BY <1>1 DEF MigrationInv, Truthful, Shape, TypeOK, Reports
  <2>3. report.run <= run' /\ report.run < run' /\ report.run..run \subseteq report.run..run'
    BY <1>1, <2>2
  <2>4. UNCHANGED <<report, spoiled>>
    OBVIOUS
  <2> HIDE DEF Begin
  <2> QED
    BY <2>1, <2>3, <2>4 DEF Truthful, MigrationInv
<1>6. Readable' /\ OutputIsWhole' /\ EndsReported'
  BY <1>1 DEF Readable, OutputIsWhole, EndsReported, MigrationInv
<1> QED
  BY <1>3, <1>4, <1>5, <1>6 DEF MigrationInv

------------------------------------------------------------------------------
(* _promote *)

\* A step that stays inside _promote leaves to show only what the next place is about.
LEMMA PromotionFrame ==
  ASSUME MigrationInv, Promotion, UNCHANGED <<exit, draft, spoiled>>,
         pc \in Promoting, pc' \in Promoting \ {"mkdir"},
         files' \in [Names -> Known(run)], dir' \in BOOLEAN, ~dir' => files' = NoFiles,
         backup' \in [Names -> Known(MaxRuns)], at' \in 1..(N + 1), moved' \in 0..N
  PROVE  /\ Shape' /\ Untouched' /\ Drafted' /\ Truthful' /\ Readable'
         /\ OutputIsWhole' /\ EndsReported'
<1> USE DEF Promotion
<1>1. UNCHANGED <<run, docs, report, status, before, exit, draft, spoiled>>
  OBVIOUS
<1>2. run \in 0..MaxRuns /\ Known(run) \subseteq Known(MaxRuns)
  BY BoundsAssumption DEF MigrationInv, Shape, TypeOK, Known
<1>3. Shape'
  <2>1. files' \in [Names -> Known(MaxRuns)] /\ pc # "idle"
    BY <1>2 DEF Promoting
  <2>2. TypeOK'
    BY <1>1, <2>1 DEF MigrationInv, Shape, TypeOK, Known, N
  <2> QED
    BY <1>1, <2>1, <2>2 DEF MigrationInv, Shape, Found
<1>4. Untouched' /\ Drafted' /\ EndsReported' /\ OutputIsWhole'
  BY DEF Untouched, Drafted, EndsReported, OutputIsWhole, Promoting, Started, Reporting
<1>5. Truthful'
  <2>1. Standing' = Standing /\ pc # "idle"
    BY <1>1 DEF Standing, Found, Promoting
  <2> QED
    BY <1>1, <2>1 DEF Truthful, MigrationInv
<1>6. Readable'
  BY <1>1 DEF Readable, MigrationInv
<1> QED
  BY <1>3, <1>4, <1>5, <1>6

\* The end of _promote: it reports what it leaves.
LEMMA ConclusionKeeps ==
  ASSUME MigrationInv, Promotion, pc \in Promoting, pc' = "reporting",
         NEW ok \in BOOLEAN, Drafts(ok), exit' \in 0..2, exit' = 0 <=> ok,
         files' \in [Names -> Known(run)], dir' \in BOOLEAN, ~dir' => files' = NoFiles,
         backup' = NoFiles, at' \in 1..(N + 1), moved' \in 0..N, spoiled' \in BOOLEAN,
         ok => ~spoiled' /\ \A n \in Names : files'[n] = run,
         ~ok /\ ~spoiled' => ~spoiled /\ <<files, dir>>' = before
  PROVE  MigrationInv'
<1> USE DEF Promotion
<1>1. UNCHANGED <<run, docs, report, status, before>>
  OBVIOUS
<1>2. /\ run \in 0..MaxRuns /\ Known(run) \subseteq Known(MaxRuns) /\ run \in Nat
      /\ NoFiles \in [Names -> Known(MaxRuns)]
  BY BoundsAssumption DEF MigrationInv, Shape, TypeOK, Known, NoFiles
<1>3. draft' \in Reports /\ draft' # NoReport /\ draft'.run = run /\ draft'.ok = ok
      /\ Summary(draft') = "valid"
  BY DEF Drafts
<1>4. Shape'
  <2>1. files' \in [Names -> Known(MaxRuns)] /\ pc # "idle"
    BY <1>2 DEF Promoting
  <2>2. TypeOK'
    BY <1>1, <1>2, <1>3, <2>1 DEF MigrationInv, Shape, TypeOK, Known, N
  <2> QED
    BY <1>1, <2>1, <2>2 DEF MigrationInv, Shape, Found
<1>5. Untouched' /\ Copied' /\ Replaced' /\ Restoring' /\ EndsReported'
  BY DEF Untouched, Copied, Replaced, Restoring, EndsReported, Started
<1>6. Drafted'
  <2>1. draft'.ok = (exit' = 0)
    BY <1>3
  <2> QED
    BY <1>1, <1>3, <2>1 DEF Drafted, Whole
<1>7. Truthful'
  <2> SUFFICES ASSUME report # NoReport
               PROVE  Truthful'
    BY <1>1 DEF Truthful
  <2>1. /\ report.run <= run /\ report.run < run /\ report.run \in Nat /\ pc # "idle"
        /\ pc' \notin Promoting
    BY DEF MigrationInv, Truthful, Shape, TypeOK, Reports, Promoting
  <2>2. Standing = Found /\ Standing' = files'
    BY <2>1 DEF Standing
  <2>3. CASE ok
    <3>1. run \in report.run..run /\ \A n \in Names : Standing'[n] = run /\ run # report.run
      BY <1>2, <2>1, <2>2, <2>3
    <3> QED
      BY <1>1, <2>1, <2>2, <3>1 DEF Truthful
  <2>4. CASE ~ok
    <3>1. ~spoiled' => ~spoiled /\ Standing' = Standing
      BY <2>2, <2>4 DEF Found
    <3> QED
      BY <1>1, <2>1, <3>1 DEF Truthful, MigrationInv
  <2> QED
    BY <2>3, <2>4
<1>8. Readable'
  BY <1>1, <1>3 DEF Readable, MigrationInv
<1>9. OutputIsWhole'
  BY <1>1 DEF OutputIsWhole, Whole
<1> QED
  BY <1>4, <1>5, <1>6, <1>7, <1>8, <1>9 DEF MigrationInv

\* What every step of _promote may take for granted.
LEMMA PromotionFacts ==
  ASSUME MigrationInv, pc \in Promoting
  PROVE  /\ run \in 0..MaxRuns /\ MaxRuns \in Nat /\ run > 0 /\ exit \in 0..2
         /\ N \in Nat \ {0} /\ \A i \in 1..N : Order[i] \in Names
         /\ \A n \in Names : \E i \in 1..N : n = Order[i]
         /\ \A i, j \in 1..N : Order[i] = Order[j] => i = j
         /\ files \in [Names -> Known(run)] /\ dir \in BOOLEAN /\ (~dir => files = NoFiles)
         /\ backup \in [Names -> Known(MaxRuns)] /\ NoFiles \in [Names -> Known(MaxRuns)]
         /\ at \in 1..(N + 1) /\ moved \in 0..N /\ spoiled \in BOOLEAN
         /\ Found \in [Names -> Known(MaxRuns)] /\ Found \in [Names -> Known(run)]
         /\ before = <<Found, before[2]>> /\ before[2] \in BOOLEAN
         /\ (~before[2] => Found = NoFiles)
<1>1. /\ run \in 0..MaxRuns /\ MaxRuns \in Nat /\ run > 0 /\ exit \in 0..2
      /\ files \in [Names -> Known(run)] /\ dir \in BOOLEAN /\ (~dir => files = NoFiles)
      /\ backup \in [Names -> Known(MaxRuns)]
      /\ at \in 1..(N + 1) /\ moved \in 0..N /\ spoiled \in BOOLEAN
  BY BoundsAssumption DEF MigrationInv, Shape, TypeOK, Promoting, Known, N
<1>2. NoFiles \in [Names -> Known(MaxRuns)]
  BY DEF NoFiles, Known
<1>3. /\ before = <<Found, before[2]>> /\ before[2] \in BOOLEAN
      /\ Found \in [Names -> Known(MaxRuns)] /\ (~before[2] => Found = NoFiles)
  BY DEF MigrationInv, Shape, Found
<1>4. Found \in [Names -> Known(run)]
  <2>1. Found \in [Names -> Known(run - 1)]
    BY DEF MigrationInv, Shape, Promoting
  <2> QED
    BY <1>1, <2>1, KnownGrows
<1> QED
  BY <1>1, <1>2, <1>3, <1>4, OrderFacts

LEMMA PromotedOrFound ==
  ASSUME MigrationInv, pc \in Promoting
  PROVE  \A n \in Names : files[n] \in {run, Found[n]}
<1>1. CASE pc = "mkdir"
  BY <1>1 DEF MigrationInv, Untouched, Started, Found
<1>2. CASE pc = "backup"
  BY <1>2 DEF MigrationInv, Copied
<1>3. CASE pc = "replace"
  BY <1>3, PromotionFacts DEF MigrationInv, Replaced
<1>4. CASE pc = "restore"
  BY <1>4, PromotionFacts DEF MigrationInv, Restoring, RestoredTo
<1>5. CASE pc = "unlink"
  BY <1>5, PromotionFacts DEF MigrationInv, Restoring, RestoredTo
<1> QED
  BY <1>1, <1>2, <1>3, <1>4, <1>5 DEF Promoting

LEMMA MakeDirectoriesKeeps ==
  ASSUME MigrationInv, MakeDirectories
  PROVE  MigrationInv'
<1> USE DEF MakeDirectories
<1>1. pc \in Promoting /\ pc' \in Promoting \ {"mkdir"} /\ Promotion
      /\ UNCHANGED <<exit, files, backup, at, moved, draft, spoiled, before>> /\ dir'
  BY DEF Promoting, Promotion
<1>2. Shape' /\ Untouched' /\ Drafted' /\ Truthful' /\ Readable' /\ OutputIsWhole' /\ EndsReported'
  BY <1>1, PromotionFacts, PromotionFrame
<1>3. files = Found /\ backup = NoFiles /\ at = 1 /\ moved = 0
  BY DEF MigrationInv, Untouched, Started, Found
<1>4. Copied'
  BY <1>1, <1>3, PromotionFacts DEF Copied, Found, NoFiles
<1>5. Replaced' /\ Restoring'
  BY DEF Replaced, Restoring
<1> QED
  BY <1>2, <1>4, <1>5 DEF MigrationInv

LEMMA BackUpKeeps ==
  ASSUME MigrationInv, BackUp
  PROVE  MigrationInv'
<1> DEFINE n == Order[at]
<1>1. /\ pc \in Promoting /\ pc = "backup" /\ Promotion
      /\ UNCHANGED <<exit, files, dir, moved, draft, spoiled, before>>
      /\ backup' = [backup EXCEPT ![n] = files[n]]
      /\ \/ at = N /\ pc' = "replace" /\ at' = 1
         \/ at # N /\ pc' = "backup" /\ at' = at + 1
  BY DEF BackUp, Promoting, Promotion, N
<1>2. /\ dir /\ files = Found /\ moved = 0 /\ at <= N
      /\ \A i \in 1..N : backup[Order[i]] = IF i < at THEN Found[Order[i]] ELSE NoFile
  BY <1>1 DEF MigrationInv, Copied
<1>3. at \in 1..N /\ n \in Names
  BY <1>1, <1>2, PromotionFacts
<1>4. backup' \in [Names -> Known(MaxRuns)]
  BY <1>1, <1>2, <1>3, PromotionFacts
<1>5. Shape' /\ Untouched' /\ Drafted' /\ Truthful' /\ Readable' /\ OutputIsWhole' /\ EndsReported'
  <2>1. at' \in 1..(N + 1) /\ pc' \in Promoting \ {"mkdir"}
    BY <1>1, <1>3, PromotionFacts DEF Promoting
  <2> QED
    BY <1>1, <1>4, <2>1, PromotionFacts, PromotionFrame
<1>6. \A i \in 1..N : backup'[Order[i]] = IF i < at + 1 THEN Found[Order[i]] ELSE NoFile
  BY <1>1, <1>2, <1>3, PromotionFacts
<1>7. Found' = Found
  BY <1>1 DEF Found
<1>8. CASE at = N
  <2>1. backup' = Found
    <3>1. \A m \in Names : backup'[m] = Found[m]
      <4> TAKE m \in Names
      <4>1. PICK i \in 1..N : m = Order[i]
        BY <1>1, PromotionFacts
      <4> QED
        BY <1>3, <1>6, <1>8, <4>1
    <3> QED
      BY <1>1, <1>4, <3>1, PromotionFacts
  <2>2. Replaced'
    BY <1>1, <1>2, <1>7, <1>8, <2>1, PromotionFacts DEF Replaced
  <2>3. Copied' /\ Restoring'
    BY <1>1, <1>8 DEF Copied, Restoring
  <2> QED
    BY <1>5, <2>2, <2>3 DEF MigrationInv
<1>9. CASE at # N
  <2>1. at' = at + 1 /\ at' <= N /\ N \in Nat
    BY <1>1, <1>2, <1>3, <1>9, PromotionFacts
  <2>2. \A i \in 1..N : backup'[Order[i]] = IF i < at' THEN Found'[Order[i]] ELSE NoFile
    BY <1>6, <1>7, <2>1
  <2>3. dir' /\ files' = Found' /\ moved' = 0
    BY <1>1, <1>2, <1>7
  <2>4. Copied'
    BY <2>1, <2>2, <2>3 DEF Copied, N
  <2>5. Replaced' /\ Restoring'
    BY <1>1, <1>9 DEF Replaced, Restoring
  <2> QED
    BY <1>5, <2>4, <2>5 DEF MigrationInv
<1> QED
  BY <1>8, <1>9

LEMMA ReplaceKeeps ==
  ASSUME MigrationInv, Replace
  PROVE  MigrationInv'
<1> DEFINE n == Order[moved + 1]
<1>1. /\ pc \in Promoting /\ pc = "replace" /\ Promotion /\ UNCHANGED <<dir, at, before, run>>
      /\ files' = [files EXCEPT ![n] = run] /\ moved' = moved + 1
      /\ \/ /\ moved' = N /\ backup' = NoFiles /\ ~spoiled' /\ spoiled' \in BOOLEAN
            /\ Finish(TRUE, "none", {}, 0, 0)
         \/ moved' # N /\ UNCHANGED <<pc, exit, draft, backup, spoiled>>
  BY DEF Replace, Promoting, Promotion, N
<1>2. /\ dir /\ moved < N /\ at = 1 /\ backup = Found
      /\ \A i \in 1..N : files[Order[i]] = IF i <= moved THEN run ELSE Found[Order[i]]
  BY <1>1 DEF MigrationInv, Replaced
<1>3. moved + 1 \in 1..N /\ n \in Names /\ moved' \in 0..N
  BY <1>1, <1>2, PromotionFacts
<1>4. files' \in [Names -> Known(run)]
  BY <1>1, <1>3, PromotionFacts DEF Known
<1>5. \A i \in 1..N : files'[Order[i]] = IF i <= moved + 1 THEN run ELSE Found[Order[i]]
  BY <1>1, <1>2, <1>3, PromotionFacts
<1>6. Found' = Found
  BY <1>1 DEF Found
<1>7. CASE moved' = N
  <2>1. Drafts(TRUE) /\ pc' = "reporting" /\ exit' = 0
    BY <1>1, <1>7, PromotionFacts, FinishDrafts
  <2>2. \A m \in Names : files'[m] = run
    <3> TAKE m \in Names
    <3>1. PICK i \in 1..N : m = Order[i]
      BY <1>1, PromotionFacts
    <3> QED
      BY <1>1, <1>5, <1>7, <3>1
  <2>3. backup' = NoFiles /\ ~spoiled' /\ spoiled' \in BOOLEAN /\ dir' /\ dir' \in BOOLEAN /\ at' = at
    BY <1>1, <1>2, <1>7, PromotionFacts
  <2>4. at \in 1..(N + 1)
    BY <1>1, PromotionFacts
  <2>5. exit' \in 0..2 /\ (exit' = 0 <=> TRUE) /\ TRUE \in BOOLEAN
    BY <2>1
  <2>6. Promotion /\ pc \in Promoting
    BY <1>1
  <2> HIDE DEF n
  <2> QED
    BY <1>3, <1>4, <2>1, <2>2, <2>3, <2>4, <2>5, <2>6, ConclusionKeeps
<1>8. CASE moved' # N
  <2>1. UNCHANGED <<pc, exit, draft, backup, spoiled>> /\ pc' = "replace"
    BY <1>1, <1>8
  <2>2. Shape' /\ Untouched' /\ Drafted' /\ Truthful' /\ Readable' /\ OutputIsWhole' /\ EndsReported'
    BY <1>1, <1>2, <1>3, <1>4, <2>1, PromotionFacts, PromotionFrame DEF Promoting
  <2>3. moved' = moved + 1 /\ moved' < N /\ N \in Nat
    BY <1>1, <1>3, <1>8, PromotionFacts
  <2>4. \A i \in 1..N : files'[Order[i]] = IF i <= moved' THEN run' ELSE Found'[Order[i]]
    BY <1>1, <1>5, <1>6, <2>3
  <2>5. dir' /\ at' = 1 /\ backup' = Found'
    BY <1>1, <1>2, <1>6, <2>1
  <2>6. Replaced'
    BY <2>3, <2>4, <2>5 DEF Replaced, N
  <2>7. Copied' /\ Restoring'
    BY <2>1 DEF Copied, Restoring
  <2> QED
    BY <2>2, <2>6, <2>7 DEF MigrationInv
<1> QED
  BY <1>7, <1>8

LEMMA PromotionFailsKeeps ==
  ASSUME MigrationInv, PromotionFails
  PROVE  MigrationInv'
<1>1. /\ pc \in {"mkdir", "backup", "replace"} /\ pc \in Promoting /\ Promotion
      /\ pc' = "restore" /\ pc' \in Promoting \ {"mkdir"} /\ at' = 1
      /\ UNCHANGED <<exit, files, backup, moved, draft, spoiled, before, run>>
  BY DEF PromotionFails, Promoting, Promotion
<1>0. dir' \in BOOLEAN /\ (~dir' => ~dir)
  <2>1. dir \in BOOLEAN
    BY <1>1, PromotionFacts
  <2>2. dir' = dir \/ dir' = TRUE
    BY DEF PromotionFails
  <2>3. CASE dir' = dir
    BY <2>1, <2>3
  <2>4. CASE dir' = TRUE
    BY <2>4
  <2> QED
    BY <2>2, <2>3, <2>4
<1>2. Shape' /\ Untouched' /\ Drafted' /\ Truthful' /\ Readable' /\ OutputIsWhole' /\ EndsReported'
  <2>1. at' \in 1..(N + 1) /\ dir' \in BOOLEAN /\ (~dir' => files' = NoFiles)
    BY <1>0, <1>1, PromotionFacts
  <2> QED
    BY <1>1, <2>1, PromotionFacts, PromotionFrame
<1>3. /\ moved < N /\ (moved > 0 => backup = Found) /\ (~dir => backup = NoFiles)
      /\ \A i \in 1..N : /\ backup[Order[i]] \in {NoFile, Found[Order[i]]}
                         /\ files[Order[i]] = IF i <= moved THEN run ELSE Found[Order[i]]
  <2>1. CASE pc = "mkdir"
    <3>1. files = Found /\ backup = NoFiles /\ moved = 0
      BY <2>1 DEF MigrationInv, Untouched, Started, Found
    <3> QED
      BY <1>1, <3>1, PromotionFacts DEF NoFiles
  <2>2. CASE pc = "backup"
    <3>1. /\ dir /\ files = Found /\ moved = 0
          /\ \A i \in 1..N : backup[Order[i]] \in {NoFile, Found[Order[i]]}
      BY <2>2 DEF MigrationInv, Copied
    <3> QED
      BY <1>1, <3>1, PromotionFacts
  <2>3. CASE pc = "replace"
    BY <1>1, <2>3, PromotionFacts DEF MigrationInv, Replaced
  <2> QED
    BY <1>1, <2>1, <2>2, <2>3
<1>4. Found' = Found
  BY <1>1 DEF Found
<1>5. RestoredTo(1)'
  <2>1. \A i \in 1..N :
          /\ backup[Order[i]] \in {NoFile, Found[Order[i]]}
          /\ files[Order[i]] = IF i <= moved /\ (i >= 1 \/ backup[Order[i]] = NoFile)
                               THEN run ELSE Found[Order[i]]
    BY <1>3
  <2> QED
    BY <1>0, <1>1, <1>3, <1>4, <2>1 DEF RestoredTo, N
<1>6. Restoring'
  BY <1>1, <1>5, PromotionFacts DEF Restoring, N
<1>7. Copied' /\ Replaced'
  BY <1>1 DEF Copied, Replaced
<1> QED
  BY <1>2, <1>6, <1>7 DEF MigrationInv

LEMMA RestoreKeeps ==
  ASSUME MigrationInv, Restore
  PROVE  MigrationInv'
<1> DEFINE n == Order[at]
<1>1. /\ pc = "restore" /\ pc \in Promoting /\ Promotion
      /\ files' = IF backup[n] = NoFile THEN files ELSE [files EXCEPT ![n] = backup[n]]
      /\ \/ at = N /\ pc' = "unlink" /\ at' = 1
         \/ at # N /\ pc' = "restore" /\ at' = at + 1
      /\ UNCHANGED <<exit, dir, backup, moved, draft, spoiled, before, run>>
  BY DEF Restore, Promoting, Promotion, N
<1>2. at <= N /\ RestoredTo(at)
  BY <1>1 DEF MigrationInv, Restoring
<1>3. at \in 1..N /\ n \in Names
  BY <1>1, <1>2, PromotionFacts
<1>4. backup[n] # NoFile => backup[n] = Found[n] /\ dir
  BY <1>2, <1>3 DEF RestoredTo, NoFiles
<1>5. files' \in [Names -> Known(run)]
  BY <1>1, <1>3, <1>4, PromotionFacts
<1>6. \A i \in 1..N :
        files'[Order[i]] = IF i <= moved /\ (i >= at + 1 \/ backup[Order[i]] = NoFile)
                           THEN run ELSE Found[Order[i]]
  <2> TAKE i \in 1..N
  <2>1. files[Order[i]] = IF i <= moved /\ (i >= at \/ backup[Order[i]] = NoFile)
                          THEN run ELSE Found[Order[i]]
    BY <1>2 DEF RestoredTo
  <2>2. CASE i = at
    BY <1>1, <1>3, <1>4, <2>1, <2>2, PromotionFacts
  <2>3. CASE i # at
    <3>1. files'[Order[i]] = files[Order[i]]
      BY <1>1, <1>3, <2>3, PromotionFacts
    <3>2. i >= at <=> i >= at + 1
      BY <1>3, <2>3
    <3> QED
      BY <2>1, <3>1, <3>2
  <2> QED
    BY <2>2, <2>3
<1>7. Found' = Found
  BY <1>1 DEF Found
<1>8. \A a : a = at + 1 => RestoredTo(a)'
  <2> TAKE a
  <2> HAVE a = at + 1
  <2> HIDE DEF n
  <2> QED
    BY <1>1, <1>2, <1>6, <1>7 DEF RestoredTo, N
<1>9. Restoring'
  <2>1. CASE at = N
    <3>1. RestoredTo(N + 1)'
      BY <1>8, <2>1 DEF N
    <3> QED
      BY <1>1, <2>1, <3>1 DEF Restoring
  <2>2. CASE at # N
    <3>1. at' = at + 1 /\ at' <= N /\ pc' = "restore"
      BY <1>1, <1>3, <2>2, PromotionFacts
    <3>2. RestoredTo(at)'
      BY <1>8, <3>1 DEF RestoredTo
    <3> QED
      BY <3>1, <3>2 DEF Restoring, N
  <2> QED
    BY <2>1, <2>2
<1>10. Shape' /\ Untouched' /\ Drafted' /\ Truthful' /\ Readable' /\ OutputIsWhole' /\ EndsReported'
  <2>1. at' \in 1..(N + 1) /\ pc' \in Promoting \ {"mkdir"}
    BY <1>1, <1>3, PromotionFacts DEF Promoting
  <2>2. ~dir' => files' = NoFiles
    BY <1>1, <1>4, PromotionFacts
  <2> QED
    BY <1>1, <1>5, <2>1, <2>2, PromotionFacts, PromotionFrame
<1>11. Copied' /\ Replaced'
  BY <1>1 DEF Copied, Replaced
<1> QED
  BY <1>9, <1>10, <1>11 DEF MigrationInv

\* Every way to give up reports the failure.
LEMMA GiveUpDrafts ==
  ASSUME run \in 0..MaxRuns, GiveUp
  PROVE  Drafts(FALSE) /\ pc' = "reporting" /\ exit' = 1 /\ backup' = NoFiles
<1>1. "promotion_failure" \in FailureCodes /\ {"promotion_failure"} \in SUBSET ReportCodes
      /\ ~("promotion_failure" = "none") /\ 1 \in Nat /\ FALSE \in BOOLEAN
  BY CodesAssumption DEF FailureCodes
<1>2. Finish(FALSE, "promotion_failure", {"promotion_failure"}, 1, 1) /\ backup' = NoFiles
  BY DEF GiveUp
<1> QED
  BY <1>1, <1>2, FinishDrafts

\* What is restored and unlinked is what the run found.
LEMMA UnlinkKeeps ==
  ASSUME MigrationInv, Unlink
  PROVE  MigrationInv'
<1>1. /\ pc = "unlink" /\ pc \in Promoting /\ Promotion /\ GiveUp
      /\ files' = [n \in Names |-> IF RemoveNew(n) THEN NoFile ELSE files[n]]
      /\ dir' = (before[2] \/ (dir /\ files' # NoFiles))
      /\ UNCHANGED <<at, moved, spoiled>>
  BY DEF Unlink, Promoting
<1>2. RestoredTo(N + 1)
  BY <1>1 DEF MigrationInv, Restoring
<1>3. Drafts(FALSE) /\ pc' = "reporting" /\ exit' = 1 /\ backup' = NoFiles
  BY <1>1, PromotionFacts, GiveUpDrafts
<1>4. \A i \in 1..N : files'[Order[i]] = Found[Order[i]]
  <2> TAKE i \in 1..N
  <2>1. /\ files[Order[i]] = IF i <= moved /\ backup[Order[i]] = NoFile THEN run ELSE Found[Order[i]]
        /\ backup[Order[i]] \in {NoFile, Found[Order[i]]} /\ (moved > 0 => backup = Found)
    BY <1>1, <1>2, PromotionFacts DEF RestoredTo
  <2>2. RemoveNew(Order[i]) <=> backup[Order[i]] = NoFile /\ i <= moved
    BY <1>1, PromotionFacts DEF RemoveNew
  <2>3. files'[Order[i]] = IF RemoveNew(Order[i]) THEN NoFile ELSE files[Order[i]]
    BY <1>1, PromotionFacts
  <2> QED
    BY <1>1, <2>1, <2>2, <2>3, PromotionFacts
<1>5. files' = Found
  <2>1. \A m \in Names : files'[m] = Found[m]
    BY <1>1, <1>4, PromotionFacts
  <2> QED
    BY <1>1, <2>1, PromotionFacts
<1>6. <<files, dir>>' = before /\ dir' \in BOOLEAN
  <2>1. before[2] \in BOOLEAN /\ dir \in BOOLEAN /\ (~before[2] => Found = NoFiles)
        /\ before = <<Found, before[2]>>
    BY <1>1, PromotionFacts
  <2>2. CASE before[2]
    BY <1>1, <1>5, <2>1, <2>2
  <2>3. CASE ~before[2]
    <3>1. ~dir' /\ dir' \in BOOLEAN
      BY <1>1, <1>5, <2>1, <2>3
    <3> QED
      BY <1>5, <2>1, <2>3, <3>1
  <2> QED
    BY <2>1, <2>2, <2>3
<1>7. ~dir' => files' = NoFiles
  <2>1. dir' = before[2] /\ (~before[2] => Found = NoFiles)
    BY <1>1, <1>6, PromotionFacts
  <2> QED
    BY <1>5, <2>1
<1>8. /\ files' \in [Names -> Known(run)] /\ at' \in 1..(N + 1) /\ moved' \in 0..N
      /\ spoiled' \in BOOLEAN /\ spoiled' = spoiled /\ exit' \in 0..2 /\ (exit' = 0 <=> FALSE)
      /\ FALSE \in BOOLEAN
  BY <1>1, <1>3, <1>5, PromotionFacts
<1>9. ~spoiled' => ~spoiled /\ <<files, dir>>' = before
  BY <1>6, <1>8
<1>10. pc \in Promoting /\ Promotion
  BY <1>1
<1> QED
  BY <1>3, <1>6, <1>7, <1>8, <1>9, <1>10, ConclusionKeeps

LEMMA RestoreFailsKeeps ==
  ASSUME MigrationInv, RestoreFails
  PROVE  MigrationInv'
<1>1. /\ pc \in {"restore", "unlink"} /\ pc \in Promoting /\ Promotion /\ GiveUp
      /\ spoiled' = TRUE /\ UNCHANGED <<dir, at, moved>>
      /\ \/ files' = files
         \/ /\ pc = "restore" /\ backup[Order[at]] # NoFile
            /\ files' = [files EXCEPT ![Order[at]] = Torn]
  BY DEF RestoreFails, Promoting
<1>2. Drafts(FALSE) /\ pc' = "reporting" /\ exit' = 1 /\ backup' = NoFiles
  BY <1>1, PromotionFacts, GiveUpDrafts
<1>3. files' \in [Names -> Known(run)] /\ (~dir' => files' = NoFiles)
  <2>1. CASE files' = files
    BY <1>1, <2>1, PromotionFacts
  <2>2. CASE /\ pc = "restore" /\ backup[Order[at]] # NoFile
             /\ files' = [files EXCEPT ![Order[at]] = Torn]
    <3>1. at <= N /\ RestoredTo(at)
      BY <2>2 DEF MigrationInv, Restoring
    <3>2. at \in 1..N /\ Order[at] \in Names
      BY <1>1, <3>1, PromotionFacts
    <3>3. dir
      BY <2>2, <3>1, <3>2 DEF RestoredTo, NoFiles
    <3>4. Torn \in Known(run)
      BY DEF Known
    <3> QED
      BY <1>1, <2>2, <3>2, <3>3, <3>4, PromotionFacts
  <2> QED
    BY <1>1, <2>1, <2>2
<1>4. /\ at' \in 1..(N + 1) /\ moved' \in 0..N /\ dir' \in BOOLEAN
      /\ spoiled' \in BOOLEAN /\ spoiled' /\ exit' \in 0..2 /\ (exit' = 0 <=> FALSE)
      /\ FALSE \in BOOLEAN
  BY <1>1, <1>2, PromotionFacts
<1> QED
  BY <1>1, <1>2, <1>3, <1>4, ConclusionKeeps

LEMMA InterruptKeeps ==
  ASSUME MigrationInv, Interrupt
  PROVE  MigrationInv'
<1>1. /\ pc # "idle" /\ pc' = "idle" /\ exit' = 1 /\ faulted' = TRUE /\ backup' = NoFiles
      /\ spoiled' = (spoiled \/ pc \in Promoting)
      /\ UNCHANGED <<run, docs, report, status, before, files, dir, at, moved, draft>>
  BY DEF Interrupt, Promotion
<1>2. Shape'
  <2>1. NoFiles \in [Names -> {NoFile, Torn} \cup 0..MaxRuns]
    BY DEF NoFiles
  <2>2. TypeOK'
    BY <1>1, <2>1 DEF MigrationInv, Shape, TypeOK
  <2>3. spoiled' \in BOOLEAN
    BY <1>1
  <2> QED
    BY <1>1, <2>2, <2>3 DEF MigrationInv, Shape, Found
<1>3. Untouched' /\ Copied' /\ Replaced' /\ Restoring' /\ Drafted' /\ EndsReported'
  BY <1>1 DEF Untouched, Copied, Replaced, Restoring, Drafted, EndsReported, Started, Reporting
<1>4. Truthful'
  <2>1. CASE pc \in Promoting
    BY <1>1, <2>1 DEF MigrationInv, Truthful
  <2>2. CASE pc \notin Promoting
    <3>1. Standing' = Standing /\ (~spoiled' => ~spoiled)
      BY <1>1, <2>2 DEF Standing, Promoting
    <3> QED
      BY <1>1, <3>1 DEF MigrationInv, Truthful
  <2> QED
    BY <2>1, <2>2
<1>5. Readable'
  BY <1>1 DEF MigrationInv, Readable
<1>6. OutputIsWhole'
  BY <1>1 DEF MigrationInv, OutputIsWhole, Whole
<1> QED
  BY <1>2, <1>3, <1>4, <1>5, <1>6 DEF MigrationInv

------------------------------------------------------------------------------
(* Every step keeps the invariant *)

LEMMA MigrationInit ==
  ASSUME Init
  PROVE  MigrationInv
<1> USE DEF Init
<1>1. /\ MaxRuns \in Nat /\ N \in Nat \ {0} /\ dir \in BOOLEAN /\ run = 0 /\ pc = "idle"
      /\ NoFiles \in [Names -> {NoFile, Torn} \cup 0..MaxRuns]
      /\ NoFiles \in [Names -> Known(run)]
  BY BoundsAssumption, OrderFacts DEF NoFiles, Known
<1>2. files \in [Names -> Known(run)] /\ (~dir => files = NoFiles)
  <2>1. CASE dir
    BY <1>1, <2>1 DEF Known
  <2>2. CASE ~dir
    BY <1>1, <2>2
  <2> QED
    BY <2>1, <2>2
<1>3. files \in [Names -> Known(MaxRuns)] /\ files \in [Names -> {NoFile, Torn} \cup 0..MaxRuns]
  <2>1. files \in [Names -> Known(MaxRuns)]
    BY <1>1, <1>2, KnownGrows
  <2> QED
    BY <2>1 DEF Known
<1>4. TypeOK
  BY <1>1, <1>2, <1>3 DEF TypeOK, N
<1>5. /\ before = <<files, dir>> /\ before \in [Names -> Known(MaxRuns)] \X BOOLEAN
      /\ Found = files /\ before[2] = dir
  BY <1>1, <1>3 DEF Found
<1>6. Shape
  BY <1>1, <1>2, <1>4, <1>5 DEF Shape
<1>7. Untouched /\ Copied /\ Replaced /\ Restoring /\ Drafted /\ Truthful /\ Readable
  BY DEF Untouched, Copied, Replaced, Restoring, Drafted, Truthful, Readable, Started, Reporting
<1>8. OutputIsWhole /\ EndsReported
  BY <1>5 DEF OutputIsWhole, EndsReported
<1> QED
  BY <1>6, <1>7, <1>8 DEF MigrationInv

LEMMA MigrationStep ==
  ASSUME MigrationInv, [Next]_vars
  PROVE  MigrationInv'
<1>1. run \in 0..MaxRuns
  BY DEF MigrationInv, Shape, TypeOK
<1>2. ASSUME NEW d \in Documents[run + 1], Begin(d)
      PROVE  MigrationInv'
  BY <1>2, BeginKeeps
<1>3. CASE RefuseArguments \/ RefuseInputs \/ RefuseDocuments \/ RefuseStaged
  BY <1>1, <1>3, RefusalsRefuse, RefusalKeeps
<1>4. CASE Transform
  <2>1. ~TransformRaises(docs)
    BY <1>4, PreflightSpeaks DEF Transform
  <2>2. Passing
    BY <1>4, <2>1 DEF Transform, Quiet, Passing, Started, Promoting
  <2> QED
    BY <2>2, PassingKeeps
<1>5. CASE Stage \/ Accept
  <2>1. Passing
    BY <1>5 DEF Stage, Accept, Quiet, Passing, Started, Promoting
  <2> QED
    BY <2>1, PassingKeeps
<1>6. CASE StagingFails
  <2>1. Passing
    BY <1>6 DEF StagingFails, Passing, Promoting
  <2> QED
    BY <2>1, PassingKeeps
<1>7. CASE WriteReport
  <2>1. Passing
    BY <1>7 DEF WriteReport, Passing, Promoting
  <2> QED
    BY <2>1, PassingKeeps
<1>8. CASE ReportFails
  <2>1. Passing
    BY <1>8 DEF ReportFails, Passing, Promoting
  <2> QED
    BY <2>1, PassingKeeps
<1>9. CASE MakeDirectories
  BY <1>9, MakeDirectoriesKeeps
<1>10. CASE BackUp
  BY <1>10, BackUpKeeps
<1>11. CASE Replace
  BY <1>11, ReplaceKeeps
<1>12. CASE PromotionFails
  BY <1>12, PromotionFailsKeeps
<1>13. CASE Restore
  BY <1>13, RestoreKeeps
<1>14. CASE Unlink
  BY <1>14, UnlinkKeeps
<1>15. CASE RestoreFails
  BY <1>15, RestoreFailsKeeps
<1>16. CASE Interrupt
  BY <1>16, InterruptKeeps
<1>17. CASE EmitReport
  BY <1>17, EmitReportKeeps
<1>18. CASE Refresh
  BY <1>18, RefreshKeeps
<1>19. CASE UNCHANGED vars
  <2>1. UNCHANGED <<run, docs, pc, exit, fs, draft, report, history, faulted, status>>
    BY <1>19 DEF vars
  <2>2. Shape' /\ Untouched' /\ Copied' /\ Replaced' /\ Restoring'
    BY <2>1, OutputsFrame, SMTT(20) DEF MigrationInv, Shape, TypeOK, Places, Readable
  <2>3. Drafted' /\ Truthful' /\ Readable'
    BY <2>1 DEF MigrationInv, Drafted, Truthful, Readable, Standing, Found, Whole, fs, history
  <2>4. OutputIsWhole' /\ EndsReported'
    BY <2>1 DEF MigrationInv, OutputIsWhole, EndsReported, Whole, fs, history
  <2> QED
    BY <2>2, <2>3, <2>4 DEF MigrationInv
<1> QED
  BY <1>2, <1>3, <1>4, <1>5, <1>6, <1>7, <1>8, <1>9, <1>10, <1>11, <1>12, <1>13, <1>14, <1>15,
     <1>16, <1>17, <1>18, <1>19 DEF Next

LEMMA MigrationInvariant == Spec => []MigrationInv
<1>1. Init => MigrationInv
  BY MigrationInit
<1>2. MigrationInv /\ [Next]_vars => MigrationInv'
  BY MigrationStep
<1> QED
  BY <1>1, <1>2, PTL DEF Spec

------------------------------------------------------------------------------
(* Which rule decides *)

\* Numbers below a bound have a least one.
LEMMA Least ==
  ASSUME NEW n \in Nat, NEW T \in SUBSET (0..n), T # {}
  PROVE  \E m \in T : \A k \in T : m <= k
<1> DEFINE F == {1..m : m \in T}
<1>1. F \subseteq FiniteSubsetsOf(1..n)
  <2>1. IsFiniteSet(1..n)
    BY FS_Interval
  <2>2. \A m \in T : 1..m \subseteq 1..n
    OBVIOUS
  <2> QED
    BY <2>1, <2>2, FS_Subset DEF FiniteSubsetsOf
<1>2. F # {}
  OBVIOUS
<1>3. \E A \in F : \A B \in F : ~(<<B, A>> \in StrictSubsetOrdering(1..n))
  <2> HIDE DEF F
  <2> QED
    BY <1>1, <1>2, FS_StrictSubsetOrderingWellFounded, WFMin
<1>4. PICK m \in T : \A k \in T : ~(<<1..k, 1..m>> \in StrictSubsetOrdering(1..n))
  BY <1>3
<1>5. ASSUME NEW k \in T, k < m
      PROVE  FALSE
  <2>1. 1..k \subseteq 1..m /\ m \in 1..m /\ m \notin 1..k
    BY <1>5
  <2>2. <<1..k, 1..m>> \in StrictSubsetOrdering(1..n)
    BY <2>1 DEF StrictSubsetOrdering
  <2> QED
    BY <1>4, <2>2
<1> QED
  BY <1>5

\* Numbers from 1 to a bound have a greatest one.
LEMMA Greatest ==
  ASSUME NEW n \in Nat, NEW S \in SUBSET (1..n), S # {}
  PROVE  \E i \in S : \A j \in S : j <= i
<1> DEFINE T == {n - i : i \in S}
<1>0. \A i \in S : i \in 1..n
  OBVIOUS
<1>1. T \in SUBSET (0..n) /\ T # {}
  <2>1. \A i \in S : n - i \in 0..n
    BY <1>0
  <2> QED
    BY <2>1
<1>2. PICK m \in T : \A k \in T : m <= k
  <2> HIDE DEF T
  <2> QED
    BY <1>1, Least
<1>3. PICK i \in S : m = n - i
  OBVIOUS
<1> HIDE DEF T
<1>4. ASSUME NEW j \in S
      PROVE  j <= i
  <2>1. m <= n - j
    BY <1>2 DEF T
  <2>2. i \in 1..n /\ j \in 1..n
    BY <1>0
  <2> QED
    BY <1>3, <2>1, <2>2
<1> QED
  BY <1>4

\* Counting those ahead of each ranks n things, if "ahead" is a strict linear order.
LEMMA Ranking ==
  ASSUME NEW n \in Nat, NEW ahead \in [1..n -> SUBSET (1..n)],
         \A i \in 1..n : i \notin ahead[i],
         \A i, j \in 1..n : i \in ahead[j] => ahead[i] \subseteq ahead[j],
         \A i, j \in 1..n : i = j \/ i \in ahead[j] \/ j \in ahead[i]
  PROVE  /\ \A i \in 1..n : Cardinality(ahead[i]) + 1 \in 1..n
         /\ \A i, j \in 1..n : i \in ahead[j] <=> Cardinality(ahead[i]) + 1 < Cardinality(ahead[j]) + 1
         /\ \A i, j \in 1..n : Cardinality(ahead[i]) + 1 = Cardinality(ahead[j]) + 1 => i = j
         /\ \A m \in 1..n : \E i \in 1..n : Cardinality(ahead[i]) + 1 = m
<1> DEFINE rank == [i \in 1..n |-> Cardinality(ahead[i]) + 1]
<1>1. IsFiniteSet(1..n) /\ Cardinality(1..n) = n
  BY FS_Interval
<1>2. ASSUME NEW i \in 1..n
      PROVE  IsFiniteSet(ahead[i]) /\ Cardinality(ahead[i]) \in Nat /\ Cardinality(ahead[i]) < n
  <2>1. ahead[i] \subseteq 1..n /\ ahead[i] # 1..n
    OBVIOUS
  <2> QED
    BY <1>1, <2>1, FS_Subset, FS_CardinalityType
<1>3. ASSUME NEW i \in 1..n, NEW j \in 1..n, i \in ahead[j]
      PROVE  Cardinality(ahead[i]) < Cardinality(ahead[j])
  <2>1. ahead[i] \subseteq ahead[j] /\ ahead[i] # ahead[j]
    BY <1>3
  <2>2. IsFiniteSet(ahead[i]) /\ IsFiniteSet(ahead[j])
    BY <1>2
  <2>3. Cardinality(ahead[i]) \in Nat /\ Cardinality(ahead[j]) \in Nat
    BY <1>2
  <2> QED
    BY <2>1, <2>2, <2>3, FS_Subset
<1>4. \A i \in 1..n : rank[i] = Cardinality(ahead[i]) + 1
  OBVIOUS
<1>10. DOMAIN rank = 1..n /\ rank = [i \in 1..n |-> rank[i]]
  OBVIOUS
<1> HIDE DEF rank
<1>5. \A i \in 1..n : rank[i] \in 1..n
  <2>1. ASSUME NEW c \in Nat, c < n
        PROVE  c + 1 \in 1..n
    BY <2>1
  <2>2. ASSUME NEW i \in 1..n
        PROVE  rank[i] \in 1..n
    <3>1. Cardinality(ahead[i]) \in Nat /\ Cardinality(ahead[i]) < n
      BY <1>2
    <3>2. Cardinality(ahead[i]) + 1 \in 1..n
      BY <2>1, <3>1
    <3> QED
      BY <1>4, <3>2
  <2> QED
    BY <2>2
<1>6. ASSUME NEW i \in 1..n, NEW j \in 1..n, i \in ahead[j]
      PROVE  rank[i] < rank[j]
  <2>1. Cardinality(ahead[i]) \in Nat /\ Cardinality(ahead[j]) \in Nat
    BY <1>2
  <2> QED
    BY <1>3, <1>4, <1>6, <2>1
<1>7. ASSUME NEW i \in 1..n, NEW j \in 1..n
      PROVE  (i \in ahead[j] <=> rank[i] < rank[j]) /\ (rank[i] = rank[j] => i = j)
  <2>1. rank[i] \in Nat /\ rank[j] \in Nat
    BY <1>5
  <2>2. i \in ahead[j] => rank[i] < rank[j]
    BY <1>6
  <2>3. j \in ahead[i] => rank[j] < rank[i]
    BY <1>6
  <2>4. i = j => i \notin ahead[j]
    OBVIOUS
  <2>5. i = j \/ i \in ahead[j] \/ j \in ahead[i]
    OBVIOUS
  <2> QED
    BY <2>1, <2>2, <2>3, <2>4, <2>5
<1>9. ASSUME NEW m \in 1..n
      PROVE  \E i \in 1..n : rank[i] = m
  <2> SUFFICES ASSUME \A i \in 1..n : rank[i] # m
               PROVE  FALSE
    OBVIOUS
  <2> DEFINE Rest == (1..n) \ {m}
  <2>1. rank \in [1..n -> Rest]
    BY <1>5, <1>10
  <2>2. IsFiniteSet(Rest) /\ Cardinality(Rest) < Cardinality(1..n)
    <3>1. IsFiniteSet(Rest) /\ Cardinality(Rest) = n - 1
      BY <1>1, FS_RemoveElement
    <3> QED
      BY <1>1, <3>1
  <2>3. \E i, j \in 1..n : i # j /\ rank[i] = rank[j]
    <3> HIDE DEF Rest
    <3> QED
      BY <1>1, <2>1, <2>2, FS_PigeonHole
  <2> QED
    BY <1>7, <2>3
<1>11. \A i \in 1..n : Cardinality(ahead[i]) + 1 \in 1..n
  BY <1>4, <1>5
<1>12. ASSUME NEW i \in 1..n, NEW j \in 1..n
       PROVE  /\ i \in ahead[j] <=> Cardinality(ahead[i]) + 1 < Cardinality(ahead[j]) + 1
              /\ Cardinality(ahead[i]) + 1 = Cardinality(ahead[j]) + 1 => i = j
  <2>1. rank[i] = Cardinality(ahead[i]) + 1 /\ rank[j] = Cardinality(ahead[j]) + 1
    BY <1>4
  <2> QED
    BY <1>7, <2>1
<1>13. ASSUME NEW m \in 1..n PROVE \E i \in 1..n : Cardinality(ahead[i]) + 1 = m
  <2>1. PICK i \in 1..n : rank[i] = m
    BY <1>9
  <2> QED
    BY <1>4, <2>1
<1> QED
  BY <1>11, <1>12, <1>13

\* What preflight has established of a list of rules it finds no issue in.
LEMMA RulesExamined ==
  ASSUME NEW d, Preflight(d) = {}
  PROVE  /\ RulesOf(d) = d.rules /\ d.rules # Wrong
         /\ \A r \in ToSet(d.rules) :
              /\ r # Wrong /\ Given(r.priority) /\ r.match # Wrong /\ r.match.tags # Wrong
              /\ \A t \in ToSet(Or(r.match.tags, <<>>)) : TagKey(t.key) # NoKey
         /\ ~DuplicatePriority(d.rules)
<1>1. WrapperIssues(d.rulesWrapper) = {} /\ RulesIssues(RulesOf(d)) = {}
  BY DEF Preflight
<1>2. RulesOf(d) = d.rules
  BY <1>1 DEF WrapperIssues, Issue, RulesOf
<1>3. RulesIssues(d.rules) = {}
  BY <1>1, <1>2
<1>4. d.rules # Wrong
  BY <1>3 DEF RulesIssues
<1>5. /\ \A r \in ToSet(d.rules) : RuleIssues(r) = {}
      /\ Issue(DuplicatePriority(d.rules), "duplicate_rule_priority") = {}
  BY <1>3, <1>4 DEF RulesIssues
<1>6. ~DuplicatePriority(d.rules)
  BY <1>5 DEF Issue
<1>7. ASSUME NEW r \in ToSet(d.rules)
      PROVE  /\ r # Wrong /\ Given(r.priority) /\ r.match # Wrong /\ r.match.tags # Wrong
             /\ \A t \in ToSet(Or(r.match.tags, <<>>)) : TagKey(t.key) # NoKey
  <2>1. RuleIssues(r) = {}
    BY <1>5
  <2>2. r # Wrong
    BY <2>1 DEF RuleIssues
  <2>3. Given(r.priority) /\ MatchIssues(r.match) = {}
    BY <2>1, <2>2 DEF RuleIssues, Issue
  <2>4. r.match # Wrong
    BY <2>3 DEF MatchIssues
  <2>5. r.match.tags # Wrong /\ TagIssues(Or(r.match.tags, <<>>)) = {}
    BY <2>3, <2>4 DEF MatchIssues, Issue
  <2>6. ASSUME NEW t \in ToSet(Or(r.match.tags, <<>>))
        PROVE  TagKey(t.key) # NoKey
    <3> DEFINE A == Issue(t.key = Wrong, "invalid_topology_tag_key")
               B == Issue(t.key # Wrong /\ t.value \in {Wrong} \cup Globs, "unsupported_tag_wildcard")
               C == Issue(t.key # Wrong /\ t.value \notin {Wrong} \cup Globs /\ TagKey(t.key) = NoKey,
                          "invalid_topology_tag_key")
    <3>1. A \cup B \cup C \subseteq TagIssues(Or(r.match.tags, <<>>))
      BY DEF TagIssues
    <3>2. A = {} /\ B = {} /\ C = {}
      <4> HIDE DEF A, B, C
      <4> QED
        BY <2>5, <3>1
    <3>3. ~(t.key = Wrong)
      BY <3>2 DEF Issue
    <3>4. ~(t.key # Wrong /\ t.value \in {Wrong} \cup Globs)
      BY <3>2 DEF Issue
    <3>5. ~(t.key # Wrong /\ t.value \notin {Wrong} \cup Globs /\ TagKey(t.key) = NoKey)
      BY <3>2 DEF Issue
    <3> QED
      BY <3>3, <3>4, <3>5
  <2> QED
    BY <2>2, <2>3, <2>4, <2>5, <2>6
<1> QED
  BY <1>2, <1>4, <1>6, <1>7

\* A list of pairs that names no tag twice is rewritten pair by pair.
LEMMA RewrittenAlike ==
  ASSUME NEW tags, Len(tags) \in Nat, DOMAIN tags = 1..Len(tags),
         \A t \in ToSet(tags) : TagKey(t.key) # NoKey,
         \A s, t \in ToSet(tags) : TagKey(s.key) = TagKey(t.key) => s = t
  PROVE  /\ DOMAIN RewrittenTags(tags) = {TagKey(t.key) : t \in ToSet(tags)}
         /\ \A t \in ToSet(tags) : RewrittenTags(tags)[TagKey(t.key)] = t.value
<1> DEFINE Key(i) == TagKey(tags[i].key)
           Kept == {i \in DOMAIN tags : Key(i) # NoKey}
           Is(k, i) == Key(i) = k /\ \A j \in Kept : Key(j) = k => j <= i
<1>1. RewrittenTags(tags) = [k \in {Key(i) : i \in Kept} |-> tags[CHOOSE i \in Kept : Is(k, i)].value]
  BY DEF RewrittenTags
<1>2. ToSet(tags) = {tags[i] : i \in DOMAIN tags}
  BY DEF ToSet
<1>3. Kept = DOMAIN tags
  BY <1>2
<1>4. {Key(i) : i \in Kept} = {TagKey(t.key) : t \in ToSet(tags)}
  BY <1>2, <1>3
<1>5. ASSUME NEW t \in ToSet(tags)
      PROVE  tags[CHOOSE i \in Kept : Is(TagKey(t.key), i)] = t
  <2> DEFINE k == TagKey(t.key)  S == {i \in Kept : Key(i) = k}
  <2>1. S \in SUBSET (1..Len(tags)) /\ S # {}
    BY <1>2, <1>3
  <2>2. \E i \in S : \A j \in S : j <= i
    <3> HIDE DEF S
    <3> QED
      BY <2>1, Greatest
  <2>3. \E i \in Kept : Is(k, i)
    BY <2>2
  <2>4. PICK i \in Kept : i = (CHOOSE x \in Kept : Is(k, x)) /\ Is(k, i)
    <3> HIDE DEF Kept, Is
    <3> QED
      BY <2>3
  <2>5. tags[i] \in ToSet(tags) /\ TagKey(tags[i].key) = TagKey(t.key)
    BY <1>2, <2>4
  <2>6. tags[i] = t
    BY <2>5
  <2> HIDE DEF Kept, Is
  <2> QED
    BY <2>4, <2>6
<1> HIDE DEF Is
<1>6. DOMAIN RewrittenTags(tags) = {Key(i) : i \in Kept}
  BY <1>1
<1>7. ASSUME NEW t \in ToSet(tags)
      PROVE  RewrittenTags(tags)[TagKey(t.key)] = t.value
  <2>1. TagKey(t.key) \in {Key(i) : i \in Kept}
    BY <1>4
  <2> HIDE DEF Key, Kept
  <2>2. RewrittenTags(tags)[TagKey(t.key)] = tags[CHOOSE i \in Kept : Is(TagKey(t.key), i)].value
    BY <1>1, <2>1
  <2> QED
    BY <1>5, <2>2
<1> QED
  BY <1>4, <1>6, <1>7

\* A generated rule matches the events its source matches.
LEMMA MatchesAlike ==
  ASSUME NEW rule, NEW n, NEW event,
         Len(Or(rule.match.tags, <<>>)) \in Nat,
         DOMAIN Or(rule.match.tags, <<>>) = 1..Len(Or(rule.match.tags, <<>>)),
         \A t \in ToSet(Or(rule.match.tags, <<>>)) : TagKey(t.key) # NoKey,
         \A s, t \in ToSet(Or(rule.match.tags, <<>>)) : TagKey(s.key) = TagKey(t.key) => s = t
  PROVE  TargetMatches(Target(rule, n), event) <=> SourceMatches(rule, event)
<1> DEFINE tags == Or(rule.match.tags, <<>>)
           T == Target(rule, n)
<1>1. /\ T.severities = ToSet(rule.match.severity) /\ T.hosts = rule.match.host
      /\ T.services = rule.match.service /\ T.tags = RewrittenTags(tags)
  BY DEF Target
<1>2. /\ DOMAIN RewrittenTags(tags) = {TagKey(t.key) : t \in ToSet(tags)}
      /\ \A t \in ToSet(tags) : RewrittenTags(tags)[TagKey(t.key)] = t.value
  BY RewrittenAlike
<1> HIDE DEF T, tags
<1>3. (\A k \in DOMAIN T.tags : k \in DOMAIN event.tags /\ event.tags[k] = T.tags[k])
      <=> (\A t \in ToSet(tags) :
             TagKey(t.key) \in DOMAIN event.tags /\ event.tags[TagKey(t.key)] = t.value)
  BY <1>1, <1>2
<1>4. SourceMatches(rule, event) <=>
        /\ event.severity \in ToSet(rule.match.severity)
        /\ rule.match.host # Absent => event.host \in rule.match.host
        /\ rule.match.service # Absent => event.service \in rule.match.service
        /\ \A t \in ToSet(tags) :
             TagKey(t.key) \in DOMAIN event.tags /\ event.tags[TagKey(t.key)] = t.value
  BY DEF SourceMatches, tags
<1>5. TargetMatches(T, event) <=> SourceMatches(rule, event)
  BY <1>1, <1>3, <1>4 DEF TargetMatches
<1> QED
  BY <1>5 DEF T

\* Rules of different priorities are ranked by them, each rank once.
LEMMA RankedByPriority ==
  ASSUME NEW rules, Len(rules) \in Nat, DOMAIN rules = 1..Len(rules),
         \A i \in DOMAIN rules : rules[i].priority \in Int,
         \A i, j \in DOMAIN rules : rules[i].priority = rules[j].priority => i = j
  PROVE  /\ \A n \in DOMAIN rules : Ranked(rules, n) \in DOMAIN rules
         /\ \A i \in DOMAIN rules : \E n \in DOMAIN rules : i = Ranked(rules, n)
         /\ \A m, n \in DOMAIN rules :
              m < n <=> rules[Ranked(rules, m)].priority > rules[Ranked(rules, n)].priority
<1> DEFINE L == Len(rules)
           ahead == [i \in 1..L |-> Ahead(rules, i)]
<1>1. \A i \in 1..L : ahead[i] = {j \in 1..L : rules[j].priority > rules[i].priority}
  BY DEF Ahead
<1>2. ahead \in [1..L -> SUBSET (1..L)]
  BY DEF Ahead
<1>3. DOMAIN rules = 1..L /\ L \in Nat
  OBVIOUS
<1>4. \A i \in 1..L : Ahead(rules, i) = ahead[i]
  OBVIOUS
<1> HIDE DEF ahead, L
<1>5. \A i \in 1..L : i \notin ahead[i]
  BY <1>1, <1>3
<1>6. \A i, j \in 1..L : i \in ahead[j] => ahead[i] \subseteq ahead[j]
  BY <1>1, <1>3
<1>7. \A i, j \in 1..L : i = j \/ i \in ahead[j] \/ j \in ahead[i]
  BY <1>1, <1>3
<1> DEFINE rank(i) == Cardinality(ahead[i]) + 1
<1>8. /\ \A i \in 1..L : rank(i) \in 1..L
      /\ \A i, j \in 1..L : i \in ahead[j] <=> rank(i) < rank(j)
      /\ \A i, j \in 1..L : rank(i) = rank(j) => i = j
      /\ \A m \in 1..L : \E i \in 1..L : rank(i) = m
  BY <1>2, <1>3, <1>5, <1>6, <1>7, Ranking
<1> HIDE DEF rank
<1>9. ASSUME NEW n \in 1..L
      PROVE  Ranked(rules, n) \in 1..L /\ rank(Ranked(rules, n)) = n
  <2>1. \A i \in DOMAIN rules : rank(i) = Cardinality(Ahead(rules, i)) + 1
    BY <1>3, <1>4 DEF rank
  <2>2. \E i \in DOMAIN rules : Cardinality(Ahead(rules, i)) + 1 = n
    <3>1. PICK i \in 1..L : rank(i) = n
      BY <1>8
    <3>2. i \in DOMAIN rules
      BY <1>3
    <3>3. Cardinality(Ahead(rules, i)) + 1 = n
      BY <2>1, <3>1, <3>2
    <3> QED
      BY <3>2, <3>3
  <2>3. /\ Ranked(rules, n) \in DOMAIN rules
        /\ Cardinality(Ahead(rules, Ranked(rules, n))) + 1 = n
    BY <2>2 DEF Ranked
  <2> QED
    BY <1>3, <2>1, <2>3
<1>10. ASSUME NEW i \in 1..L
       PROVE  \E n \in 1..L : i = Ranked(rules, n)
  <2>1. rank(i) \in 1..L
    BY <1>8
  <2>2. Ranked(rules, rank(i)) \in 1..L /\ rank(Ranked(rules, rank(i))) = rank(i)
    BY <1>9, <2>1
  <2>3. i = Ranked(rules, rank(i))
    BY <1>8, <2>2
  <2> QED
    BY <2>1, <2>3
<1>11. ASSUME NEW m \in 1..L, NEW n \in 1..L
       PROVE  m < n <=> rules[Ranked(rules, m)].priority > rules[Ranked(rules, n)].priority
  <2>1. /\ Ranked(rules, m) \in 1..L /\ rank(Ranked(rules, m)) = m
        /\ Ranked(rules, n) \in 1..L /\ rank(Ranked(rules, n)) = n
    BY <1>9
  <2> DEFINE i == Ranked(rules, m)  j == Ranked(rules, n)
  <2> HIDE DEF i, j
  <2>2. i \in 1..L /\ j \in 1..L /\ rank(i) = m /\ rank(j) = n
    BY <2>1 DEF i, j
  <2>3. i \in ahead[j] <=> m < n
    <3>1. i \in ahead[j] <=> rank(i) < rank(j)
      BY <1>8, <2>2
    <3> QED
      BY <2>2, <3>1
  <2>4. i \in ahead[j] <=> rules[i].priority > rules[j].priority
    BY <1>1, <2>2
  <2> QED
    BY <2>3, <2>4 DEF i, j
<1> QED
  BY <1>3, <1>9, <1>10, <1>11

\* What preflight has examined is what is promoted, and it is one of the given documents.
Examined ==
  /\ pc # "idle" => \E n \in 1..MaxRuns : docs \in Documents[n]
  /\ pc \in {"staging", "validating", "mkdir"} => Preflight(docs) = {}

LEMMA ExaminedStep ==
  ASSUME TypeOK, Examined, [Next]_vars
  PROVE  Examined'
<1>1. CASE run < MaxRuns /\ \E d \in Documents[run + 1] : Begin(d)
  <2>1. PICK d \in Documents[run + 1] : Begin(d)
    BY <1>1
  <2>2. run + 1 \in 1..MaxRuns
    BY <1>1, BoundsAssumption DEF TypeOK
  <2>3. docs' = d /\ pc' = "arguments"
    BY <2>1 DEF Begin
  <2> QED
    BY <2>1, <2>2, <2>3 DEF Examined
<1>2. CASE Transform
  <2>1. docs' = docs /\ pc = "arguments" /\ Preflight(docs) = {}
    BY <1>2 DEF Transform, Quiet
  <2> QED
    BY <2>1 DEF Examined
<1>3. ASSUME docs' = docs, pc' # "idle" => pc # "idle",
             pc' \in {"staging", "validating", "mkdir"} => pc \in {"staging", "validating", "mkdir"}
      PROVE  Examined'
  BY <1>3 DEF Examined
<1>4. CASE RefuseArguments \/ RefuseInputs \/ RefuseDocuments \/ RefuseStaged
  <2>1. docs' = docs /\ pc' = "reporting" /\ pc # "idle"
    BY <1>4 DEF RefuseArguments, RefuseInputs, RefuseDocuments, RefuseStaged, Finish, Quiet
  <2> QED
    BY <1>3, <2>1
<1>5. CASE Stage \/ StagingFails \/ Accept
  BY <1>3, <1>5 DEF Stage, StagingFails, Accept, Quiet
<1>6. CASE MakeDirectories \/ PromotionFails \/ Interrupt
  BY <1>3, <1>6 DEF MakeDirectories, PromotionFails, Interrupt, Promotion
<1>7. CASE BackUp
  <2>1. docs' = docs /\ pc = "backup" /\ pc' \in {"backup", "replace"}
    BY <1>7 DEF BackUp, Promotion
  <2> QED
    BY <1>3, <2>1
<1>8. CASE Replace
  <2>1. docs' = docs /\ pc = "replace" /\ pc' \in {"replace", "reporting"}
    BY <1>8 DEF Replace, Finish, Promotion
  <2> QED
    BY <1>3, <2>1
<1>9. CASE Restore
  <2>1. docs' = docs /\ pc = "restore" /\ pc' \in {"restore", "unlink"}
    BY <1>9 DEF Restore, Promotion
  <2> QED
    BY <1>3, <2>1
<1>10. CASE Unlink \/ RestoreFails
  <2>1. docs' = docs /\ pc # "idle" /\ pc' = "reporting"
    BY <1>10 DEF Unlink, RestoreFails, GiveUp, Finish, Promotion
  <2> QED
    BY <1>3, <2>1
<1>11. CASE WriteReport \/ EmitReport \/ ReportFails
  BY <1>3, <1>11 DEF WriteReport, EmitReport, ReportFails
<1>12. CASE Refresh \/ UNCHANGED vars
  BY <1>3, <1>12 DEF Refresh, vars
<1> QED
  BY <1>1, <1>2, <1>4, <1>5, <1>6, <1>7, <1>8, <1>9, <1>10, <1>11, <1>12 DEF Next

\* Of documents without an issue, source and generated rules decide every event alike.
LEMMA DecidedAlike ==
  ASSUME NEW n \in 1..MaxRuns, NEW d \in Documents[n], Preflight(d) = {}, Comparable(d.rules),
         NEW event
  PROVE  TargetDecides(TransformedRules(d.rules), event) = SourceDecides(d.rules, event)
<1> DEFINE rules == d.rules  L == Len(d.rules)
           of(k) == Ranked(rules, k)
           T == TransformedRules(rules)
<1>1. /\ RulesOf(d) = rules /\ rules # Wrong
      /\ \A r \in ToSet(rules) :
           /\ r # Wrong /\ Given(r.priority) /\ r.match # Wrong /\ r.match.tags # Wrong
           /\ \A t \in ToSet(Or(r.match.tags, <<>>)) : TagKey(t.key) # NoKey
      /\ ~DuplicatePriority(rules)
  BY RulesExamined
<1>2. /\ rules \in Seq(ToSet(rules))
      /\ \A r \in ToSet(rules) : /\ r.priority \in Int \cup {Absent, Wrong}
                                 /\ Given(r.match.tags) => r.match.tags \in Seq(ToSet(r.match.tags))
  BY <1>1, DocumentsAssumption
<1>3. L \in Nat /\ DOMAIN rules = 1..L /\ ToSet(rules) = {rules[i] : i \in 1..L}
  BY <1>2 DEF ToSet
<1> HIDE DEF rules, L
<1>4. \A i \in 1..L : rules[i] \in ToSet(rules) /\ rules[i].priority \in Int
  BY <1>1, <1>2, <1>3 DEF Given
<1>5. \A i, j \in 1..L : rules[i].priority = rules[j].priority => i = j
  BY <1>1, <1>3, <1>4 DEF DuplicatePriority, Priorities
<1>6. /\ \A k \in 1..L : of(k) \in 1..L
      /\ \A i \in 1..L : \E k \in 1..L : i = of(k)
      /\ \A j, k \in 1..L : j < k <=> rules[of(j)].priority > rules[of(k)].priority
  BY <1>3, <1>4, <1>5, RankedByPriority DEF L, rules
<1>7. DOMAIN T = 1..L /\ \A k \in 1..L : T[k] = Target(rules[of(k)], k)
  BY <1>3 DEF TransformedRules
<1>8. ToSet(T) = {T[k] : k \in 1..L} /\ ToSet(rules) = {rules[of(k)] : k \in 1..L}
  BY <1>3, <1>6, <1>7 DEF ToSet
<1> HIDE DEF of, T
<1>9. ASSUME NEW k \in 1..L
      PROVE  /\ TargetMatches(T[k], event) <=> SourceMatches(rules[of(k)], event)
             /\ T[k].name = rules[of(k)].name /\ T[k].priority = k
  <2> DEFINE r == rules[of(k)]  tags == Or(r.match.tags, <<>>)
  <2>1. r \in ToSet(rules) /\ T[k] = Target(r, k)
    BY <1>4, <1>6, <1>7
  <2>2. tags \in Seq(ToSet(tags))
    <3>1. CASE Given(r.match.tags)
      <4>1. tags = r.match.tags
        BY <3>1 DEF Or
      <4>2. r.match.tags \in Seq(ToSet(r.match.tags))
        BY <1>2, <2>1, <3>1
      <4> HIDE DEF tags
      <4> QED
        BY <4>1, <4>2
    <3>2. CASE ~Given(r.match.tags)
      <4>1. tags = <<>>
        BY <3>2 DEF Or
      <4> HIDE DEF tags
      <4> QED
        BY <4>1
    <3> QED
      BY <3>1, <3>2
  <2>3. Len(tags) \in Nat /\ DOMAIN tags = 1..Len(tags)
    BY <2>2
  <2>4. \A t \in ToSet(tags) : TagKey(t.key) # NoKey
    BY <1>1, <2>1
  <2>5. /\ r.name # Absent
        /\ \A s, t \in ToSet(tags) : TagKey(s.key) = TagKey(t.key) => s = t
    BY <2>1 DEF Comparable, rules
  <2>6. T[k].name = r.name /\ T[k].priority = k
    BY <2>1, <2>5 DEF Target
  <2> HIDE DEF r
  <2>7. TargetMatches(Target(r, k), event) <=> SourceMatches(r, event)
    BY <2>3, <2>4, <2>5, MatchesAlike
  <2> QED
    BY <2>1, <2>6, <2>7 DEF r
<1> DEFINE Hit(k) == SourceMatches(rules[of(k)], event)
           Won == {k \in 1..L : Hit(k) /\ \A j \in 1..L : Hit(j) => j = k \/ k < j}
<1>10. TargetDecides(T, event) = {rules[of(k)].name : k \in Won}
  <2> DEFINE M == {r \in ToSet(T) : TargetMatches(r, event)}
             D == {s \in M : \A o \in M : o = s \/ s.priority < o.priority}
  <2>1. TargetDecides(T, event) = {r.name : r \in D}
    BY DEF TargetDecides
  <2>2. M = {T[k] : k \in {i \in 1..L : Hit(i)}}
    <3>1. M = {T[k] : k \in {i \in 1..L : TargetMatches(T[i], event)}}
      BY <1>8
    <3> HIDE DEF M
    <3> QED
      BY <1>9, <3>1
  <2>3. \A j, k \in 1..L : /\ T[j] = T[k] <=> j = k
                           /\ T[j].priority < T[k].priority <=> j < k
    BY <1>9
  <2> HIDE DEF M
  <2>4. ASSUME NEW k \in 1..L
        PROVE  T[k] \in D <=> k \in Won
    <3>1. T[k] \in M <=> Hit(k)
      <4> HIDE DEF Hit
      <4> QED
        BY <2>2, <2>3
    <3>2. (\A o \in M : o = T[k] \/ T[k].priority < o.priority)
          <=> (\A j \in 1..L : Hit(j) => j = k \/ k < j)
      <4> HIDE DEF Hit
      <4> QED
        BY <2>2, <2>3
    <3> HIDE DEF Hit
    <3> QED
      BY <3>1, <3>2
  <2>5. \A r \in D : \E k \in 1..L : r = T[k]
    BY <2>2
  <2>6. \A k \in Won : k \in 1..L
    OBVIOUS
  <2> HIDE DEF D, Won
  <2>7. D = {T[k] : k \in Won}
    BY <2>4, <2>5, <2>6
  <2>8. \A k \in Won : T[k].name = rules[of(k)].name
    BY <1>9, <2>6
  <2> HIDE DEF Hit
  <2> QED
    BY <2>1, <2>7, <2>8
<1>11. SourceDecides(rules, event) = {rules[of(k)].name : k \in Won}
  <2> DEFINE M == {r \in ToSet(rules) : SourceMatches(r, event)}
             D == {s \in M : \A o \in M : o = s \/ s.priority > o.priority}
             R == [k \in 1..L |-> rules[of(k)]]
  <2>1. SourceDecides(rules, event) = {r.name : r \in D}
    BY DEF SourceDecides
  <2>2. \A k \in 1..L : R[k] = rules[of(k)] /\ R[k].priority \in Int
    BY <1>4, <1>6
  <2>3. ToSet(rules) = {R[k] : k \in 1..L} /\ \A k \in 1..L : Hit(k) <=> SourceMatches(R[k], event)
    BY <1>8
  <2>4. \A j, k \in 1..L : j < k <=> R[j].priority > R[k].priority
    BY <1>6
  <2> HIDE DEF R, Hit
  <2>5. M = {R[k] : k \in {i \in 1..L : Hit(i)}}
    BY <2>3
  <2>6. \A j, k \in 1..L : R[j] = R[k] <=> j = k
    BY <2>2, <2>4
  <2> HIDE DEF M
  <2>7. ASSUME NEW k \in 1..L
        PROVE  R[k] \in D <=> k \in Won
    <3>1. R[k] \in M <=> Hit(k)
      BY <2>5, <2>6
    <3>2. (\A o \in M : o = R[k] \/ R[k].priority > o.priority)
          <=> (\A j \in 1..L : Hit(j) => j = k \/ k < j)
      BY <2>4, <2>5, <2>6
    <3> QED
      BY <3>1, <3>2
  <2>8. \A r \in D : \E k \in 1..L : r = R[k]
    BY <2>5
  <2>9. \A k \in Won : k \in 1..L
    OBVIOUS
  <2> HIDE DEF D, Won
  <2>10. D = {R[k] : k \in Won}
    BY <2>7, <2>8, <2>9
  <2>11. \A k \in Won : R[k].name = rules[of(k)].name
    BY <2>2, <2>9
  <2> QED
    BY <2>1, <2>10, <2>11
<1> QED
  BY <1>10, <1>11 DEF T, rules

LEMMA ExaminedInvariant == Spec => []Examined
<1>1. Init => Examined
  BY DEF Init, Examined
<1>2. MigrationInv => TypeOK
  BY DEF MigrationInv, Shape
<1> QED
  BY <1>1, <1>2, ExaminedStep, MigrationInvariant, PTL DEF Spec

------------------------------------------------------------------------------
(* Results *)

\* Every variable of a migration run keeps its type (_build_report, _promote).
THEOREM MigrationTypeCorrect == Spec => []TypeOK
<1>1. MigrationInv => TypeOK
  BY DEF MigrationInv, Shape
<1> QED
  BY <1>1, MigrationInvariant, PTL

\* Whatever the number of files, runs and failures: unless a promotion was cut off or its
\* restoring failed, the output directory is what the run found or wholly the run's own.
THEOREM PromotionIsAllOrNothing == Spec => []OutputIsWhole
<1>1. MigrationInv => OutputIsWhole
  BY DEF MigrationInv
<1> QED
  BY <1>1, MigrationInvariant, PTL

\* A published success is in force in the output directory, a published failure left none of
\* its run's files there (_finish after _promote).
THEOREM PublishedReportIsTrue == Spec => []ReportIsTrue
<1>1. MigrationInv => ReportIsTrue
  <2> SUFFICES ASSUME MigrationInv, report # NoReport, ~spoiled
               PROVE  /\ report.ok /\ pc \notin Promoting => \E v \in report.run..run : Whole(v)
                      /\ ~report.ok => \A n \in Names : files[n] # report.run
    BY DEF ReportIsTrue
  <2>1. IF report.ok THEN \E v \in report.run..run : \A n \in Names : Standing[n] = v
        ELSE \A n \in Names : Standing[n] # report.run
    BY DEF MigrationInv, Truthful
  <2>2. CASE pc \notin Promoting
    BY <2>1, <2>2 DEF Standing, Whole
  <2>3. CASE pc \in Promoting
    <3>1. report.run < run /\ report.run \in Nat /\ run \in Nat
      BY <2>3 DEF MigrationInv, Truthful, Shape, TypeOK, Reports, Promoting
    <3>2. ~report.ok => \A n \in Names : files[n] # report.run
      BY <2>1, <2>3, <3>1, PromotedOrFound DEF Standing
    <3> QED
      BY <2>3, <3>2
  <2> QED
    BY <2>2, <2>3
<1> QED
  BY <1>1, MigrationInvariant, PTL

\* A run that met no failure and no signal ends with its own report published, and its exit
\* code agrees: no document that preflight lets pass, of any shape, makes a transform raise.
THEOREM UnhurtRunsReport == Spec => []EndsReported
<1>1. MigrationInv => EndsReported
  BY DEF MigrationInv
<1> QED
  BY <1>1, MigrationInvariant, PTL

\* Whatever is reported, however many issues and however long, the server can read it:
\* _build_report stays within what _validate_migration_report accepts.
THEOREM ReportsStayReadable == Spec => []PublishedIsReadable
<1>1. MigrationInv => PublishedIsReadable
  BY DEF MigrationInv, Readable, PublishedIsReadable
<1> QED
  BY <1>1, MigrationInvariant, PTL

\* Of any rules preflight lets pass, none naming one tag twice, the generated ones pick for
\* every event what the Vigilo priorities picked (_transform_rules, RuleEngine.evaluate).
THEOREM RulesStillDecide == Spec => []RulesDecideAlike
<1>1. Examined => RulesDecideAlike
  <2> SUFFICES ASSUME Examined, pc = "mkdir", Comparable(docs.rules), NEW e \in Events
               PROVE  TargetDecides(TransformedRules(docs.rules), e) = SourceDecides(docs.rules, e)
    BY DEF RulesDecideAlike
  <2>1. Preflight(docs) = {} /\ \E n \in 1..MaxRuns : docs \in Documents[n]
    BY DEF Examined
  <2> QED
    BY <2>1, DecidedAlike
<1> QED
  BY <1>1, ExaminedInvariant, PTL
==============================================================================
