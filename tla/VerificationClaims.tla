------------------------- MODULE VerificationClaims -------------------------
(* Invocations of scripts/verification.py that share one project name on one *)
(* Docker daemon: the marker container that claims the name, the receipt,    *)
(* the resources their commands create, and both forms of the cleanup.       *)
(* Every Docker command may fail, with or without having had its effect.     *)
EXTENDS Naturals, FiniteSets, Sequences

CONSTANTS Invocations, Operator, NoClaim,
          Kinds   \* _RESOURCES: the kinds in the order they are listed and removed

ASSUME ClaimsAssumption ==
  /\ NoClaim \notin Invocations /\ Operator \notin Invocations
  /\ Kinds \in Seq(STRING) /\ Kinds # <<>>

Cleaners == Invocations \cup {Operator}
KindSet == {Kinds[n] : n \in 1..Len(Kinds)}

VARIABLES claim,      \* the owner of the marker container of the project's name
          resources,  \* <<invocation that created it, kind>>, all labelled with the project
          receipts,   \* invocations whose receipt file exists
          phase,
          position, listed, \* the kind a cleaner or an acquisition is at, and its last listing
          failed,     \* _cleanup_resources has met a failure
          result,     \* verification.py's exit code: 0, 1
          seen        \* the claim a deliberate cleanup has read

cvars == <<claim, resources, receipts, phase, position, listed, failed, result, seen>>

ClaimsTypeOK ==
  /\ claim \in Invocations \cup {NoClaim} /\ seen \in Invocations \cup {NoClaim}
  /\ resources \subseteq Invocations \X KindSet /\ receipts \subseteq Invocations
  /\ phase \in [Cleaners -> {"idle", "inspecting", "confirming", "rejecting", "running", "checking",
                          "cleaning", "verifying", "releasing", "ended"}]
  /\ position \in [Cleaners -> 1..Len(Kinds)]
  /\ listed \in [Cleaners -> SUBSET (Invocations \X KindSet)]
  /\ failed \in [Cleaners -> BOOLEAN] /\ result \in [Invocations -> {0, 1}]

ClaimsInit ==
  /\ claim = NoClaim /\ receipts = {} /\ seen = NoClaim
  /\ resources = {}
  /\ phase = [p \in Cleaners |-> "idle"]
  /\ position = [p \in Cleaners |-> 1] /\ listed = [p \in Cleaners |-> {}]
  /\ failed = [p \in Cleaners |-> FALSE] /\ result = [i \in Invocations |-> 0]

To(p, state) == phase' = [phase EXCEPT ![p] = state]
OfKind(k) == {r \in resources : r[2] = k}
Ends(i, code) == To(i, "ended") /\ result' = [result EXCEPT ![i] = code]

----------------------------------------------------------------------------
(* acquire *)

Create(i) ==
  /\ phase[i] = "idle" /\ claim = NoClaim
  /\ claim' = i /\ To(i, "inspecting")
  /\ UNCHANGED <<resources, receipts, position, listed, failed, result, seen>>

\* The name is taken, or the command fails; the container may exist all the same.
CreateFails(i) ==
  /\ phase[i] = "idle"
  /\ claim' \in {claim} \cup IF claim = NoClaim THEN {i} ELSE {}
  /\ Ends(i, 1)
  /\ UNCHANGED <<resources, receipts, position, listed, failed, seen>>

Inspect(i) ==
  /\ phase[i] = "inspecting"
  /\ \/ OfKind(Kinds[position[i]]) # {} /\ To(i, "rejecting") /\ UNCHANGED position
     \/ /\ OfKind(Kinds[position[i]]) = {}
        /\ IF position[i] = Len(Kinds) THEN To(i, "confirming") /\ position' = [position EXCEPT ![i] = 1]
           ELSE position' = [position EXCEPT ![i] = @ + 1] /\ UNCHANGED phase
  /\ UNCHANGED <<claim, resources, receipts, listed, failed, result, seen>>

\* The identity is the invocation's own, and the receipt is written.
Confirm(i) ==
  /\ phase[i] = "confirming" /\ claim = i
  /\ receipts' = receipts \cup {i} /\ To(i, "running")
  /\ UNCHANGED <<claim, resources, position, listed, failed, result, seen>>

\* A listing fails, a foreign volume has the database's name, the claim is another's, or the
\* receipt cannot be written.
Reject(i) ==
  /\ phase[i] \in {"inspecting", "confirming"}
  /\ To(i, "rejecting")
  /\ UNCHANGED <<claim, resources, receipts, position, listed, failed, result, seen>>

RemoveNamed(id) == claim' = NoClaim  \* mutant of RemoveMarker: docker rm by name
RemoveMarker(id) == claim' = IF claim = id THEN NoClaim ELSE claim

ReleaseRejected(i) ==
  /\ phase[i] = "rejecting"
  /\ \/ RemoveMarker(i)
     \/ UNCHANGED claim
  /\ Ends(i, 1)
  /\ UNCHANGED <<resources, receipts, position, listed, failed, seen>>

----------------------------------------------------------------------------
(* The command *)

Use(i) ==
  /\ phase[i] = "running"
  /\ \E k \in KindSet : resources' = resources \cup {<<i, k>>}
  /\ UNCHANGED <<claim, receipts, phase, position, listed, failed, result, seen>>

CommandEnds(i) ==
  /\ phase[i] = "running"
  /\ \E code \in {0, 1} : result' = [result EXCEPT ![i] = code]
  /\ To(i, "checking")
  /\ UNCHANGED <<claim, resources, receipts, position, listed, failed, seen>>

\* Killed, or interrupted before acquire has returned: the marker and the receipt stay.
Crash(i) ==
  /\ phase[i] \notin {"idle", "ended"}
  /\ Ends(i, 1)
  /\ position' = [position EXCEPT ![i] = 1] /\ listed' = [listed EXCEPT ![i] = {}]
  /\ failed' = [failed EXCEPT ![i] = FALSE]
  /\ UNCHANGED <<claim, resources, receipts, seen>>

----------------------------------------------------------------------------
(* cleanup_owned, by the invocation or by the step after it; cleanup, by an  *)
(* operator who has seen that the namespace's owner has ended.               *)

Retry(i) ==
  /\ phase[i] = "ended" /\ i \in receipts
  /\ To(i, "checking")
  /\ UNCHANGED <<claim, resources, receipts, position, listed, failed, result, seen>>

\* No receipt, a marker that is another's, or an inspection that fails: nothing is touched.
Owned(i) ==
  /\ phase[i] = "checking"
  /\ \/ i \in receipts /\ claim = i /\ To(i, "cleaning") /\ UNCHANGED result
     \/ Ends(i, 1)
  /\ UNCHANGED <<claim, resources, receipts, position, listed, failed, seen>>

Deliberate ==
  /\ phase[Operator] = "idle"
  /\ claim # NoClaim => phase[claim] = "ended"
  /\ To(Operator, "cleaning") /\ seen' = claim
  /\ UNCHANGED <<claim, resources, receipts, position, listed, failed, result>>

Listing(p) ==
  /\ phase[p] = "cleaning" /\ listed[p] = {}
  /\ OfKind(Kinds[position[p]]) # {}
  /\ listed' = [listed EXCEPT ![p] = OfKind(Kinds[position[p]])]
  /\ UNCHANGED <<claim, resources, receipts, phase, position, failed, result, seen>>

\* A removal that fails may still remove; so may one of what is already gone.
RemoveListed(p) ==
  /\ phase[p] = "cleaning"
  /\ \E r \in listed[p] :
       /\ \/ resources' = resources \ {r} /\ failed' \in {failed, [failed EXCEPT ![p] = TRUE]}
          \/ UNCHANGED resources /\ failed' = [failed EXCEPT ![p] = TRUE]
       /\ listed' = [listed EXCEPT ![p] = @ \ {r}]
       /\ IF listed'[p] # {} THEN UNCHANGED <<phase, position>>
          ELSE IF position[p] = Len(Kinds) THEN To(p, "verifying") /\ position' = [position EXCEPT ![p] = 1]
          ELSE position' = [position EXCEPT ![p] = @ + 1] /\ UNCHANGED phase
  /\ UNCHANGED <<claim, receipts, result, seen>>

\* The listing is empty, or it fails.
NothingToRemove(p) ==
  /\ phase[p] = "cleaning" /\ listed[p] = {}
  /\ failed' \in IF OfKind(Kinds[position[p]]) = {} THEN {failed, [failed EXCEPT ![p] = TRUE]}
                 ELSE {[failed EXCEPT ![p] = TRUE]}
  /\ IF position[p] = Len(Kinds) THEN To(p, "verifying") /\ position' = [position EXCEPT ![p] = 1]
     ELSE position' = [position EXCEPT ![p] = @ + 1] /\ UNCHANGED phase
  /\ UNCHANGED <<claim, resources, receipts, listed, result, seen>>

Fails(p) ==
  IF p = Operator THEN To(p, "idle") /\ UNCHANGED result ELSE Ends(p, 1)

VerifyNothing(p) ==  \* mutant of Verify: the second listing is not looked at
  /\ phase[p] = "verifying"
  /\ To(p, "releasing")
  /\ position' = [position EXCEPT ![p] = 1] /\ failed' = [failed EXCEPT ![p] = FALSE] /\ UNCHANGED result
  /\ UNCHANGED <<claim, resources, receipts, listed, seen>>
Verify(p) ==
  /\ phase[p] = "verifying"
  /\ LET bad == failed[p] \/ OfKind(Kinds[position[p]]) # {}
     IN IF position[p] < Len(Kinds)
        THEN /\ position' = [position EXCEPT ![p] = @ + 1] /\ failed' = [failed EXCEPT ![p] = bad]
             /\ UNCHANGED <<phase, result>>
        ELSE /\ position' = [position EXCEPT ![p] = 1] /\ failed' = [failed EXCEPT ![p] = FALSE]
             /\ IF bad THEN Fails(p) ELSE To(p, "releasing") /\ UNCHANGED result
  /\ UNCHANGED <<claim, resources, receipts, listed, seen>>

ReleaseOwned(i) ==
  /\ phase[i] = "releasing" /\ claim = i
  /\ RemoveMarker(i)
  /\ receipts' = receipts \ {i} /\ To(i, "ended")
  /\ UNCHANGED <<resources, position, listed, failed, result, seen>>

\* The identity no longer matches, or docker rm fails, perhaps after removing the marker.
ReleaseFails(i) ==
  /\ phase[i] = "releasing"
  /\ RemoveMarker(i) \/ UNCHANGED claim
  /\ Ends(i, 1)
  /\ UNCHANGED <<resources, receipts, position, listed, failed, seen>>

\* docker rm of a marker that is gone fails, and takes nothing with it.
ReleaseSeen ==
  /\ phase[Operator] = "releasing"
  /\ \/ seen # NoClaim /\ RemoveMarker(seen)
     \/ UNCHANGED claim
  /\ To(Operator, "idle") /\ seen' = NoClaim
  /\ UNCHANGED <<resources, receipts, position, listed, failed, result>>

ClaimsNext ==
  \/ \E i \in Invocations :
       \/ Create(i) \/ CreateFails(i) \/ Inspect(i) \/ Confirm(i) \/ Reject(i) \/ ReleaseRejected(i)
       \/ Use(i) \/ CommandEnds(i) \/ Crash(i)
       \/ Retry(i) \/ Owned(i) \/ ReleaseOwned(i) \/ ReleaseFails(i)
  \/ \E p \in Cleaners : Listing(p) \/ RemoveListed(p) \/ NothingToRemove(p) \/ Verify(p)
  \/ Deliberate \/ ReleaseSeen

ClaimsSpec == ClaimsInit /\ [][ClaimsNext]_cvars

----------------------------------------------------------------------------
(* Properties *)

\* Whoever acquires the namespace or runs its command holds the claim: at most one invocation
\* works in it, and no release, however late, takes another's marker (acquire, _release_claim).
NamespaceIsExclusive ==
  \A i \in Invocations :
    phase[i] \in {"inspecting", "confirming", "rejecting", "running"} => claim = i

\* A verification that reports success leaves neither its claim nor a resource behind (main).
PassedIsClean ==
  \A i \in Invocations : phase[i] = "ended" /\ result[i] = 0 =>
    claim # i /\ ~\E k \in KindSet : <<i, k>> \in resources
============================================================================
