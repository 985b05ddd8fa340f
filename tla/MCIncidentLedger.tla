-------------------------- MODULE MCIncidentLedger --------------------------
(* Small instances of IncidentLedger. *)
EXTENDS IncidentLedger, TLC

CONSTANTS MCThresholds, MCSeconds

\* Fingerprint f is a problem of the f-th host: it fixes the object.
MCHost(f) == IF f = 1 THEN "h1" ELSE "h2"
MCObject(f) == [host |-> MCHost(f), service |-> NoService]

MCInputs ==
  {[fp |-> f, time |-> t, object |-> MCObject(f), threshold |-> n, seconds |-> s] :
     f \in Fingerprints, t \in Times, n \in MCThresholds, s \in MCSeconds}

MCSymmetry == Permutations(Txs)
==============================================================================
