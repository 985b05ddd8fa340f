--------------------------- MODULE MCWindowHistory ---------------------------
(* Small instances of WindowHistory. *)
EXTENDS WindowHistory

\* A fingerprint is a hash of the object and its severity, so it fixes the
\* object; with one host every fingerprint may stand for the same object.
MCObject(f) == [host |-> CHOOSE h \in Hosts : TRUE, service |-> NoService]

\* Threshold and window of the rule before and after a configuration change;
\* the new one still matches two of the fingerprints.
MCRules(f) == IF f <= 2 THEN {<<3, 1>>, <<2, 2>>} ELSE {<<3, 1>>}

MCInputs ==
  UNION {{[fp |-> f, time |-> t, object |-> MCObject(f), threshold |-> r[1], seconds |-> r[2]] :
            t \in Times, r \in MCRules(f)} : f \in Fingerprints}
==============================================================================
