--------------------------- MODULE MCIncidentStore ---------------------------
(* Small instances of IncidentStore. *)
EXTENDS IncidentStore, Sequences, SequencesExt

CONSTANTS
  MCFamilies,   \* the families of workloads of this run
  MCFirst       \* the (rule, group) every family has

\* Fingerprint f is a problem of the f-th host: it fixes the object.
MCHost(f) == IF f = 1 THEN "h1" ELSE "h2"
MCObject(f) == [host |-> MCHost(f), service |-> NoService]

\* Problems of a window of one second, crossing at two fingerprints.
MCProblem(f, time) ==
  [fp |-> f, time |-> time, object |-> MCObject(f), threshold |-> 2, seconds |-> 1]

MCInputs == {MCProblem(f, time) : f \in Fingerprints, time \in Times}

\* A family: the groups, fingerprints and times of its problems, how many of
\* the requests may be problems, and what the others may be.
MCMerging ==
  [keys |-> {MCFirst}, fps |-> {1, 2}, times |-> {0}, problems |-> {1, 2, 3},
   others |-> {"recovery", "close", "ack", "delivery"}]
MCExpiring ==
  [keys |-> Keys, fps |-> {1}, times |-> Times, problems |-> {1, 2, 3, 4},
   others |-> {"expire"}]
MCRecovering ==
  [keys |-> Keys, fps |-> {1, 2}, times |-> {0}, problems |-> {2},
   others |-> {"recovery"}]
MCRepeating ==
  [keys |-> {MCFirst}, fps |-> {1, 2}, times |-> {0}, problems |-> {3},
   others |-> {"expire"}]
MCClosing ==
  [keys |-> {MCFirst}, fps |-> {1, 2}, times |-> {0}, problems |-> {1, 2, 3, 4},
   others |-> {"close"}]

MCConcurrent == {MCMerging, MCExpiring}
MCFailing    == {MCRecovering, MCRepeating}
MCVanishing  == {MCClosing}

MCOtherSeq ==
  SetToSeq([kind : {"recovery"}, object : {MCObject(f) : f \in {1, 2}}])
    \o SetToSeq([kind : {"ack", "close"}, id : {1, 2}])
    \o SetToSeq([kind : {"expire"}, now : {0}])
    \o SetToSeq([kind : {"delivery"}, id : {1, 2}, plugin : Plugins,
                 result : Results \ {"none"}])

\* Transactions are alike until they begin, so one order of each bag of
\* requests is enough: the problems first.
MCBags(family) ==
  LET problems  == SetToSeq({[kind |-> "problem", key |-> key, in |-> MCProblem(f, time)] :
                               key \in family.keys, f \in family.fps, time \in family.times})
      requests  == problems \o SelectSeq(MCOtherSeq, LAMBDA r : r.kind \in family.others)
      sorted    == {s \in [Txs -> DOMAIN requests] :
                      /\ \A t, u \in Txs : t < u => s[t] <= s[u]
                      /\ Cardinality({t \in Txs : s[t] <= Len(problems)}) \in family.problems}
  IN  {[t \in Txs |-> requests[s[t]]] : s \in sorted}

MCWorkloads == UNION {MCBags(family) : family \in MCFamilies}
==============================================================================
