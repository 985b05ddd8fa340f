----------------------------- MODULE MCAdmission -----------------------------
(* A small instance of Admission: hosts with and without topology rules, tags *)
(* that collide with them, texts on either side of every bound.               *)
EXTENDS Admission

auth == "auth_zone"
dc == "topology.dc"
rack == "topology.rack"
site == "site"

MCOrder == <<auth, site, dc, rack>>
MCSensitive == {auth}
MCKeyBytes == [k \in ToSet(MCOrder) \cup ToSet(Fields) \cup {"message"} |->
                 IF k = "check_output" THEN 3 ELSE 2]
MCBytes == [web |-> 4, db |-> 3, icinga |-> 6, fine |-> 4, wordy |-> 9, endless |-> 14,
            pass |-> 3, torn |-> 5, ripped |-> 3, late |-> 12, redacted |-> 6,
            a |-> 1, b |-> 2, wide |-> 7]
MCTexts == DOMAIN MCBytes
\* "torn" has its fragment across the cut, "late" behind it.
MCSecrets == {"pass", "torn", "late"}
MCLeaks == {"pass", "torn", "late", "ripped"}
MCCut == [t \in MCTexts |-> CASE t = "torn" -> "ripped"
                              [] t \in {"late", "wordy"} -> "fine"
                              [] OTHER -> t]

MCLimits == {0, 2}
MCLengths == {0, 2, 3, NoLength, Garbled}
MCChunks == {0, 1, 2}

Maps == {NoTags, site :> "a", dc :> "b", (auth :> "a" @@ site :> "wide"),
         (site :> "pass" @@ dc :> "a"), (site :> "wide" @@ rack :> "wide"),
         (auth :> "b" @@ site :> "a" @@ dc :> "a"),
         (auth :> "a" @@ site :> "a" @@ dc :> "a" @@ rack :> "a")}

MCPayloads ==
  [host : {"web", "db"}, address : {0, 1, 3}, service : {TRUE}, source : {"icinga"},
   state : {"OK", "CRITICAL", "WARNING", "DOWN"}, stateType : {"HARD"}, tags : Maps,
   message : {"fine", "wordy", "endless", "pass", "torn", "late"}]
  \cup
  [host : {"web"}, address : {0}, service : {FALSE}, source : {"icinga"},
   state : {"UP", "DOWN", "UNREACHABLE", "OK"}, stateType : {"HARD", "SOFT"},
   tags : {NoTags}, message : {"fine"}]

\* The second pattern matches whatever the first one does.
WebRule == [hosts |-> {"web"}, tags |-> dc :> "a",
            captures |-> (dc :> [web |-> "b", db |-> NoText]
                          @@ rack :> [web |-> "wide", db |-> NoText])]
AnyRule == [hosts |-> {"web", "db"}, tags |-> rack :> "a",
            captures |-> dc :> [web |-> "a", db |-> NoText]]
Inner == [net |-> {1}, tags |-> dc :> "b"]
Outer == [net |-> {1, 2, 3}, tags |-> dc :> "b"]
Other == [net |-> {3}, tags |-> dc :> "a"]

MCTopologies ==
  {NoTopology,
   [hostnames |-> <<WebRule, AnyRule>>, subnets |-> <<>>],
   [hostnames |-> <<WebRule>>, subnets |-> <<Inner, Outer>>],
   [hostnames |-> <<>>, subnets |-> <<Inner, Outer, Other>>]}

Rule(name, priority, required, group, quotes) ==
  [name |-> name, priority |-> priority, severities |-> {"CRITICAL"},
   hosts |-> {"web", "db"}, service |-> TRUE, tags |-> required,
   groupBy |-> group, quotesMessage |-> quotes]

MCRuleFiles ==
  {<<>>,
   <<Rule("r1", 2, NoTags, "host", TRUE), Rule("r2", 1, dc :> "b", rack, FALSE)>>,
   <<Rule("r1", 1, dc :> "a", "message", FALSE), Rule("r2", 1, NoTags, site, FALSE)>>}
==============================================================================
