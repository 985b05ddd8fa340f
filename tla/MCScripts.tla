----------------------------- MODULE MCScripts -----------------------------
(* The operator scripts: runs of the migration, or invocations that claim a  *)
(* verification namespace.  The two share nothing, so a behaviour is one of  *)
(* the migration or one of the claims.                                       *)
EXTENDS Migration, VerificationClaims

CONSTANTS h1, h2
VARIABLE script

ScriptsInit ==
  /\ script \in {"migration", "claims"}
  /\ Init /\ (script = "claims" => ~dir)
  /\ ClaimsInit
ScriptsNext ==
  \/ script = "migration" /\ Next /\ UNCHANGED <<script, cvars>>
  \/ script = "claims" /\ ClaimsNext /\ UNCHANGED <<script, vars>>
ScriptsSpec == ScriptsInit /\ [][ScriptsNext]_<<script, vars, cvars>>

(* The documents *)

Dc == <<"dc">>
TopologyDc == <<"topology", "dc">>
LongTag == <<"DC">>
MCKinds == <<"container", "volume">>
MCLegalParts == {"topology", "dc"}
MCFields == {<<"host">>, <<"service">>}
MCOrder == <<"rules.yaml", "topology.yaml", "plugins.yaml">>

Pair(k, v) == <<[key |-> k, value |-> v]>>
Match == [unknown |-> FALSE, severity |-> <<"CRITICAL">>, host |-> {h1, h2}, service |-> Absent,
          tags |-> Pair(Dc, "x")]
Window == [unknown |-> FALSE, minHosts |-> FALSE, groupBy |-> <<<<"host">>, Dc>>, threshold |-> 2]
Rule == [unknown |-> FALSE, dcLevel |-> FALSE, name |-> <<"one">>, priority |-> 1, match |-> Match,
         window |-> Window, summary |-> <<<<"host">>, Dc>>, actions |-> <<"mail">>]
Hostname == [unknown |-> FALSE, name |-> <<"n">>, regex |-> "capture", target |-> Dc, tags |-> <<>>]
Subnet == [unknown |-> FALSE, cidr |-> {1}, value |-> "x", target |-> Dc]
Topology == [unknown |-> FALSE, hostnames |-> <<Hostname>>, subnets |-> <<Subnet>>]
Body == [unknown |-> FALSE, module |-> "email", class |-> "EmailPlugin",
         config |-> [credential |-> FALSE, unknown |-> FALSE, useTls |-> Absent, host |-> "ok"]]
Plugins == [unknown |-> FALSE, outputs |-> <<[name |-> "mail", body |-> Body]>>]
Good == [args |-> "ok", reportPath |-> TRUE, inputs |-> "ok",
         rulesWrapper |-> "ok", rules |-> <<Rule>>,
         topologyWrapper |-> "ok", topology |-> Topology, plugins |-> Plugins]

\* The ways of a record: each field takes each of its odd values, the others stay.
OddOf(base, odd) == UNION {{[base EXCEPT ![f] = v] : v \in odd[f]} : f \in DOMAIN odd}

OddMatches ==
  {Wrong} \cup OddOf(Match, [unknown |-> {TRUE}, severity |-> {Absent, Wrong, <<>>, <<Wrong>>},
    host |-> {Absent, Wrong}, service |-> {Wrong, {"s"}},
    tags |-> {Absent, Wrong, Pair(Wrong, "x"), Pair(Dc, Wrong), Pair(Dc, "x*"), Pair(LongTag, "x"),
              Pair(<<>>, "x"), Pair(TopologyDc, "x"), Pair(Dc, "y") \o Pair(TopologyDc, "x")}])
OddWindows ==
  {Wrong, Absent} \cup OddOf(Window, [unknown |-> {TRUE}, minHosts |-> {TRUE},
    threshold |-> {Absent, 0, Wrong},
    groupBy |-> {Absent, Wrong, <<Wrong>>, <<<<"rule_name">>>>, <<LongTag>>}])
OddRules ==
  {Wrong} \cup OddOf(Rule, [unknown |-> {TRUE}, dcLevel |-> {TRUE}, name |-> {Absent, Wrong},
    priority |-> {Absent, Wrong}, match |-> OddMatches, window |-> OddWindows,
    summary |-> {Absent, Wrong, <<Wrong>>, <<LongTag>>},
    actions |-> {Absent, Wrong, <<>>, <<Wrong>>, <<"pager">>, <<"mail", "mail">>}])
OddHostnames ==
  {Wrong} \cup OddOf(Hostname, [unknown |-> {TRUE}, regex |-> {Absent, Wrong, "plain", "broken"},
    target |-> {Absent, Wrong, LongTag}, tags |-> {Absent, Wrong, Pair(Dc, "x"), Pair(Dc, "too long"), Pair(Wrong, "x")}])
  \cup {[Hostname EXCEPT !.regex = "broken", !.tags = Pair(Dc, "x")]}
OddSubnets ==
  {Wrong} \cup OddOf(Subnet, [unknown |-> {TRUE}, cidr |-> {Absent, Wrong},
    value |-> {Absent, Wrong, "too long"}, target |-> {Absent, Wrong, LongTag}])
OddTopologies ==
  {Wrong} \cup OddOf(Topology, [unknown |-> {TRUE},
    hostnames |-> {Absent, Wrong, <<Hostname, Hostname>>} \cup {<<h>> : h \in OddHostnames},
    subnets |-> {Absent, Wrong, <<Subnet, [Subnet EXCEPT !.value = "y"]>>} \cup {<<s>> : s \in OddSubnets}])
OddConfigs ==
  {Wrong} \cup OddOf(Body.config, [credential |-> {TRUE}, unknown |-> {TRUE},
    useTls |-> {Wrong, FALSE, TRUE}, host |-> {Wrong, "placeholder"}])
OddOutputs ==
  {[name |-> "placeholder", body |-> Body], [name |-> "mail", body |-> Wrong]}
  \cup {[name |-> "mail", body |-> b] : b \in OddOf(Body, [unknown |-> {TRUE},
         module |-> {"other output", "foreign"}, class |-> {"Other"}, config |-> OddConfigs])}
OddPlugins ==
  {Wrong} \cup OddOf(Plugins, [unknown |-> {TRUE},
    outputs |-> {Absent, Wrong} \cup {<<o>> : o \in OddOutputs}])

Two == <<Rule, [Rule EXCEPT !.name = <<"two">>]>>
OddDocuments ==
  OddOf(Good, [args |-> {"invalid", "duplicate"}, reportPath |-> {FALSE},
    inputs |-> {"bad path", "bad yaml"}, rulesWrapper |-> {Absent, Wrong, "extra"},
    topologyWrapper |-> {Absent, Wrong, "extra"},
    rules |-> {<<r>> : r \in OddRules} \cup {Wrong, <<>>, Two},
    topology |-> OddTopologies, plugins |-> OddPlugins])

\* Two rules of either order of priorities, of which one, both or none match an event.
Variants(name) ==
  {[Rule EXCEPT !.name = name, !.priority = p, !.match.host = h, !.match.tags = t] :
     p \in {1, 2}, h \in {{h1}, {h1, h2}}, t \in {Absent, Pair(Dc, "x")}}
Pairs == {[Good EXCEPT !.rules = <<r, s>>] : r \in Variants(<<"one">>), s \in Variants(<<"two">>)}

MCDocuments == <<OddDocuments \cup Pairs \cup {Good},
                 {Good, [Good EXCEPT !.reportPath = FALSE], [Good EXCEPT !.rules = <<Wrong>>]}>>
MCEvents == [severity : {"CRITICAL"}, host : {h1, h2}, service : {"s"},
             tags : {<<>>} \cup [{TopologyDc} -> {"x", "y"}]]
MCReportCodes ==
  {"duplicate_flag", "invalid_input_path", "invalid_yaml", "invalid_source_document",
   "missing_top_level_wrapper", "unknown_source_field", "unsupported_rule_min_hosts",
   "unsupported_rule_is_dc_level", "invalid_rule_severity", "invalid_rule_priority",
   "invalid_rule_tags", "invalid_rule_matcher", "duplicate_rule_priority", "empty_actions",
   "invalid_action_entry", "unsupported_tag_wildcard", "invalid_topology_tag_key",
   "unsupported_group_by", "unsupported_summary_placeholder", "missing_topology_target_tag",
   "unsupported_hostname_topology", "invalid_topology_section", "invalid_topology_value",
   "missing_subnet_field", "unsupported_plugin_section", "unsupported_plugin_type",
   "unsupported_plugin_class", "plaintext_smtp_credentials", "unsupported_plugin_option",
   "unknown_action_plugin", "validation_failure", "promotion_failure"}
============================================================================
