------------------------- MODULE VigiloTranslation -------------------------
(* What scripts/migrate_vigilo_config.py makes of one set of Vigilo          *)
(* documents: the issues its preflight finds, the rules it writes, what its  *)
(* transforms and the strict loaders refuse.                                 *)
(*                                                                           *)
(* A YAML value is Absent (no such key), Wrong (of another type) or a value. *)
(* A name is the sequence of its dotted parts, a pattern the set of hosts or *)
(* services it matches, a mapping the sequence of its pairs.                 *)
EXTENDS Integers, Sequences, FiniteSets, SequencesExt, TLC

CONSTANTS Absent, Wrong,
          LegalParts,        \* parts of a name the tag key expression accepts
          NormalizedFields,  \* _KNOWN_NORMALIZED_FIELDS
          Globs, LongValues, \* tag values with a metacharacter; not 1..256 long
          Severities,        \* domain.events.Severity
          MaxThreshold       \* MAX_WINDOW_FINGERPRINTS

CatalogCodes ==  \* UNSUPPORTED_FIELD_CATALOG_CODES
  {"unknown_source_field", "unsupported_rule_min_hosts", "unsupported_rule_is_dc_level",
   "invalid_rule_severity", "invalid_rule_priority", "invalid_rule_tags",
   "invalid_rule_matcher", "duplicate_rule_priority", "empty_actions",
   "invalid_action_entry", "unsupported_tag_wildcard", "invalid_topology_tag_key",
   "unsupported_group_by", "unsupported_summary_placeholder", "missing_topology_target_tag",
   "unsupported_hostname_topology", "invalid_topology_section", "invalid_topology_value",
   "missing_subnet_field", "unsupported_plugin_section", "unsupported_plugin_type",
   "unsupported_plugin_class", "plaintext_smtp_credentials", "unsupported_plugin_option",
   "unknown_action_plugin", "invalid_input_path", "invalid_yaml", "invalid_source_document",
   "missing_top_level_wrapper"}

NoKey == <<>>
Given(value) == value \notin {Absent, Wrong}
Or(value, default) == IF Given(value) THEN value ELSE default
Issue(condition, code) == IF condition THEN {code} ELSE {}

TagKey(name) ==
  LET prefixed == IF Len(name) > 1 /\ Head(name) = "topology" THEN name
                  ELSE <<"topology">> \o name
  IN IF name # <<>> /\ ToSet(prefixed) \subseteq LegalParts THEN prefixed ELSE NoKey

Slugs(names) ==  \* a slug, and its number among the equal ones before it
  [i \in DOMAIN names |->
     LET n == Cardinality({j \in 1..(i - 1) : names[j] = names[i]})
     IN IF n = 0 THEN names[i] ELSE Append(names[i], ToString(n))]

----------------------------------------------------------------------------
(* Rules *)

TagIssues(tags) ==
  UNION {Issue(t.key = Wrong, "invalid_topology_tag_key")
         \cup Issue(t.key # Wrong /\ t.value \in {Wrong} \cup Globs, "unsupported_tag_wildcard")
         \cup Issue(t.key # Wrong /\ t.value \notin {Wrong} \cup Globs /\ TagKey(t.key) = NoKey,
                    "invalid_topology_tag_key") : t \in ToSet(tags)}

\* Pairs in the document's order: of two keys with one target, the later wins.
RewrittenTags(tags) ==
  LET Target(i) == TagKey(tags[i].key)
      Kept == {i \in DOMAIN tags : Target(i) # NoKey}
  IN [k \in {Target(i) : i \in Kept} |->
        tags[CHOOSE i \in Kept : Target(i) = k /\ \A j \in Kept : Target(j) = k => j <= i].value]

Unsupported(entry) ==
  \/ entry = Wrong
  \/ /\ entry \notin NormalizedFields
     /\ entry = <<"rule_name">> \/ TagKey(entry) = NoKey
Rewritten(entry) == IF entry \in NormalizedFields THEN entry ELSE TagKey(entry)

GroupByOfNames(entries) ==  \* mutant of GroupByIssues: entries of another type pass
  Issue(\E e \in ToSet(entries) \ {Wrong} : Unsupported(e), "unsupported_group_by")
GroupByIssues(entries) == Issue(\E e \in ToSet(entries) : Unsupported(e), "unsupported_group_by")
RewrittenGroupBy(entries) == [i \in DOMAIN entries |-> Rewritten(entries[i])]

\* A summary is the sequence of its placeholders; Wrong is one no name can be read from.
Unreadable(placeholder) ==
  \/ placeholder = Wrong
  \/ /\ placeholder \notin NormalizedFields
     /\ TagKey(placeholder) = NoKey
SummaryIssues(summary) ==
  Issue(\E p \in ToSet(summary) : Unreadable(p), "unsupported_summary_placeholder")
RewrittenSummary(summary) ==
  [i \in DOMAIN summary |-> IF Unreadable(summary[i]) THEN summary[i] ELSE Rewritten(summary[i])]

MatchIssues(match) ==
  IF match = Wrong THEN {"invalid_rule_severity"}
  ELSE Issue(match.unknown, "unknown_source_field")
       \cup Issue(Or(match.severity, <<>>) = <<>>, "invalid_rule_severity")
       \cup Issue(match.host = Wrong \/ match.service = Wrong, "invalid_rule_matcher")
       \cup Issue(match.tags = Wrong, "invalid_rule_tags")
       \cup TagIssues(Or(match.tags, <<>>))

WindowIssues(window) ==
  IF ~Given(window) THEN {}
  ELSE Issue(window.unknown, "unknown_source_field")
       \cup Issue(window.minHosts, "unsupported_rule_min_hosts")
       \cup GroupByIssues(Or(window.groupBy, <<>>))

RuleIssues(rule) ==
  IF rule = Wrong THEN {"invalid_rule_priority"}
  ELSE Issue(rule.unknown, "unknown_source_field")
       \cup Issue(rule.dcLevel, "unsupported_rule_is_dc_level")
       \cup WindowIssues(rule.window)
       \cup MatchIssues(rule.match)
       \cup Issue(~Given(rule.priority), "invalid_rule_priority")
       \cup SummaryIssues(Or(rule.summary, <<>>))
       \cup Issue(rule.actions \in {Absent, <<>>}, "empty_actions")
       \cup Issue(rule.actions = Wrong \/ Wrong \in ToSet(Or(rule.actions, <<>>)),
                  "invalid_action_entry")

Priorities(rules) ==
  {i \in DOMAIN rules : rules[i] # Wrong /\ Given(rules[i].priority)}
DuplicatePriority(rules) ==
  \E i, j \in Priorities(rules) : i # j /\ rules[i].priority = rules[j].priority

RulesIssues(rules) ==
  IF rules = Wrong THEN {"invalid_rule_severity"}
  ELSE (UNION {RuleIssues(r) : r \in ToSet(rules)})
       \cup Issue(DuplicatePriority(rules), "duplicate_rule_priority")

\* What _transform_rules may raise on, whatever preflight has said (int() takes a
\* priority that is a numeral, and refuses other strings).
RulesRaise(rules) ==
  \E r \in ToSet(rules) \ {Wrong} :
    \/ r.priority = Wrong
    \/ r.match # Wrong /\ Wrong \in {r.match.host, r.match.service, r.match.tags}
    \/ Given(r.window) /\ Wrong \in ToSet(Or(r.window.groupBy, <<>>))

Target(rule, newPriority) ==
  [name |-> IF rule.name = Absent THEN <<"rule", ToString(newPriority)>> ELSE rule.name,
   priority |-> newPriority, severities |-> ToSet(rule.match.severity),
   hosts |-> rule.match.host, services |-> rule.match.service,
   tags |-> RewrittenTags(Or(rule.match.tags, <<>>)),
   groupBy |-> RewrittenGroupBy(IF Given(rule.window) THEN Or(rule.window.groupBy, <<>>) ELSE <<>>),
   threshold |-> IF Given(rule.window) /\ rule.window.threshold # Absent
                 THEN rule.window.threshold ELSE 1,
   summary |-> IF Given(rule.summary) THEN RewrittenSummary(rule.summary) ELSE Absent,
   actions |-> rule.actions]

TransformedUninverted(rules) ==  \* mutant of TransformedRules
  LET sorted == SortSeq(rules, LAMBDA a, b : a.priority < b.priority)
  IN [i \in DOMAIN sorted |-> Target(sorted[i], i)]

\* sorted(.., reverse=True): by falling priority, in the document's order among equals.
Ahead(rules, i) ==
  {j \in DOMAIN rules : \/ rules[j].priority > rules[i].priority
                        \/ rules[j].priority = rules[i].priority /\ j < i}
Ranked(rules, n) == CHOOSE i \in DOMAIN rules : Cardinality(Ahead(rules, i)) + 1 = n

\* The highest Vigilo priority becomes rank 1.
TransformedRules(rules) == [n \in DOMAIN rules |-> Target(rules[Ranked(rules, n)], n)]

RulesLoad(rules) ==
  /\ \A r \in ToSet(rules) :
       /\ Given(r.name) /\ r.severities \subseteq Severities
       /\ r.groupBy # <<>> /\ r.summary # Absent
       /\ r.threshold \in 1..MaxThreshold
       /\ IsInjective(r.actions)
  /\ \A i, j \in DOMAIN rules : rules[i].name = rules[j].name => i = j

----------------------------------------------------------------------------
(* Topology: a regex is "capture", "plain" or "broken". *)

HostnameIssues(entry) ==
  IF entry = Wrong THEN {"unsupported_hostname_topology"}
  ELSE Issue(entry.unknown, "unknown_source_field") \cup
       IF ~Given(entry.regex) THEN {"invalid_topology_value"}
       ELSE LET capture == entry.regex = "capture" tags == Or(entry.tags, <<>>)
            IN Issue(entry.tags = Wrong, "invalid_topology_value")
               \cup Issue(capture /\ entry.target = Absent, "missing_topology_target_tag")
               \cup Issue(~capture /\ tags = <<>>, "unsupported_hostname_topology")
               \cup Issue(capture /\ entry.target = Wrong, "invalid_topology_value")
               \cup Issue(Given(entry.target) /\ TagKey(entry.target) = NoKey,
                          "invalid_topology_tag_key")
               \cup UNION {Issue(t.key = Wrong \/ TagKey(t.key) = NoKey, "invalid_topology_tag_key")
                           \cup Issue(t.key # Wrong /\ t.value \in {Wrong} \cup LongValues,
                                      "invalid_topology_value") : t \in ToSet(tags)}

SubnetIssues(entry) ==
  IF entry = Wrong THEN {"missing_subnet_field"}
  ELSE Issue(entry.unknown, "unknown_source_field")
       \cup Issue(Absent \in {entry.cidr, entry.value, entry.target}, "missing_subnet_field")
       \cup Issue(entry.target = Wrong, "invalid_topology_value")
       \cup Issue(Given(entry.target) /\ TagKey(entry.target) = NoKey, "invalid_topology_tag_key")
       \cup Issue(entry.value \in {Wrong} \cup LongValues, "invalid_topology_value")

TopologyIssues(topology) ==
  IF topology = Wrong THEN {"unsupported_hostname_topology"}
  ELSE Issue(topology.unknown, "unknown_source_field")
       \cup Issue(Wrong \in {topology.hostnames, topology.subnets}, "invalid_topology_section")
       \cup (UNION {HostnameIssues(e) : e \in ToSet(Or(topology.hostnames, <<>>))})
       \cup UNION {SubnetIssues(e) : e \in ToSet(Or(topology.subnets, <<>>))}

TopologyRaises(topology) == topology = Wrong \/ Wrong \in {topology.hostnames, topology.subnets}

HostnameRule(entry, id) ==
  [id |-> id, regex |-> entry.regex, tags |-> RewrittenTags(Or(entry.tags, <<>>)),
   captures |-> IF entry.regex = "capture" /\ Given(entry.target) THEN {TagKey(entry.target)} ELSE {}]
SubnetRule(entry, id) == [id |-> id, cidr |-> entry.cidr, key |-> TagKey(entry.target), value |-> entry.value]

TransformedTopology(topology) ==
  LET hostnames == Or(topology.hostnames, <<>>)  subnets == Or(topology.subnets, <<>>)
      hostIds == Slugs([i \in DOMAIN hostnames |-> hostnames[i].name])
      subnetIds == Slugs([i \in DOMAIN subnets |-> subnets[i].target])
  IN [hostnames |-> [i \in DOMAIN hostnames |-> HostnameRule(hostnames[i], hostIds[i])],
      subnets |-> [i \in DOMAIN subnets |-> SubnetRule(subnets[i], subnetIds[i])]]

\* A network is the set of the addresses in it; Wrong is no CIDR.
TopologyLoads(topology) ==
  /\ \A r \in ToSet(topology.hostnames) : r.regex # "broken"
  /\ \A r \in ToSet(topology.subnets) : r.cidr # Wrong
  /\ \A r, s \in ToSet(topology.subnets) :
       r.cidr \cap s.cidr # {} => <<r.key, r.value>> = <<s.key, s.value>>

----------------------------------------------------------------------------
(* Plugins: an option is "ok", "placeholder" or Wrong. *)

OutputIssues(output) ==
  Issue(output.name = "placeholder", "unsupported_plugin_option") \cup
  IF output.body = Wrong THEN {"unsupported_plugin_class"}
  ELSE Issue(output.body.unknown, "unknown_source_field") \cup
       CASE output.body.module = "other output" -> {"unsupported_plugin_type"}
         [] output.body.module \notin {"email", "other output"} -> {"unsupported_plugin_class"}
         [] output.body.module = "email" /\ output.body.class # "EmailPlugin" -> {"unsupported_plugin_class"}
         [] OTHER ->
              LET config == output.body.config
              IN IF config = Wrong THEN {"unsupported_plugin_option"}
                 ELSE Issue(config.credential, "plaintext_smtp_credentials")
                      \cup Issue(config.unknown \/ config.useTls = Wrong \/ config.host = "placeholder",
                                 "unsupported_plugin_option")

PluginsIssues(plugins) ==
  IF plugins = Wrong THEN {"unsupported_plugin_section"}
  ELSE Issue(plugins.unknown \/ plugins.outputs = Wrong, "unsupported_plugin_section")
       \cup UNION {OutputIssues(o) : o \in ToSet(Or(plugins.outputs, <<>>))}

PluginsRaise(plugins) ==
  \/ plugins = Wrong \/ plugins.outputs = Wrong
  \/ \E o \in ToSet(Or(plugins.outputs, <<>>)) :
       o.body # Wrong /\ (\/ o.name = "placeholder" \/ o.body.config = Wrong
                          \/ o.body.config.useTls = Wrong \/ o.body.config.host = "placeholder")

OutputNames(plugins) ==
  IF plugins = Wrong THEN {}
  ELSE {o.name : o \in {p \in ToSet(Or(plugins.outputs, <<>>)) : p.body # Wrong}}

\* Only the allowed options are carried over; use_tls becomes start_tls, TRUE by default.
TransformedPlugins(plugins) ==
  LET outputs == Or(plugins.outputs, <<>>)
  IN [i \in DOMAIN outputs |->
        [name |-> outputs[i].name, host |-> outputs[i].body.config.host,
         startTls |-> outputs[i].body.config.useTls \in {Absent, TRUE}]]

PluginsLoad(outputs) == \A o \in ToSet(outputs) : o.name # Wrong /\ o.host # Wrong

UnknownActions(rules, plugins) ==
  Issue(rules # Wrong /\ \E r \in ToSet(rules) \ {Wrong} :
          \E a \in ToSet(Or(r.actions, <<>>)) \ {Wrong} : a \notin OutputNames(plugins),
        "unknown_action_plugin")

----------------------------------------------------------------------------
(* One set of documents; "wrapper" is the top-level key that holds the rules *)
(* or the topology: "ok", Absent, "extra" (beside others), or Wrong.         *)

WrapperIssues(wrapper) ==
  Issue(wrapper = Wrong, "invalid_source_document")
  \cup Issue(wrapper = Absent, "missing_top_level_wrapper")
  \cup Issue(wrapper = "extra", "unknown_source_field")

RulesOf(docs) == IF docs.rulesWrapper \in {Absent, Wrong} THEN <<>> ELSE docs.rules
NoTopology == [unknown |-> FALSE, hostnames |-> Absent, subnets |-> Absent]
TopologyOf(docs) == IF docs.topologyWrapper \in {Absent, Wrong} THEN NoTopology ELSE docs.topology

Preflight(docs) ==
  WrapperIssues(docs.rulesWrapper) \cup WrapperIssues(docs.topologyWrapper)
  \cup RulesIssues(RulesOf(docs)) \cup TopologyIssues(TopologyOf(docs))
  \cup PluginsIssues(docs.plugins) \cup UnknownActions(RulesOf(docs), docs.plugins)

TransformRaises(docs) ==
  RulesRaise(docs.rules) \/ TopologyRaises(docs.topology) \/ PluginsRaise(docs.plugins)

StagedLoads(docs) ==
  /\ PluginsLoad(TransformedPlugins(docs.plugins))
  /\ RulesLoad(TransformedRules(docs.rules))
  /\ TopologyLoads(TransformedTopology(docs.topology))

----------------------------------------------------------------------------
(* Which rule decides an event *)

TargetMatches(rule, event) ==
  /\ event.severity \in rule.severities
  /\ rule.hosts # Absent => event.host \in rule.hosts
  /\ rule.services # Absent => event.service \in rule.services
  /\ \A k \in DOMAIN rule.tags : k \in DOMAIN event.tags /\ event.tags[k] = rule.tags[k]

\* RuleEngine.evaluate: the matching rule of the lowest rank.
TargetDecides(rules, event) ==
  LET matching == {r \in ToSet(rules) : TargetMatches(r, event)}
  IN {r.name : r \in {s \in matching : \A o \in matching : o = s \/ s.priority < o.priority}}

\* The meaning of a Vigilo rule that the migration is to keep: highest priority first,
\* and every tag condition of the document holds.
SourceMatches(rule, event) ==
  /\ event.severity \in ToSet(rule.match.severity)
  /\ rule.match.host # Absent => event.host \in rule.match.host
  /\ rule.match.service # Absent => event.service \in rule.match.service
  /\ \A t \in ToSet(Or(rule.match.tags, <<>>)) :
       TagKey(t.key) \in DOMAIN event.tags /\ event.tags[TagKey(t.key)] = t.value
SourceDecides(rules, event) ==
  LET matching == {r \in ToSet(rules) : SourceMatches(r, event)}
  IN {r.name : r \in {s \in matching : \A o \in matching : o = s \/ s.priority > o.priority}}

\* Every rule has a name to compare, and none names one tag twice, with and without prefix.
Comparable(rules) ==
  \A r \in ToSet(rules) :
    /\ r.name # Absent
    /\ \A s, t \in ToSet(Or(r.match.tags, <<>>)) : TagKey(s.key) = TagKey(t.key) => s = t
============================================================================
