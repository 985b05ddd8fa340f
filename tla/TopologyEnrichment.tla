------------------------- MODULE TopologyEnrichment -------------------------
(***************************************************************************)
(* The tags that topology.yaml adds to an event: the check that            *)
(* app/config/topology.py makes of the subnet rules, and the first-match   *)
(* enrichment of app/processing/enrichment.py with its diagnostics.        *)
(*                                                                         *)
(* A tag map is a function from keys to texts.  A hostname rule lists the  *)
(* hosts its pattern matches, and for each captured key the text that the  *)
(* group has in each of them; a subnet is the set of its addresses.        *)
(***************************************************************************)
EXTENDS Integers, Sequences

CONSTANT NoText   \* a group that took no part in the match, or an empty one

NoTags == <<>>
NoTopology == [hostnames |-> <<>>, subnets |-> <<>>]

\* Overlapping subnet rules must assign the same tags.
Loadable(topology) ==
  \A i, j \in DOMAIN topology.subnets :
    topology.subnets[i].net \cap topology.subnets[j].net # {}
      => topology.subnets[i].tags = topology.subnets[j].tags

NoDiagnosis == [added |-> NoTags, overridden |-> {}]

Changes(old, new) ==
  {<<k, old[k], new[k]>> : k \in {l \in DOMAIN old \cap DOMAIN new : old[l] # new[l]}}

\* The groups of the match that are not empty.
Captured(rule, host) ==
  [k \in {l \in DOMAIN rule.captures : rule.captures[l][host] # NoText}
     |-> rule.captures[k][host]]

\* dict.update.
Updated(old, new) ==
  [k \in DOMAIN old \cup DOMAIN new |-> IF k \in DOMAIN new THEN new[k] ELSE old[k]]

\* MUTANT: a captured text that replaces a literal tag of the same rule is
\* reported as an override only.
ApplyStale(tags, literal, captured) ==
  LET first == Updated(tags, literal)
  IN [tags |-> Updated(first, captured),
      diagnosis |->
        [added |-> [k \in (DOMAIN literal \cup DOMAIN captured) \ DOMAIN tags
                      |-> Updated(captured, literal)[k]],
         overridden |-> Changes(tags, literal) \cup Changes(first, captured)]]

\* Literal tags first, captured ones over them; a key that the rule itself has
\* added keeps its last text in tags_added.
Apply(tags, literal, captured) ==
  LET first == Updated(tags, literal)
  IN [tags |-> Updated(first, captured),
      diagnosis |->
        [added |-> [k \in (DOMAIN literal \cup DOMAIN captured) \ DOMAIN tags
                      |-> Updated(literal, captured)[k]],
         overridden |-> Changes(tags, literal) \cup Changes(first, captured)]]

First(places) == CHOOSE i \in places : \A j \in places : i <= j

\* The first hostname rule that matches; without one, the first subnet that
\* contains the address.
Enrich(topology, host, address, tags) ==
  LET named == {i \in DOMAIN topology.hostnames : host \in topology.hostnames[i].hosts}
      near  == {i \in DOMAIN topology.subnets : address \in topology.subnets[i].net}
  IN IF named # {}
     THEN LET rule == topology.hostnames[First(named)]
          IN Apply(tags, rule.tags, Captured(rule, host))
     ELSE IF near # {}
     THEN Apply(tags, topology.subnets[First(near)].tags, NoTags)
     ELSE [tags |-> tags, diagnosis |-> NoDiagnosis]

\* What a reader of the diagnostics believes: the tags added are new and final,
\* a tag that differs was overridden on its way from the old text to the new
\* one, and nothing else has changed.
Explains(diagnosis, old, new) ==
  /\ DOMAIN diagnosis.added = DOMAIN new \ DOMAIN old
  /\ \A k \in DOMAIN diagnosis.added : new[k] = diagnosis.added[k]
  /\ DOMAIN old \subseteq DOMAIN new
  /\ \A k \in DOMAIN old : old[k] # new[k] =>
       /\ \E o \in diagnosis.overridden : o[1] = k /\ o[2] = old[k]
       /\ \E o \in diagnosis.overridden : o[1] = k /\ o[3] = new[k]
==============================================================================
