------------------------------ MODULE Admission ------------------------------
(***************************************************************************)
(* One webhook request from its first byte to its answer: the receive loop *)
(* of RequestSizeLimiterMiddleware, the refusals in front of the route,    *)
(* the Icinga2InputPlugin, and Icinga2DecisionProcessor.process_payload    *)
(* with enrichment, rule evaluation and the audit row.                     *)
(*                                                                         *)
(* IncidentStore models the transaction in full and NotificationPipeline   *)
(* what follows its commit; here either one succeeds or raises.  lifespan  *)
(* gives every processor a sessionmaker, so its absence is left out.       *)
(***************************************************************************)
EXTENDS TopologyEnrichment, AuditCopy

CONSTANTS
  Limits,        \* body limits a route class may have; 0 and less: none
  Lengths,       \* Content-Length headers: naturals, or one of the next two
  NoLength, Garbled,
  Nothing,       \* no body, payload or decision yet
  Chunks,        \* chunk sizes
  MaxSent,       \* bound on the bytes a client sends
  Payloads,      \* what the body may say
  Topologies,    \* topology files
  RuleFiles,     \* rule files: sequences of rules in file order
  MaxTags,       \* EVENT_TAG_MAX_ENTRIES
  MaxTagBytes,   \* EVENT_TAG_MAX_BYTES
  MaxMessage,    \* encoded length of a message of 4096 characters
  MaxMatch       \* encoded length of a text of 256 characters

ASSUME AdmissionAssumption ==
  /\ Limits \subseteq Int
  /\ Lengths \subseteq Nat \cup {NoLength, Garbled} /\ {NoLength, Garbled} \cap Nat = {}
  /\ Chunks \subseteq Nat /\ MaxSent \in Nat
  /\ {MaxTags, MaxTagBytes, MaxMessage, MaxMatch} \subseteq Nat

ASSUME TextsAssumption ==
  /\ \A p \in Payloads : {p.message, p.host, p.source} \subseteq Whole /\ p.tags \in TagMaps
  /\ \A t \in Topologies :
       /\ \A i \in DOMAIN t.hostnames : LET rule == t.hostnames[i] IN
            /\ rule.tags \in TagMaps /\ DOMAIN rule.captures \subseteq ToSet(TagOrder)
            /\ \A k \in DOMAIN rule.captures, h \in rule.hosts :
                 rule.captures[k][h] \in Whole \cup {NoText}
       /\ \A i \in DOMAIN t.subnets : t.subnets[i].tags \in TagMaps
       /\ t.hostnames \in Seq(ToSet(t.hostnames)) /\ t.subnets \in Seq(ToSet(t.subnets))

VARIABLES
  limit,       \* the limit of the ingress route class
  topology,    \* what the enricher of this process was built from
  rules,       \* what its rule engine was built from
  at,          \* how far the request has come
  sent, ended, \* bytes the client has sent, and whether they were all
  buffered,    \* bytes the size limiter has collected
  handed,      \* the body it has handed on
  payload,     \* the validated webhook
  counted,     \* record_event_accepted
  tags,        \* event.tags
  diagnosis,   \* enrichment diagnostics
  decision,    \* rule decision
  drafts,      \* audit rows of the open transaction
  rows,        \* audit rows committed
  audited,     \* record_audit_write
  answer

requestVars == <<limit, topology, rules, at, sent, ended, buffered, handed, payload,
          counted, tags, diagnosis, decision, drafts, rows, audited, answer>>
config == <<limit, topology, rules>>
body   == <<sent, ended, buffered, handed>>
event  == <<payload, counted, tags, diagnosis, decision>>
store  == <<drafts, rows, audited>>

RequestInit ==
  /\ limit \in Limits
  /\ topology \in {t \in Topologies : Loadable(t)}
  /\ rules \in RuleFiles
  /\ at = "arrived"
  /\ sent = 0 /\ ended = FALSE /\ buffered = 0 /\ handed = Nothing
  /\ payload = Nothing /\ counted = FALSE
  /\ tags = NoTags /\ diagnosis = NoDiagnosis /\ decision = Nothing
  /\ drafts = {} /\ rows = {} /\ audited = "none"
  /\ answer = "none"

Answered(kind) == at' = "answered" /\ answer' = kind

------------------------------------------------------------------------------
\* RequestSizeLimiterMiddleware.__call__.

Oversized(bytes) == limit > 0 /\ bytes > limit

Announced(length) == IF length = Garbled THEN 0 ELSE length

Arrive(length) ==
  /\ at = "arrived"
  /\ IF length # NoLength /\ Oversized(Announced(length))
     THEN Answered("413")
     ELSE at' = "reading" /\ UNCHANGED answer
  /\ UNCHANGED <<config, body, event, store>>

Receive(size, more) ==
  /\ at = "reading"
  /\ sent + size <= MaxSent
  /\ sent' = sent + size
  /\ ended' = ~more
  /\ IF Oversized(sent')
     THEN Answered("413") /\ UNCHANGED <<buffered, handed>>
     ELSE /\ buffered' = buffered + size
          /\ IF more THEN UNCHANGED <<at, handed>>
                     ELSE at' = "whole" /\ handed' = buffered'
          /\ UNCHANGED answer
  /\ UNCHANGED <<config, event, store>>

\* MUTANT: any other message ends the loop, and what has come is handed on.
DisconnectEndsBody ==
  /\ at = "reading"
  /\ at' = "whole"
  /\ handed' = buffered
  /\ UNCHANGED <<config, sent, ended, buffered, event, store, answer>>

\* http.disconnect: nobody is left to answer.
Disconnect ==
  /\ at = "reading"
  /\ at' = "dropped"
  /\ UNCHANGED <<config, body, event, store, answer>>

------------------------------------------------------------------------------
\* In front of the route: the rate limiter, a body that is no JSON, the token.

TurnAway(kind) ==
  /\ at = "whole"
  /\ kind \in {"429", "422", "401"}
  /\ Answered(kind)
  /\ UNCHANGED <<config, body, event, store>>

HostStates ==
  [UP          |-> [severity |-> "OK",       type |-> "RECOVERY"],
   DOWN        |-> [severity |-> "CRITICAL", type |-> "PROBLEM"],
   UNREACHABLE |-> [severity |-> "UNKNOWN",  type |-> "PROBLEM"]]

ServiceStates ==
  [OK       |-> [severity |-> "OK",       type |-> "RECOVERY"],
   WARNING  |-> [severity |-> "WARNING",  type |-> "PROBLEM"],
   CRITICAL |-> [severity |-> "CRITICAL", type |-> "PROBLEM"],
   UNKNOWN  |-> [severity |-> "UNKNOWN",  type |-> "PROBLEM"]]

States(p) == IF p.service THEN ServiceStates ELSE HostStates

\* validate_event_tags: the entries and the bytes of the whole map.
Admissible(map) ==
  Cardinality(DOMAIN map) <= MaxTags /\ TagBytes(map) <= MaxTagBytes

\* Icinga2WebhookPayload.
Read(p) ==
  /\ at = "whole"
  /\ IF p.state \in DOMAIN States(p) /\ Admissible(p.tags)
     THEN at' = "handler" /\ payload' = p /\ UNCHANGED answer
     ELSE Answered("422") /\ UNCHANGED payload
  /\ UNCHANGED <<config, body, counted, tags, diagnosis, decision, store>>

------------------------------------------------------------------------------
\* process_payload.

Mapped == States(payload)[payload.state]

\* SOFT states are non-actionable.
Reject ==
  /\ at = "handler"
  /\ payload.stateType = "SOFT"
  /\ Answered("rejected")
  /\ UNCHANGED <<config, body, event, store>>

\* NormalizedEvent refuses a message that the payload may have.
Overlong == Bytes[payload.message] > MaxMessage

\* An exception of any step that wrote nothing.
Fails == Answered("500") /\ UNCHANGED <<config, body, event, store>>

NormalizationFails == at = "handler" /\ payload.stateType = "HARD" /\ Overlong /\ Fails

Accept ==
  /\ at = "handler"
  /\ payload.stateType = "HARD"
  /\ ~Overlong
  /\ counted' = TRUE
  /\ tags' = payload.tags
  /\ at' = "accepted"
  /\ UNCHANGED <<config, body, payload, diagnosis, decision, store, answer>>

EnrichEvent ==
  /\ at = "accepted"
  /\ LET enriched == Enrich(topology, payload.host, payload.address, tags)
     IN tags' = enriched.tags /\ diagnosis' = enriched.diagnosis
  /\ at' = "enriched"
  /\ UNCHANGED <<config, body, payload, counted, decision, store, answer>>

\* EventTagValidationError: enrichment has made an admissible map inadmissible.
RefuseTags ==
  /\ at = "enriched"
  /\ ~Admissible(tags)
  /\ Answered("422")
  /\ UNCHANGED <<config, body, event, store>>

Matches(rule) ==
  /\ Mapped.severity \in rule.severities
  /\ payload.host \in rule.hosts
  /\ rule.service => payload.service
  /\ \A k \in DOMAIN rule.tags : k \in DOMAIN tags /\ tags[k] = rule.tags[k]

\* The rule that decides: the least priority, the first in the file among equals.
Deciding ==
  {i \in DOMAIN rules :
     /\ Matches(rules[i])
     /\ \A j \in DOMAIN rules : Matches(rules[j]) =>
          \/ rules[i].priority < rules[j].priority
          \/ rules[i].priority = rules[j].priority /\ i <= j}

Grouped(rule) == rule.groupBy \in {"host", "message"} \cup DOMAIN tags

GroupValue(rule) ==
  CASE rule.groupBy = "host" -> payload.host
    [] rule.groupBy = "message" -> payload.message
    [] OTHER -> tags[rule.groupBy]

\* RuleMatch refuses a group key or a summary of more than 256 characters.
Unwieldy(rule) ==
  \/ KeyBytes[rule.groupBy] + Bytes[GroupValue(rule)] > MaxMatch
  \/ rule.quotesMessage /\ Bytes[payload.message] > MaxMatch

Decides(outcome) ==
  /\ at' = "decided"
  /\ decision' = outcome
  /\ UNCHANGED <<config, body, payload, counted, tags, diagnosis, store, answer>>

\* RuleEngine.evaluate.
Evaluate ==
  /\ at = "enriched"
  /\ Admissible(tags)
  /\ \/ Mapped.type = "RECOVERY" /\ Decides("recovery")
     \/ Mapped.type = "PROBLEM" /\ Deciding = {} /\ Decides("no matching rule")
     \/ /\ Mapped.type = "PROBLEM"
        /\ \E i \in Deciding :
             \/ ~Grouped(rules[i]) /\ Decides("missing group-by field")
             \/ Grouped(rules[i]) /\ Unwieldy(rules[i]) /\ Fails
             \/ Grouped(rules[i]) /\ ~Unwieldy(rules[i]) /\ Decides(rules[i].name)

Document ==
  [check_output |-> payload.message, host |-> payload.host,
   source_id |-> payload.source, tags |-> payload.tags]

\* MUTANT: the row describes the event as it came in.
WriteAsReceived ==
  /\ at = "decided"
  /\ drafts' = {[tags |-> payload.tags, message |-> payload.message,
                 decision |-> decision, copy |-> StoredCopy(Document)]}
  /\ at' = "written"
  /\ UNCHANGED <<config, body, event, rows, audited, answer>>

\* The incident's changes, then the audit row, in one transaction.
Write ==
  /\ at = "decided"
  /\ drafts' = {[tags |-> tags, message |-> payload.message,
                 decision |-> decision, copy |-> StoredCopy(Document)]}
  /\ at' = "written"
  /\ UNCHANGED <<config, body, event, rows, audited, answer>>

\* The incident's changes raise, or the INSERT of the audit row does.
WriteFails ==
  /\ at = "decided"
  /\ \/ audited' = "failure"
     \/ decision \notin {"no matching rule", "missing group-by field"} /\ UNCHANGED audited
  /\ Answered("500")
  /\ UNCHANGED <<config, body, event, drafts, rows>>

Commit ==
  /\ at = "written"
  /\ rows' = drafts
  /\ audited' = "success"
  /\ at' = "committed"
  /\ UNCHANGED <<config, body, event, drafts, answer>>

\* COMMIT raises; the server may have applied it.
CommitFails ==
  /\ at = "written"
  /\ \/ rows' = drafts
     \/ UNCHANGED rows
  /\ audited' = "failure"
  /\ Answered("500")
  /\ UNCHANGED <<config, body, event, drafts>>

Respond ==
  /\ at = "committed"
  /\ Answered("accepted")
  /\ UNCHANGED <<config, body, event, store>>

\* The terminal record of a notification that was not submitted cannot be
\* written: the request fails after its commit.
SubmissionFails ==
  /\ at = "committed"
  /\ decision \in {rules[i].name : i \in DOMAIN rules}
  /\ Fails

Middleware == \/ \E length \in Lengths : Arrive(length)
              \/ \E size \in Chunks, more \in BOOLEAN : Receive(size, more)
              \/ Disconnect
Refusals   == \E kind \in {"429", "422", "401"} : TurnAway(kind)
Route      == \E p \in Payloads : Read(p)
Processor  == \/ Reject \/ NormalizationFails \/ Accept \/ EnrichEvent \/ RefuseTags
              \/ Evaluate \/ Write \/ WriteFails \/ Commit \/ CommitFails
              \/ Respond \/ SubmissionFails

RequestNext == Middleware \/ Refusals \/ Route \/ Processor

RequestSpec == RequestInit /\ [][RequestNext]_requestVars

------------------------------------------------------------------------------
\* The application never sees a part of a body: what the size limiter hands on
\* is everything the client has sent, the client has finished, and it is within
\* the limit, whether or not the request had a Content-Length.
BodyIsWhole ==
  handed # Nothing => ended /\ handed = sent /\ (limit > 0 => handed <= limit)

\* AUD-02: an event that is answered as accepted has its audit row, with the
\* tags and the decision that the answer reports, and the metric says success
\* only then; a request that is refused or rejected has left no row.
AcceptedIsAudited ==
  /\ answer = "accepted" \/ audited = "success" =>
       \E row \in rows : row.tags = tags /\ row.decision = decision
  /\ answer \in {"413", "429", "422", "401", "rejected"} => rows = {}
  /\ rows # {} => counted

\* The diagnostics in the answer account for every difference between the tags
\* that Icinga sent and the tags the rules saw.
DiagnosticsExplainTags ==
  at \in {"enriched", "decided", "written", "committed"} \/ answer = "accepted" =>
    Explains(diagnosis, payload.tags, tags)

\* AUD-02, D-05: neither the stored copy of the payload nor what the audit list
\* shows of the row holds a secret, or the part of one that a cut has left.
NoSecretKept ==
  \A row \in rows :
    /\ CopyIsSafe(row.copy)
    /\ ShownMessage(row.message) \notin Leaks
    /\ TagsAreSafe(ShownTags(row.tags))

\* D-06: copy and projection keep within their bounds, keep as much as the
\* bounds allow, and own up to what they leave out.
CopiesFit ==
  \A row \in rows :
    /\ CopyFits(row.copy, Document)
    /\ TagsFit(ShownTags(row.tags), row.tags)
==============================================================================
