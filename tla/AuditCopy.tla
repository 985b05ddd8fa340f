------------------------------ MODULE AuditCopy ------------------------------
(***************************************************************************)
(* What app/persistence/audit.py keeps of an accepted payload and shows of *)
(* an audit row: the recursive redaction, the cap that omits whole         *)
(* top-level fields with its running tally of canonical JSON bytes, and    *)
(* the bounded projections of message and tags.                            *)
(*                                                                         *)
(* A text is a member of Texts with its encoded length, quotes included.   *)
(* The fields of a webhook that hold no free text are left out; of those   *)
(* that do only the tags are nested, and only tag keys can be sensitive.   *)
(***************************************************************************)
EXTENDS Integers, FiniteSets, SequencesExt

CONSTANTS
  TagOrder,       \* the tag keys in lexical order
  SensitiveKeys,  \* tag keys that contain a sensitive fragment
  Texts,
  Bytes,          \* encoded length of each text
  Secrets,        \* texts in which a sensitive fragment is found
  Leaks,          \* texts that hold a secret or a part of one
  Placeholder,    \* "[redacted]"
  Cut,            \* each text shortened to 512 characters
  KeyBytes,       \* encoded length of each key, with its separator
  MaxStored,      \* audit_raw_payload_max_bytes
  MaxShown,       \* AUDIT_TAG_MAX_ENTRIES
  MaxShownBytes   \* AUDIT_TAG_MAX_BYTES

\* The fields of Icinga2WebhookPayload that may hold any text, in the order of
\* their names.
Fields == <<"check_output", "host", "source_id", "tags">>

ASSUME CopyAssumption ==
  /\ TagOrder \in Seq(ToSet(TagOrder)) /\ IsInjective(TagOrder)
  /\ SensitiveKeys \subseteq ToSet(TagOrder)
  /\ Bytes \in [Texts -> Nat] /\ Cut \in [Texts -> Texts]
  /\ Secrets \subseteq Leaks /\ Leaks \subseteq Texts
  /\ Placeholder \in Texts \ Leaks /\ \A t \in Texts \ Leaks : Cut[t] \notin Leaks
  /\ \A k \in ToSet(TagOrder) \cup ToSet(Fields) : KeyBytes[k] \in Nat
  /\ MaxStored \in Nat /\ MaxStored >= 2
  /\ MaxShown \in Nat /\ MaxShownBytes \in Nat /\ MaxShownBytes >= 2

\* Texts as they come in: only a cut leaves a part of a secret.
Whole == Texts \ (Leaks \ Secrets)

\* What ingress and the topology file make tags of.
TagMaps == UNION {[K -> Whole] : K \in SUBSET ToSet(TagOrder)}

\* canonical_json_bytes of an object with values of these lengths, name by name: braces,
\* and a comma after every pair but the last.
ObjectBytes(names, sizes) ==
  LET upTo[n \in 0..Len(names)] ==
        IF n = 0 THEN 0
        ELSE upTo[n - 1] + IF names[n] \in DOMAIN sizes
                           THEN KeyBytes[names[n]] + sizes[names[n]] + 1 ELSE 0
  IN 2 + upTo[Len(names)] - (IF DOMAIN sizes = {} THEN 0 ELSE 1)

TagBytes(tags) == ObjectBytes(TagOrder, [k \in DOMAIN tags |-> Bytes[tags[k]]])

FieldBytes(doc) ==
  [f \in DOMAIN doc |-> IF f = "tags" THEN TagBytes(doc[f]) ELSE Bytes[doc[f]]]

RedactedText(text) == IF text \in Secrets THEN Placeholder ELSE text

RedactedTags(tags) ==
  [k \in DOMAIN tags |->
     IF k \in SensitiveKeys THEN Placeholder ELSE RedactedText(tags[k])]

Redacted(doc) ==
  [f \in DOMAIN doc |->
     IF f = "tags" THEN RedactedTags(doc[f]) ELSE RedactedText(doc[f])]

RedactedLeaves(doc) ==
    Cardinality({f \in DOMAIN doc \ {"tags"} : doc[f] \in Secrets})
  + Cardinality({k \in DOMAIN doc["tags"] :
                   k \in SensitiveKeys \/ doc["tags"][k] \in Secrets})

Place(f) == CHOOSE i \in DOMAIN Fields : Fields[i] = f
Larger(sizes, f, g) ==
  LET weight(h) == KeyBytes[h] + sizes[h]
  IN \/ weight(f) > weight(g)
     \/ weight(f) = weight(g) /\ Place(f) < Place(g)

\* The largest field goes first, the first name among equals.
Largest(sizes, kept) == CHOOSE f \in kept : \A g \in kept \ {f} : Larger(sizes, f, g)

\* MUTANT: the comma that goes with an omitted field is forgotten.
DroppedWithoutComma(sizes, cap, before) ==
  IF before.bytes <= cap THEN before
  ELSE LET f == Largest(sizes, before.kept)
       IN [kept |-> before.kept \ {f}, bytes |-> before.bytes - (KeyBytes[f] + sizes[f])]

\* One pass of the loop below: a field takes a comma with it unless it was the only one.
Dropped(sizes, cap, before) ==
  IF before.bytes <= cap THEN before
  ELSE LET f == Largest(sizes, before.kept)
       IN [kept  |-> before.kept \ {f},
           bytes |-> before.bytes - (KeyBytes[f] + sizes[f])
                       - (IF Cardinality(before.kept) > 1 THEN 1 ELSE 0)]

DocBytes(doc) == ObjectBytes(Fields, FieldBytes(doc))

\* _semantic_cap_payload, with stored_byte_length as its running tally.
Capped(doc, cap) ==
  LET loop[n \in 0..Len(Fields)] ==
        IF n = 0 THEN [kept |-> DOMAIN doc, bytes |-> DocBytes(doc)]
        ELSE Dropped(FieldBytes(doc), cap, loop[n - 1])
  IN Restrict(doc, loop[Len(Fields)].kept)

\* Redaction may make a payload longer, and the table refuses a copy that is
\* longer than its original.
EffectiveCap(doc) == IF MaxStored < DocBytes(doc) THEN MaxStored ELSE DocBytes(doc)

\* redact_payload.
StoredCopy(doc) ==
  LET kept == Capped(Redacted(doc), EffectiveCap(doc))
  IN [doc        |-> kept,
      original   |-> DocBytes(doc),
      stored     |-> DocBytes(kept),
      truncated  |-> DOMAIN kept # DOMAIN doc,
      redactions |-> RedactedLeaves(doc)]

\* MUTANT: the message is cut before it is searched.
ShownAfterCut(message) == RedactedText(Cut[message])

ShownMessage(message) == Cut[RedactedText(message)]

\* One key of the loop below; a pair that does not fit does not stop it.
Shown(tags, before, k) ==
  LET bytes == before.bytes + KeyBytes[k] + Bytes[RedactedText(tags[k])]
                 + (IF before.keys = {} THEN 0 ELSE 1)
  IN IF /\ k \in DOMAIN tags \ SensitiveKeys
        /\ Cardinality(before.keys) < MaxShown
        /\ bytes <= MaxShownBytes
     THEN [keys |-> before.keys \cup {k}, bytes |-> bytes] ELSE before

\* _project_normalized_event_tags, key by key in lexical order, over the tags
\* of a row that ingress has validated.
ShownTags(tags) ==
  LET loop[n \in 0..Len(TagOrder)] ==
        IF n = 0 THEN [keys |-> {}, bytes |-> 2] ELSE Shown(tags, loop[n - 1], TagOrder[n])
      shown == loop[Len(TagOrder)].keys
  IN [tags    |-> [k \in shown |-> RedactedText(tags[k])],
      reasons |-> (IF DOMAIN tags \cap SensitiveKeys # {} THEN {"sensitive_key"} ELSE {})
                    \cup (IF shown # DOMAIN tags \ SensitiveKeys THEN {"size_limit"} ELSE {})]

------------------------------------------------------------------------------
\* Predicates over a stored copy and the tags shown of a row.

CopyIsSafe(copy) ==
  \A f \in DOMAIN copy.doc :
    IF f = "tags"
    THEN \A k \in DOMAIN copy.doc[f] :
           copy.doc[f][k] \notin Leaks
             /\ (k \in SensitiveKeys => copy.doc[f][k] = Placeholder)
    ELSE copy.doc[f] \notin Leaks

TagsAreSafe(shown) ==
  \A k \in DOMAIN shown.tags : k \notin SensitiveKeys /\ shown.tags[k] \notin Leaks

\* The copy respects both bounds, and putting back any omitted field would not.
CopyFits(copy, doc) ==
  /\ copy.stored <= MaxStored /\ copy.stored <= copy.original
  /\ \A f \in DOMAIN doc \ DOMAIN copy.doc :
       DocBytes(Restrict(Redacted(doc), DOMAIN copy.doc \cup {f})) > EffectiveCap(doc)
  /\ copy.redactions = 0 /\ ~copy.truncated => copy.doc = doc

\* So do the tags shown, and the row says so when some are missing.
TagsFit(shown, tags) ==
  /\ TagBytes(shown.tags) <= MaxShownBytes /\ Cardinality(DOMAIN shown.tags) <= MaxShown
  /\ \A k \in DOMAIN tags \ (DOMAIN shown.tags \cup SensitiveKeys) :
       \/ Cardinality(DOMAIN shown.tags) = MaxShown
       \/ TagBytes([l \in DOMAIN shown.tags \cup {k} |-> RedactedText(tags[l])]) > MaxShownBytes
  /\ shown.reasons = {} <=> DOMAIN shown.tags = DOMAIN tags
==============================================================================
