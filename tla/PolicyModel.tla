---------------------------- MODULE PolicyModel ----------------------------
(***************************************************************************)
(* The policy document and the model the visual builder edits              *)
(* (lib/policy/model.ts).  A document is a JSON object: a function from    *)
(* its keys to what they hold, keys we do not know among them.  A named    *)
(* section (groups, hosts, ...) is an object from names to values, a rule  *)
(* section a sequence of rules, each an object from its fields to lists of *)
(* entries.  Layout, comments and the order of keys are left out, and      *)
(* every known section holds what its type says.                           *)
(***************************************************************************)
EXTENDS Naturals, Sequences, FiniteSets, SequencesExt

CONSTANT Null   \* JavaScript's "no value"

Nameless == ""

NamedSections == {"groups", "tagOwners", "hosts"}
RuleSections == {"acls", "ssh", "nodeAttrs", "grants"}
Sections == NamedSections \cup RuleSections \cup {"routes", "exitNode"}

\* A rule's field that is always written, and the ones that may be absent.
Required(s) == [acls |-> {"action", "src", "dst"},
                ssh |-> {"action", "src", "dst", "users"},
                nodeAttrs |-> {"target"},
                grants |-> {"src", "dst"}][s]
Optional(s) == [acls |-> {}, ssh |-> {},
                nodeAttrs |-> {"attr", "app"},
                grants |-> {"ip", "via", "app"}][s]
Known(s) == Required(s) \cup Optional(s)

NoObject == << >>                                \* {} of JSON
Get(object, key, default) == IF key \in DOMAIN object THEN object[key] ELSE default

\* What JSON.parse yields: objects have finitely many keys and arrays are lists.
IsList(x) == x \in Seq(Range(x))
IsDocument(document) ==
  LET routes == Get(Get(document, "autoApprovers", NoObject), "routes", NoObject)
  IN /\ \A s \in NamedSections : IsFiniteSet(DOMAIN Get(document, s, NoObject))
     /\ IsFiniteSet(DOMAIN routes)
     /\ \A s \in RuleSections :
          LET rules == Get(document, s, << >>)
          IN /\ IsList(rules)
             /\ \A i \in DOMAIN rules : "app" \in Known(s) => IsList(Get(rules[i], "app", << >>))

(***************************************************************************)
(* parsePolicy.                                                            *)
(***************************************************************************)
ParseNamed(object) ==
  LET names == SetToSeq(DOMAIN object)
  IN [i \in DOMAIN names |-> [name |-> names[i], values |-> object[names[i]]]]

\* A rule keeps the object it was parsed from.
ParseRule(s, rule) ==
  [known |-> [f \in Known(s) |-> Get(rule, f, IF f = "action" THEN <<"accept">> ELSE << >>)],
   raw |-> rule]

ParseRules(s, rules) == [i \in DOMAIN rules |-> ParseRule(s, rules[i])]

Parse(document) ==
  LET auto == Get(document, "autoApprovers", NoObject)
  IN [s \in Sections |->
        CASE s \in NamedSections -> ParseNamed(Get(document, s, NoObject))
          [] s \in RuleSections -> ParseRules(s, Get(document, s, << >>))
          [] s = "routes" -> ParseNamed(Get(auto, s, NoObject))
          [] s = "exitNode" -> Get(auto, s, << >>)]

\* A text is blank (Headscale has no policy yet), broken (not a JSON object) or
\* says a document.  parsePolicy of a broken one yields the empty model.
Text(kind, document) == [kind |-> kind, document |-> document]
Blank == Text("blank", NoObject)
Broken == Text("broken", NoObject)
TextOf(document) == Text("policy", document)
IsPolicy(text) == text.kind # "broken"
DocumentOf(text) == text.document

(***************************************************************************)
(* serializePolicy.                                                        *)
(***************************************************************************)
Names(rows) == {rows[i].name : i \in DOMAIN rows} \ {Nameless}
LastOf(rows, name) == CHOOSE i \in DOMAIN rows :
                      /\ rows[i].name = name
                      /\ \A j \in DOMAIN rows : rows[j].name = name => j <= i

\* Nameless rows are skipped and the later of two rows of one name wins.
BuildNamed(rows) == [n \in Names(rows) |-> rows[LastOf(rows, n)].values]

\* The known fields over the raw rule; an optional field is written when it
\* has content or was there before, except that an emptied app is dropped.
SerializeRule(s, row) ==
  LET written == {f \in Optional(s) : \/ row.known[f] # << >>
                                      \/ f # "app" /\ f \in DOMAIN row.raw}
      passed == DOMAIN row.raw \ Known(s)
  IN [f \in Required(s) \cup written \cup passed |->
        IF f \in passed THEN row.raw[f] ELSE row.known[f]]

SerializeRules(s, rows) == [i \in DOMAIN rows |-> SerializeRule(s, rows[i])]

\* emit: a section is written when it has content or its key was there.
Emit(object, key, built, isEmpty) ==
  IF ~isEmpty \/ key \in DOMAIN object
  THEN [k \in DOMAIN object \cup {key} |-> IF k = key THEN built ELSE object[k]]
  ELSE object

Serialize(model, root) ==
  LET section(s) == IF s \in NamedSections THEN BuildNamed(model[s])
                    ELSE SerializeRules(s, model[s])
      has(s) == \/ s \in DOMAIN root
                \/ s \in NamedSections /\ Names(model[s]) # {}
                \/ s \in RuleSections /\ model[s] # << >>
      raw == Get(root, "autoApprovers", NoObject)
      routes == Emit(raw, "routes", BuildNamed(model.routes), Names(model.routes) = {})
      auto == Emit(routes, "exitNode", model.exitNode, model.exitNode = << >>)
      rest == [k \in DOMAIN root \cup {s \in NamedSections \cup RuleSections : has(s)} |->
                 IF k \in NamedSections \cup RuleSections THEN section(k) ELSE root[k]]
  IN Emit(rest, "autoApprovers", auto, DOMAIN auto = {})
=============================================================================
