---------------------------- MODULE PolicyEditor ----------------------------
(***************************************************************************)
(* The policy workbench of the Access page (policy-workbench.tsx): one     *)
(* text behind two views, the builder and the raw editor, with the page's  *)
(* baseline, a save under way, revisions being fetched and the Test tab,   *)
(* against Headscale and the others who change its policy.                 *)
(***************************************************************************)
EXTENDS PolicyModel

CONSTANTS Session     \* what an operator may type, and who else writes what

\* The texts a page may meet are JSON, and the builder edits a section by its fields.
ASSUME SessionAssumption ==
  \A s \in Session :
    /\ \A text \in s.documents \cup s.typed \cup s.stored \cup s.others :
         IsDocument(DocumentOf(text))
    /\ DOMAIN s.names \subseteq NamedSections \cup {"routes"}
    /\ DOMAIN s.fields \subseteq RuleSections
    /\ \A r \in DOMAIN s.fields : \A f \in DOMAIN s.fields[r] :
         \A entries \in s.fields[r][f] : IsList(entries)

VARIABLES
  session,
  policy,               \* Headscale's text
  initialDocument,    \* what the page was last rendered with
  value, savedValue, tab, model, root, parseError,
  pending,            \* the save under way: its text and how far it is
  loading,            \* revisions being fetched into the editor
  test,               \* the question of the Test tab, with the texts it was put to
  wasLive             \* a history: the texts Headscale has had while the page was open

workbench == <<value, savedValue, tab, model, root, parseError, pending, loading, test>>
editorVars == <<session, policy, initialDocument, workbench, wasLive>>

Tab == {"visual", "json", "review", "test", "history"}
NoSave == [text |-> Null, at |-> "idle"]

\* Headscale takes a text; session.maxLive bounds how many it has had.
Live(text) ==
  /\ policy' = text
  /\ wasLive' = wasLive \cup {text}
  /\ Cardinality(wasLive') <= session.maxLive

-----------------------------------------------------------------------------
(* The two views *)

\* A mutant: the builder keeps the rows it had.
Show_KeepsModel(text) ==
  /\ parseError' = ~IsPolicy(text)
  /\ UNCHANGED <<model, root>>

\* Set the builder from a text.
Show(text) ==
  /\ model' = Parse(DocumentOf(text))
  /\ root' = DocumentOf(text)
  /\ parseError' = ~IsPolicy(text)

\* The Test tab forgets its answer when it is left.
Leave(next) == test' = IF next = "test" THEN test ELSE Null

SelectTab(next) ==
  /\ next # tab
  /\ tab' = next
  /\ IF next = "visual" THEN Show(value) ELSE UNCHANGED <<model, root, parseError>>
  /\ Leave(next)
  /\ UNCHANGED <<session, policy, initialDocument, value, savedValue, pending, loading, wasLive>>

OnJsonChange(next) ==
  /\ tab = "json"
  /\ next # value
  /\ value' = next
  /\ UNCHANGED <<session, policy, initialDocument, savedValue, tab, model, root, parseError,
                 pending, loading, test, wasLive>>

OnModelChange(next) ==
  /\ tab = "visual" /\ ~parseError
  /\ model' = next
  /\ value' = TextOf(Serialize(next, root))
  /\ UNCHANGED <<session, policy, initialDocument, savedValue, tab, root, parseError,
                 pending, loading, test, wasLive>>

-----------------------------------------------------------------------------
(* visual-editor.tsx: a fresh model with one section replaced *)

Named == DOMAIN session.names
Ruled == DOMAIN session.fields

NewName(s) == [groups |-> "group:", tagOwners |-> "tag:", hosts |-> Nameless, routes |-> Nameless][s]
NewRow(s) == [name |-> NewName(s), values |-> IF s = "hosts" THEN Nameless ELSE << >>]

Add(s, row) ==
  /\ Len(model[s]) < session.maxRows
  /\ OnModelChange([model EXCEPT ![s] = Append(@, row)])

AddNamed(s) == s \in Named /\ Add(s, NewRow(s))
AddRule(s) == s \in Ruled /\ Add(s, ParseRule(s, NoObject))

PatchName(s, i, name) == OnModelChange([model EXCEPT ![s][i].name = name])
PatchValues(s, i, values) == OnModelChange([model EXCEPT ![s][i].values = values])

\* A mutant: the patched rule is rebuilt from the fields the builder knows.
PatchRule_Rebuilt(s, i, f, entries) ==
  OnModelChange([model EXCEPT ![s][i] = [known |-> [@.known EXCEPT ![f] = entries],
                                         raw |-> NoObject]])

PatchRule(s, i, f, entries) == OnModelChange([model EXCEPT ![s][i].known[f] = entries])
RemoveRow(s, i) == OnModelChange([model EXCEPT ![s] = RemoveAt(@, i)])
SetExitNode(entries) == OnModelChange([model EXCEPT !.exitNode = entries])

EditNamed(s) ==
  \/ AddNamed(s)
  \/ \E i \in DOMAIN model[s] :
       \/ \E name \in session.names[s] : PatchName(s, i, name)
       \/ \E values \in session.values[s] : PatchValues(s, i, values)
       \/ RemoveRow(s, i)

EditRules(s) ==
  \/ AddRule(s)
  \/ \E i \in DOMAIN model[s] :
       \/ \E f \in DOMAIN session.fields[s] :
            \E entries \in session.fields[s][f] : PatchRule(s, i, f, entries)
       \/ RemoveRow(s, i)

-----------------------------------------------------------------------------
(* Saving: the text at the click is what is sent and what is then saved *)

Commit ==
  /\ pending = NoSave
  /\ value # Blank /\ value # savedValue
  /\ pending' = [text |-> value, at |-> "sent"]
  /\ UNCHANGED <<session, policy, initialDocument, value, savedValue, tab, model, root,
                 parseError, loading, test, wasLive>>

Accepted ==
  /\ pending.at = "sent" /\ IsPolicy(pending.text)
  /\ Live(pending.text)
  /\ pending' = [pending EXCEPT !.at = "accepted"]
  /\ UNCHANGED <<session, initialDocument, value, savedValue, tab, model, root, parseError,
                 loading, test>>

\* A mutant: what is in the editor when the answer arrives counts as saved.
SaveSucceeds_CurrentText ==
  /\ pending.at = "accepted"
  /\ savedValue' = value
  /\ pending' = NoSave
  /\ UNCHANGED <<session, policy, initialDocument, value, tab, model, root, parseError,
                 loading, test, wasLive>>

SaveSucceeds ==
  /\ pending.at = "accepted"
  /\ savedValue' = pending.text
  /\ pending' = NoSave
  /\ UNCHANGED <<session, policy, initialDocument, value, tab, model, root, parseError,
                 loading, test, wasLive>>

\* Refused, or given up on whether Headscale took it or not.
SaveFails ==
  /\ pending # NoSave
  /\ pending' = NoSave
  /\ UNCHANGED <<session, policy, initialDocument, value, savedValue, tab, model, root,
                 parseError, loading, test, wasLive>>

\* The server renders the page again; the effect runs when the prop differs.
Rerender ==
  /\ initialDocument' = policy
  /\ savedValue' = IF policy # initialDocument THEN policy ELSE savedValue
  /\ UNCHANGED <<session, policy, value, tab, model, root, parseError, pending, loading, test,
                 wasLive>>

-----------------------------------------------------------------------------
(* The History and Test tabs *)

LoadRevision(text) ==
  /\ tab = "history"
  /\ loading' = loading \cup {text}
  /\ UNCHANGED <<session, policy, initialDocument, value, savedValue, tab, model, root,
                 parseError, pending, test, wasLive>>

\* The document arrives whatever has been typed or opened meanwhile.
RevisionArrives(text) ==
  /\ text \in loading
  /\ loading' = loading \ {text}
  /\ value' = text
  /\ Show(text)
  /\ tab' = IF IsPolicy(text) THEN "visual" ELSE "json"
  /\ Leave(tab')
  /\ UNCHANGED <<session, policy, initialDocument, savedValue, pending, wasLive>>

RevisionLost(text) ==
  /\ text \in loading
  /\ loading' = loading \ {text}
  /\ UNCHANGED <<session, policy, initialDocument, value, savedValue, tab, model, root,
                 parseError, pending, test, wasLive>>

Ask(query) ==
  /\ tab = "test"
  /\ test' = [saved |-> savedValue, edited |-> value, query |-> query]
  /\ UNCHANGED <<session, policy, initialDocument, value, savedValue, tab, model, root,
                 parseError, pending, loading, wasLive>>

\* Another operator's save, a deploy from the History tab, the CLI.
OthersSave(text) ==
  /\ Live(text)
  /\ UNCHANGED <<session, initialDocument, workbench>>

-----------------------------------------------------------------------------
EditorInit ==
  /\ session \in Session
  /\ policy \in session.documents
  /\ initialDocument = policy /\ value = policy /\ savedValue = policy
  /\ tab = IF IsPolicy(policy) THEN "visual" ELSE "json"
  /\ model = Parse(DocumentOf(policy)) /\ root = DocumentOf(policy)
  /\ parseError = ~IsPolicy(policy)
  /\ pending = NoSave /\ loading = {} /\ test = Null
  /\ wasLive = {policy}

EditPolicy ==
  \/ \E s \in Named : EditNamed(s)
  \/ \E s \in Ruled : EditRules(s)
  \/ \E entries \in session.exitNodes : SetExitNode(entries)
  \/ \E text \in session.typed : OnJsonChange(text)

Save == Commit \/ Accepted \/ SaveSucceeds \/ SaveFails \/ Rerender

Browse ==
  \/ \E next \in Tab : SelectTab(next)
  \/ \E text \in session.stored :
       LoadRevision(text) \/ RevisionArrives(text) \/ RevisionLost(text)
  \/ \E query \in session.questions : Ask(query)

EditorNext == EditPolicy \/ Save \/ Browse \/ \E text \in session.others : OthersSave(text)

EditorSpec == EditorInit /\ [][EditorNext]_editorVars

-----------------------------------------------------------------------------
(* Properties *)

\* What the page compares the editor with, in its "Unsaved changes", its
\* review and its tests, was Headscale's policy at some time since it was
\* opened: typing while a save is under way never counts as saved.
BaselineWasLive == savedValue \in wasLive

Written(s, rows) ==
  IF s \in NamedSections \cup {"routes"} THEN BuildNamed(rows)
  ELSE IF s = "exitNode" THEN rows ELSE SerializeRules(s, rows)

Passed(object) ==
  [k \in DOMAIN object \ (NamedSections \cup RuleSections \cup {"autoApprovers"}) |-> object[k]]

\* While the builder is shown it shows the text: whatever was typed, loaded,
\* switched or saved before, its rows are the sections of the text, and the
\* keys it does not know are those of the text.
SectionsShowText ==
  tab = "visual" /\ ~parseError =>
    /\ \A s \in Sections : Written(s, model[s]) = Written(s, Parse(DocumentOf(value))[s])
    /\ Passed(root) = Passed(DocumentOf(value))

Changed(before, after) ==
  {k \in DOMAIN before \cup DOMAIN after :
     ~(k \in DOMAIN before /\ k \in DOMAIN after /\ before[k] = after[k])}
Both(k, before, after) == k \in DOMAIN before /\ k \in DOMAIN after
OnePlace(before, after) == Cardinality(Changed(before, after)) <= 1

OnePlaceInRules(before, after) ==
  Len(before) = Len(after) =>
    OnePlace(before, after) /\ \A i \in Changed(before, after) : OnePlace(before[i], after[i])

OnePlaceOfText(before, after) ==
  /\ OnePlace(before, after)
  /\ \A k \in Changed(before, after) : Both(k, before, after) =>
       /\ k = "autoApprovers" => OnePlace(before[k], after[k])
       /\ k \in RuleSections => OnePlaceInRules(before[k], after[k])

\* Documents that the builder, before any edit, would write as they are: no
\* rule without a field that is always written, no entry without a name.
Normal(document) == Serialize(Parse(document), document) = document
NormalDocuments ==
  \A s \in Session : \A text \in s.documents \cup s.typed \cup s.stored : Normal(DocumentOf(text))

\* One edit in the builder changes one place of such a text: another section,
\* an unknown key, another rule and the unknown fields of the rule itself are
\* what they were.
UntouchedSurvive ==
  [][tab = "visual" /\ tab' = "visual" /\ loading' = loading =>
       OnePlaceOfText(DocumentOf(value), DocumentOf(value'))]_editorVars
=============================================================================
