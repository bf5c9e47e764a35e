---------------------------- MODULE BuilderFields ----------------------------
(***************************************************************************)
(* The fields of the policy builder that hold text of their own before it  *)
(* is the model's: the capability editor of a grant or an attribute        *)
(* (CapabilityEditor in visual-editor.tsx), and the token inputs of the    *)
(* rows (components/ui/token-input.tsx).  Both are mounted by section and  *)
(* index: when rows are removed, or the whole policy is replaced by a      *)
(* revision that arrives, a field finds itself in another row.             *)
(***************************************************************************)
EXTENDS PolicyEditor

VARIABLES
  capabilities,   \* per section and index, an editor: its rows and what it sent last
  draft           \* the token being typed and where, or Null

fieldVars == <<capabilities, draft>>

Carriers == {"nodeAttrs", "grants"}

\* Rules have token inputs but for their capabilities, named rows one.
ASSUME TokensAssumption ==
  \A s \in Session : \A r \in DOMAIN s.tokens :
    \/ r \in RuleSections /\ DOMAIN s.tokens[r] \subseteq Known(r) \ {"app"}
    \/ r \in NamedSections \cup {"routes"} /\ DOMAIN s.tokens[r] = {"values"}

\* A list in which each entry appears once.
Include(list, entry) == IF Contains(list, entry) THEN list ELSE Append(list, entry)

\* The builder is on the page.
Shown == tab = "visual" /\ ~parseError

-----------------------------------------------------------------------------
(* A capability editor: rows of a name and a payload, which is only known  *)
(* to be a JSON array or not.  Rows go to the model when all are complete. *)

toRows(app) == [k \in DOMAIN app |-> [name |-> app[k], valid |-> TRUE]]
BlankRow == [name |-> Nameless, valid |-> TRUE]

Complete(rows) == \A k \in DOMAIN rows : rows[k].name # Nameless /\ rows[k].valid

\* The object of the rows' names; its order of keys is left out.
NamesOf(rows) == {rows[k].name : k \in DOMAIN rows}
fromRows(rows) == SetToSeq(NamesOf(rows))

Mounted(app) == [rows |-> toRows(app), error |-> FALSE, sent |-> app]

\* MUTANT: the rows are what they were when the editor was mounted.
Resync_Never(editor, app) == editor

\* The effect on the incoming app: not after the editor's own commit.
Resync(editor, app) == IF app # editor.sent THEN Mounted(app) ELSE editor

\* The editors after a step that leaves these rows in section s.
EditorsOf(s, rows) ==
  [i \in DOMAIN rows |->
     IF i \in DOMAIN capabilities[s] THEN Resync(capabilities[s][i], rows[i].known.app)
     ELSE Mounted(rows[i].known.app)]

\* What a step of the workbench does to the fields: the builder's are unmounted
\* with it, and a draft with its row.
Follow ==
  /\ capabilities' = [s \in Carriers |-> IF Shown' THEN EditorsOf(s, model'[s]) ELSE << >>]
  /\ draft' = IF draft # Null /\ Shown' /\ draft.i \in DOMAIN model'[draft.s] THEN draft ELSE Null

\* "Add capability" keeps the blank row to itself.
AddCapability(s, i) ==
  /\ Len(capabilities[s][i].rows) < session.maxCapabilities
  /\ capabilities' = [capabilities EXCEPT ![s][i].rows = Append(@, BlankRow)]
  /\ UNCHANGED <<editorVars, draft>>

\* commit: incomplete rows stay here and the error is shown.
CommitRows(s, i, next) ==
  /\ capabilities' = [capabilities EXCEPT ![s][i] =
       IF Complete(next) THEN [rows |-> next, error |-> FALSE, sent |-> fromRows(next)]
       ELSE [@ EXCEPT !.rows = next, !.error = TRUE]]
  /\ IF Complete(next) THEN PatchRule(s, i, "app", fromRows(next)) ELSE UNCHANGED editorVars
  /\ UNCHANGED draft

EditCapability(s, i) ==
  LET rows == capabilities[s][i].rows
  IN \/ AddCapability(s, i)
     \/ \E k \in DOMAIN rows :
          \/ \E name \in session.capabilities : CommitRows(s, i, [rows EXCEPT ![k].name = name])
          \/ CommitRows(s, i, [rows EXCEPT ![k].valid = ~@])
          \/ CommitRows(s, i, RemoveAt(rows, k))

-----------------------------------------------------------------------------
(* A token input: the draft is one text under the cursor *)

TokensOf(s, i, f) == IF f = "values" THEN model[s][i].values ELSE model[s][i].known[f]
PatchTokens(s, i, f, tokens) ==
  IF f = "values" THEN PatchValues(s, i, tokens) ELSE PatchRule(s, i, f, tokens)

\* The popover offers what the field does not have yet.
Suggestions(s, i, f) == session.tokens[s][f] \ Range(TokensOf(s, i, f))

TypeToken(s, i, f) ==
  /\ Shown /\ draft = Null
  /\ \E token \in session.tokens[s][f] : draft' = [s |-> s, i |-> i, f |-> f, token |-> token]
  /\ UNCHANGED <<editorVars, capabilities>>

EraseToken == draft # Null /\ draft' = Null /\ UNCHANGED <<editorVars, capabilities>>

\* "Duplicates are ignored so each reference appears once."
commit(token) ==
  /\ PatchTokens(draft.s, draft.i, draft.f, Include(TokensOf(draft.s, draft.i, draft.f), token))
  /\ draft' = Null
  /\ UNCHANGED capabilities

\* By Enter, by a comma, by leaving the field.
CommitToken == draft # Null /\ commit(draft.token)

\* A suggestion takes the draft's place.
PickSuggestion ==
  /\ draft # Null
  /\ \E token \in Suggestions(draft.s, draft.i, draft.f) : commit(token)

\* The cross of a chip, or Backspace in an empty input.
RemoveToken(s, i, f) ==
  /\ Shown
  /\ \E k \in DOMAIN TokensOf(s, i, f) : PatchTokens(s, i, f, RemoveAt(TokensOf(s, i, f), k))
  /\ UNCHANGED fieldVars

-----------------------------------------------------------------------------

BuilderInit ==
  /\ EditorInit
  /\ capabilities = [s \in Carriers |->
       [i \in IF Shown THEN DOMAIN model[s] ELSE {} |-> Mounted(model[s][i].known.app)]]
  /\ draft = Null

\* What happens with the cursor in a token input: a click elsewhere leaves the
\* input first, Cmd-S does not.
Unprompted ==
  \/ Save
  \/ \E text \in session.stored : RevisionArrives(text) \/ RevisionLost(text)
  \/ \E text \in session.others : OthersSave(text)

FieldEdit ==
  \/ \E s \in Carriers \cap Ruled : \E i \in DOMAIN capabilities[s] :
       draft = Null /\ EditCapability(s, i)
  \/ \E s \in DOMAIN session.tokens : \E f \in DOMAIN session.tokens[s], i \in DOMAIN model[s] :
       draft = Null /\ (TypeToken(s, i, f) \/ RemoveToken(s, i, f))
  \/ EraseToken \/ CommitToken \/ PickSuggestion

BuilderNext ==
  \/ draft = Null /\ EditorNext /\ Follow
  \/ draft # Null /\ Unprompted /\ Follow
  \/ FieldEdit

BuilderSpec == BuilderInit /\ [][BuilderNext]_<<editorVars, fieldVars>>

-----------------------------------------------------------------------------
(* Properties *)

\* Wherever an editor finds itself, rows that are complete name the capabilities
\* of the entry above them, and an error is shown only over rows that are not.
RowsShowEntry ==
  \A s \in Carriers : Shown =>
    /\ DOMAIN capabilities[s] = DOMAIN model[s]
    /\ \A i \in DOMAIN model[s] :
         LET editor == capabilities[s][i]
         IN /\ Complete(editor.rows) => NamesOf(editor.rows) = Range(model[s][i].known.app)
            /\ editor.error => ~Complete(editor.rows)

\* What the builder shows is the text, in its rows and in the fields that keep
\* text of their own, however it was edited, loaded, switched or saved.
BuilderShowsText == SectionsShowText /\ RowsShowEntry
=============================================================================
