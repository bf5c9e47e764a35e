--------------------------- MODULE PolicyFindings ---------------------------
(***************************************************************************)
(* The workbench composed with the linter, which reads the text at every   *)
(* keystroke (lintFindings in policy-workbench.tsx).                       *)
(***************************************************************************)
EXTENDS BuilderFields, PolicyLint

\* The findings beside the two editors.
LintFindings ==
  IF tab \in {"visual", "json"} /\ IsPolicy(value)
  THEN LintPolicy(Parse(DocumentOf(value)), session.known) ELSE {}

-----------------------------------------------------------------------------
(* Properties *)

\* Two groups of a document share no user.
GroupsApart(document) ==
  LET groups == DOMAIN Get(document, "groups", NoObject)
  IN \A g, h \in groups : g = h \/ GroupUsers(document, g) \cap GroupUsers(document, h) = {}

\* A node is one of those that some entry of nodeAttrs gives an attribute.
Has(document, node, attr) ==
  \E e \in Entries(Get(document, "nodeAttrs", << >>)) :
    /\ attr \in Entries(Get(e, "attr", << >>))
    /\ \E t \in Entries(Get(e, "target", << >>)) : MayBe(document, t, node)

\* A Taildrive grant is called without effect only when it is: no node that the
\* policy's side of the grant stands for, whichever nodes there are, is one that
\* has the attribute ("only emitted when every token is provably uncovered",
\* lib/policy/lint.ts).  This takes nodes with one tag and groups that share no
\* user: of others the linter knows nothing.
DriveWarningsAreEarned ==
  LET document == DocumentOf(value)
  IN \A w \in LintFindings, node \in Nodes :
       GroupsApart(document) /\ (\A t, u \in node.tags : t = u) =>
         LET grant == document.grants[w.place[2]]
         IN /\ w.code = "drive-access-missing" =>
                 ~ \E t \in Entries(Get(grant, "src", << >>)) :
                     MayBe(document, t, node) /\ Has(document, node, "drive:access")
            /\ w.code = "drive-share-missing" =>
                 ~ \E e \in Entries(Get(grant, "dst", << >>)) :
                     MayBe(document, Whole(e), node) /\ Has(document, node, "drive:share")
=============================================================================
