----------------------------- MODULE PolicyLint -----------------------------
(***************************************************************************)
(* lintPolicy (lib/policy/lint.ts) as an operator from a model and the     *)
(* tailnet's users to the findings shown beside the editor: a code, the    *)
(* place, and the token.  The wording is left out, and the duplicate names *)
(* too: the workbench lints what it parsed, and an object has no two keys  *)
(* of one name.                                                            *)
(***************************************************************************)
EXTENDS PolicyTokens, TLC

CONSTANT Bare      \* "user" or "word" token -> the user it names, without its "@"

\* What the tokens that the code spells out are, and that every user has a name.
ASSUME LintAssumption ==
  /\ FormOf("*") = "wildcard"
  /\ \A t \in {"autogroup:member", "autogroup:tagged"} : FormOf(t) = "autogroup"
  /\ \A t \in Token : FormOf(t) = "user" => t \in DOMAIN Bare
  /\ \A t \in DOMAIN Bare : Bare[t] # Null

Finding(code, place, token) == [code |-> code, place |-> place, token |-> token]

-----------------------------------------------------------------------------
(* References *)

\* Where a reference sits: what the entries of a field are lists of.
Position(s, f) ==
  CASE f = "src" -> "src"
    [] f = "dst" -> "dst"
    [] s = "ssh" /\ f = "users" -> "ssh-users"
    [] s = "groups" -> "group-members"
    [] OTHER -> "other"

\* Autogroups that are only valid in one position.
Placement ==
  ("autogroup:internet" :> "dst") @@ ("autogroup:self" :> "dst")
    @@ ("autogroup:danger-all" :> "src") @@ ("autogroup:nonroot" :> "ssh-users")

Site(s, i, f, tokens) == [place |-> <<s, i, f>>, tokens |-> tokens, position |-> Position(s, f)]

\* Every list of references in the model; a dst is read without its ports.
RefSites(model) ==
  LET scanned == [acls |-> {"src", "dst"}, ssh |-> {"src", "dst", "users"},
                  grants |-> {"src", "dst", "via"}, nodeAttrs |-> {"target"}]
      tokens(f, list) == IF f = "dst" THEN {e.host : e \in Entries(list)} ELSE Entries(list)
      rules(s) == {Site(s, i, f, tokens(f, model[s][i].known[f])) :
                     i \in DOMAIN model[s], f \in scanned[s]}
      named(s) == {Site(s, i, "values", Entries(model[s][i].values)) : i \in DOMAIN model[s]}
  IN UNION ({rules(s) : s \in RuleSections}
        \cup {named(s) : s \in {"tagOwners", "groups", "routes"}}
        \cup {{Site("exitNode", 0, "exitNode", Entries(model.exitNode))}})

\* The first that applies of: misplaced, a group among a group's members (which
\* has a finding of its own), undeclared, unknown.
RefFinding(model, known, site, t) ==
  LET kind == Classify(t, Aliases(model))
      declared(s) == t \in Names(model[s])
      misplaced == t \in DOMAIN Placement /\ Placement[t] # site.position
      found(code) == {Finding(code, site.place, t)}
  IN CASE misplaced -> found("autogroup-placement")
       [] ~misplaced /\ kind = "group" ->
            IF site.position = "group-members" THEN found("nested-group")
            ELSE IF declared("groups") THEN {} ELSE found("undeclared-group")
       [] kind = "tag" -> IF declared("tagOwners") THEN {} ELSE found("undeclared-tag")
       [] kind = "user" -> IF known \cap {Lower[t], Bare[t]} # {} THEN {} ELSE found("unknown-user")
       [] OTHER -> {}

RefFindings(model, known) ==
  UNION {UNION {RefFinding(model, known, site, t) : t \in site.tokens \ {Nameless}}
           : site \in RefSites(model)}

-----------------------------------------------------------------------------
(* Taildrive: "covered", "uncovered", or "unknown" where it cannot decide. *)

Drive == "tailscale.com/cap/drive"
Targets(model, attr) ==
  UNION {Entries(e.known.target) : e \in {r \in Entries(model.nodeAttrs) : attr \in Entries(r.known.attr)}}

Verdicts(covered, uncovered) ==
  IF covered THEN "covered" ELSE IF uncovered THEN "uncovered" ELSE "unknown"

Members(model, group) == Entries(model.groups[Declaration(model.groups, group)].values)
InLowerCase(t) == IF t \in DOMAIN Lower THEN Lower[t] ELSE t

\* Groups declared with users only; anything else cannot be told.
IsUserGroup(model, t) ==
  /\ Declaration(model.groups, t) # 0 /\ Members(model, t) # {}
  /\ \A m \in Members(model, t) : Classify(InLowerCase(m), Aliases(model)) = "user"

NamesUser(m, t) == m \in DOMAIN Bare /\ Bare[m] = Bare[t]

TargetCovers(model, t, target) ==
  LET kind == Classify(t, Aliases(model))
  IN CASE target \in {t, "*"} -> "covered"
       [] target = "autogroup:member" /\ target # t ->
            Verdicts(kind = "user" \/ (kind = "group" /\ IsUserGroup(model, t)), kind = "tag")
       [] target = "autogroup:tagged" /\ target # t ->
            Verdicts(kind = "tag", kind \in {"user", "group"})
       [] FormOf(target) = "group" /\ target # t ->
            IF Declaration(model.groups, target) = 0 THEN "unknown"
            ELSE LET named == kind = "user" /\ \E m \in Members(model, target) : NamesUser(m, t)
                 IN Verdicts(named, kind \in {"user", "group"})
       [] FormOf(target) = "tag" /\ target # t -> Verdicts(FALSE, kind = "tag")
       [] OTHER -> "unknown"

CoveredByAny(model, t, targets) ==
  LET verdicts == {TargetCovers(model, t, target) : target \in targets}
  IN Verdicts("covered" \in verdicts, "unknown" \notin verdicts)

\* A mutant: one token without the attribute is enough.
ProvablyUncovered_Some(model, tokens, targets) ==
  \E t \in tokens : CoveredByAny(model, t, targets) = "uncovered"

ProvablyUncovered(model, tokens, targets) ==
  tokens # {} /\ \A t \in tokens : CoveredByAny(model, t, targets) = "uncovered"

SharesDrive(grant) == Drive \in Entries(grant.known.app)

DriveFindings(model) ==
  LET grants == {i \in DOMAIN model.grants : SharesDrive(model.grants[i])}
      lacks(i, f, attr) ==
        LET list == model.grants[i].known[f]
            tokens == IF f = "dst" THEN {Whole(e) : e \in Entries(list)} ELSE Entries(list)
        IN ProvablyUncovered(model, tokens, Targets(model, attr))
  IN {Finding("drive-share-missing", <<"grants", i, "dst">>, Null) :
        i \in {j \in grants : lacks(j, "dst", "drive:share")}}
     \cup {Finding("drive-access-missing", <<"grants", i, "src">>, Null) :
             i \in {j \in grants : lacks(j, "src", "drive:access")}}
     \cup UNION {{Finding("drive-attr-unused", <<"nodeAttrs", i, "attr">>, attr) :
                    attr \in Entries(model.nodeAttrs[i].known.attr) \cap {"drive:share", "drive:access"}}
                   : i \in IF grants = {} THEN DOMAIN model.nodeAttrs ELSE {}}

\* What an ACL habit gets wrong in a grant.
GrantFindings(model) ==
  UNION {LET known == model.grants[i].known
         IN {Finding("grant-dst-ports", <<"grants", i, "dst">>, Whole(e)) :
               e \in {d \in Entries(known.dst) : d.ports # Null}}
            \cup IF known.ip = << >> /\ known.app = << >>
                 THEN {Finding("grant-no-capability", <<"grants", i, "">>, Null)} ELSE {}
           : i \in DOMAIN model.grants}

LintPolicy(model, known) == RefFindings(model, known) \cup GrantFindings(model) \cup DriveFindings(model)

-----------------------------------------------------------------------------
(* The reference: the nodes a token stands for, whichever nodes there are. *)
(* A node is its user's, or has tags.                                      *)

UsersOf(tokens) == {Bare[m] : m \in DOMAIN Bare \cap tokens}
Tags == {t \in Token : FormOf(t) = "tag"}
Nodes == [user : UsersOf(Token), tags : {{}}] \cup [user : {Null}, tags : (SUBSET Tags) \ {{}}]

GroupUsers(document, group) ==
  UsersOf(Entries(Get(Get(document, "groups", NoObject), group, << >>)))

\* Whether a node may be one of those t stands for; a token that is none of
\* these, an alias among them, may stand for any node.
MayBe(document, t, node) ==
  LET alias == t \in DOMAIN Get(document, "hosts", NoObject) \ {Nameless}
  IN CASE FormOf(t) = "user" /\ ~alias -> node.user \in UsersOf({t})
       [] FormOf(t) = "group" -> node.user \in GroupUsers(document, t)
       [] FormOf(t) = "tag" -> t \in node.tags
       [] t = "autogroup:member" -> node.tags = {}
       [] t = "autogroup:tagged" -> node.tags # {}
       [] OTHER -> TRUE
=============================================================================
