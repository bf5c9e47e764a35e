---------------------------- MODULE PolicyTokens ----------------------------
(***************************************************************************)
(* The tokens of a policy (lib/policy/tokens.ts) and how the evaluator and *)
(* the linter look them up.  A token is a name whose syntactic form the    *)
(* constants give; an entry of a dst is a token with the ports that follow *)
(* it.                                                                     *)
(***************************************************************************)
EXTENDS PolicyModel

CONSTANTS
  Form,       \* token -> its form; any other text is a bare word
  Lower,      \* user -> the user in lower case
  Suffixed    \* token -> the token its text with a port suffix reads as

Token == DOMAIN Form
FormOf(t) == IF t \in Token THEN Form[t] ELSE "word"

ASSUME FormAssumption ==
  \A t \in Token : Form[t] \in {"wildcard", "group", "tag", "autogroup", "cidr", "v6", "user", "word"}

Aliases(model) == {model.hosts[i].name : i \in DOMAIN model.hosts} \ {Nameless}

\* A declared alias is one unless a prefix says otherwise.
Classify(t, aliases) ==
  IF FormOf(t) \in {"wildcard", "group", "tag", "autogroup"} THEN FormOf(t)
  ELSE IF t \in aliases THEN "host"
  ELSE FormOf(t)

\* Where a name is declared, 0 if it is not.
Declaration(rows, name) ==
  SelectInSeq(rows, LAMBDA row : row.name = name)

Whole(entry) == IF entry.ports = Null THEN entry.host ELSE Suffixed[entry.host]

Entries(list) == {list[k] : k \in DOMAIN list}
=============================================================================
