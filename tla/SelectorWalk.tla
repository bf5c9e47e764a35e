---------------------------- MODULE SelectorWalk ----------------------------
(***************************************************************************)
(* expand (lib/policy/eval.ts) call by call: the tokens that are still to  *)
(* be read, the groups seen, and what has been merged.                     *)
(* evaluateReachability has it expand one selector after another, each     *)
(* with a set of groups of its own.                                        *)
(***************************************************************************)
EXTENDS PolicyEval

CONSTANTS
  Documents,     \* the policies
  Selector       \* the tokens that are expanded: of a question, of the entries

\* Policies are JSON, and a group's members are a list.
ASSUME WalkAssumption ==
  \A d \in Documents :
    /\ IsDocument(d)
    /\ \A g \in DOMAIN Get(d, "groups", NoObject) : IsList(d.groups[g])

VARIABLES
  given,         \* the policy's model
  selector,      \* the token that is expanded, Null before the first
  stack,         \* the tokens to read, the callee's before the caller's others
  seenGroups,
  out,           \* what has been merged
  read           \* a history: the tokens read

walkVars == <<given, selector, stack, seenGroups, out, read>>

Top == Head(stack)
Kind == Classify(Top, Aliases(given))

WalkInit ==
  /\ given \in {Parse(d) : d \in Documents}
  /\ selector = Null
  /\ stack = << >> /\ seenGroups = {} /\ out = Nothing /\ read = {}

\* A mutant: one set of groups seen for all the selectors.
Expand_OneSet(t) ==
  /\ stack = << >>
  /\ selector' = t
  /\ stack' = <<t>> /\ out' = Nothing /\ read' = {}
  /\ UNCHANGED <<given, seenGroups>>

Expand(t) ==
  /\ stack = << >>
  /\ selector' = t
  /\ stack' = <<t>> /\ seenGroups' = {} /\ out' = Nothing /\ read' = {}
  /\ UNCHANGED given

\* The top is read: it says something and leads on to others.
Take(says, others) ==
  /\ out' = MergeAll({out, says})
  /\ stack' = others \o Tail(stack)
  /\ read' = read \cup {Top}
  /\ UNCHANGED <<given, selector>>

Reading(kinds) == stack # << >> /\ Top # Nameless /\ Kind \in kinds

ReadBlank ==
  /\ stack # << >> /\ Top = Nameless
  /\ Take(Nothing, << >>)
  /\ UNCHANGED seenGroups

ReadSeen ==
  /\ Reading({"group"}) /\ Top \in seenGroups
  /\ Take(Leaf(Top, Aliases(given)), << >>)
  /\ UNCHANGED seenGroups

\* A mutant: the group is not marked.
ReadGroup_Unmarked ==
  /\ Reading({"group"}) /\ Top \notin seenGroups
  /\ Take(Leaf(Top, Aliases(given)), Onward(Top, given))
  /\ UNCHANGED seenGroups

ReadGroup ==
  /\ Reading({"group"}) /\ Top \notin seenGroups
  /\ Take(Leaf(Top, Aliases(given)), Onward(Top, given))
  /\ seenGroups' = seenGroups \cup {Top}

\* Nothing marks an alias.
ReadAlias ==
  /\ Reading({"host"})
  /\ Take(Nothing, Onward(Top, given))
  /\ UNCHANGED seenGroups

ReadOther ==
  /\ Reading({"wildcard", "tag", "cidr", "v6", "autogroup", "user", "word"})
  /\ Take(Leaf(Top, Aliases(given)), << >>)
  /\ UNCHANGED seenGroups

ReadOn == ReadBlank \/ ReadSeen \/ ReadGroup \/ ReadAlias \/ ReadOther

WalkNext == ReadOn \/ \E t \in Selector : Expand(t)

\* The calls run to their end: nothing is awaited.
WalkSpec == WalkInit /\ [][WalkNext]_walkVars /\ WF_walkVars(ReadOn)

-----------------------------------------------------------------------------
(* Properties *)

\* What expand returns is what the selector means, whatever the groups that
\* contain each other and the order they are read in: a group left out because
\* it was seen has said all it says elsewhere in the same call.
WalkIsMeaning ==
  stack = << >> /\ selector # Null => out = Meaning(selector, given)

\* Every selector is expanded at last ("guard cyclic group refs",
\* lib/policy/eval.ts).
Returns == []<>(stack = << >>)
=============================================================================
