----------------------------- MODULE PolicyTest -----------------------------
(***************************************************************************)
(* The workbench composed with the evaluator: a question of the Test tab   *)
(* is put to the texts the editor held when it was asked                   *)
(* (testReachability in app/(app)/access/actions.ts).  The evaluator's     *)
(* walk over the tokens of an entry runs within one step of the workbench, *)
(* so a behaviour of the bench is one of the workbench or one of the walk, *)
(* and the other stays as it starts.                                       *)
(***************************************************************************)
EXTENDS PolicyFindings, SelectorWalk

Verdict(text) == EvaluateReachability(Parse(DocumentOf(text)), test.query)

\* The texts testReachability evaluates: none when the saved one does not parse.
Tested ==
  IF test = Null \/ ~IsPolicy(test.saved) THEN {}
  ELSE {text \in {test.saved, test.edited} : IsPolicy(text)}

-----------------------------------------------------------------------------
VARIABLE part

benchVars == <<part, editorVars, fieldVars, walkVars>>

BenchInit ==
  /\ part \in {"workbench", "walk"}
  /\ WalkInit
  /\ part = "workbench" => given = Parse(CHOOSE d \in Documents : TRUE)
  /\ session \in IF part = "workbench" THEN Session ELSE {CHOOSE s \in Session : TRUE}
  /\ BuilderInit
  /\ part = "walk" => policy = CHOOSE text \in session.documents : TRUE

BenchNext ==
  /\ UNCHANGED part
  /\ \/ part = "workbench" /\ BuilderNext /\ UNCHANGED walkVars
     \/ part = "walk" /\ WalkNext /\ UNCHANGED <<editorVars, fieldVars>>

BenchSpec == BenchInit /\ [][BenchNext]_benchVars /\ WF_walkVars(ReadOn)

-----------------------------------------------------------------------------
(* Properties *)

\* The first-match walk of evaluateReachability, through the rows of a parsed
\* model with their masks and ports, says "allow" exactly when some rule or
\* grant of the document admits the question by the closure of groups and
\* aliases and by the addresses themselves.
VerdictIsReference ==
  \A text \in Tested :
    Verdict(text).decision = "allow" <=> Allows(DocumentOf(text), test.query, FALSE)

\* A denial without a caveat is final: whatever the constructs the evaluator
\* does not reason about stand for, no rule would admit the question ("reported
\* as notes rather than guessed", lib/policy/eval.ts).
CaveatsAreComplete ==
  \A text \in Tested :
    Verdict(text) = [decision |-> "deny", notes |-> {}] =>
      ~Allows(DocumentOf(text), test.query, TRUE)
=============================================================================
