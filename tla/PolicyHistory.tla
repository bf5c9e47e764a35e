---------------------------- MODULE PolicyHistory ----------------------------
(***************************************************************************)
(* What the policy history promises: one entry per document, draft until a *)
(* push of that document was accepted by the control plane, and never a    *)
(* draft again.  "Saving or deploying a document that is already stored    *)
(* touches the existing row"; "only a successful PUT stamps".              *)
(***************************************************************************)
CONSTANT Doc           \* policy documents, told apart by their digest

VARIABLES history,     \* each document's entry
          accepted     \* documents the control plane accepted from the console

hvars == <<history, accepted>>

HInit ==
  /\ history = [d \in Doc |-> "absent"]
  /\ accepted = {}

\* Headscale accepts a PUT.
Accept(d) ==
  /\ accepted' = accepted \cup {d}
  /\ UNCHANGED history

\* The document is kept without touching the tailnet.
Store(d) ==
  /\ history[d] = "absent"
  /\ history' = [history EXCEPT ![d] = "draft"]
  /\ UNCHANGED accepted

\* A push that succeeded is stamped on the document's one entry.
Stamp(d) ==
  /\ d \in accepted
  /\ history' = [history EXCEPT ![d] = "deployed"]
  /\ UNCHANGED accepted

\* The operator forgets the document.
Forget(d) ==
  /\ history' = [history EXCEPT ![d] = "absent"]
  /\ UNCHANGED accepted

HNext == \E d \in Doc : Accept(d) \/ Store(d) \/ Stamp(d) \/ Forget(d)

HSpec == HInit /\ [][HNext]_hvars
=============================================================================
