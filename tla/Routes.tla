------------------------------- MODULE Routes -------------------------------
(***************************************************************************)
(* Route approval: the Routes board, its Server Actions and Headscale's    *)
(* approved sets, which each write replaces whole.                         *)
(*                                                                         *)
(* Grain: rendering the board, reading a node and writing its set are one  *)
(* action each; other operators, the nodes and the Headscale CLI come in   *)
(* between.  What a write is computed from is the board for what is        *)
(* approved, and the read for what the node carries.                       *)
(***************************************************************************)
EXTENDS FiniteSets, Integers

CONSTANTS Operator,   \* people with the board open
          Node,       \* Headscale's nodes
          Subnet,     \* subnet routes
          Default,    \* the default routes, which make a node an exit node
          None

ASSUME RoutesAssumption ==
  /\ Subnet \cap Default = {}
  /\ None \notin Node \cup Subnet \cup Default

Route == Subnet \cup Default

VARIABLES
  available,  \* what each node advertises
  approved,   \* what is approved on it
  board,      \* the route state each operator's board was rendered from
  req,        \* the request each operator has in flight
  since       \* history: the routes the nodes of a request carried since it began

headscale == <<available, approved>>
vars == <<headscale, board, req, since>>

-----------------------------------------------------------------------------
(* lib/routes.ts and route-batch.ts: what a board row stands for           *)

Now == [n \in Node |-> [available |-> available[n], approved |-> approved[n]]]

Carries(state) == state.approved \cup state.available

\* The exit row is one control: with one default route approved, all that the
\* node carries count as approved.
ExitApproved(state) == state.approved \cap Default # {}

ApprovedCidrs(state) ==
  (state.approved \ Default)
    \cup (IF ExitApproved(state) THEN Carries(state) \cap Default ELSE {})

PendingCidrs(state) == Carries(state) \ ApprovedCidrs(state)

PendingCount(state) ==
  Cardinality(PendingCidrs(state) \ Default)
    + (IF PendingCidrs(state) \cap Default = {} THEN 0 ELSE 1)

-----------------------------------------------------------------------------
(* Requests                                                                *)

NoView == [available |-> {}, approved |-> {}]

Idle == [pc |-> "idle", op |-> "none", cidr |-> None, left |-> {}, at |-> None,
         seen |-> NoView, wrote |-> {}]

Busy(o) == req[o].pc \in {"next", "write", "late"}

Nothing == [n \in Node |-> {}]

\* Routes that a node comes to carry, noted by the requests that name it.
Carried(n, set) ==
  [o \in Operator |-> IF Busy(o) /\ n \in req[o].left \cup {req[o].at}
                      THEN [since[o] EXCEPT ![n] = @ \cup set] ELSE since[o]]

\* RoutesPage: the board, rendered again after a success or a navigation.
Render(o) ==
  /\ req[o].pc \in {"idle", "failed"}
  /\ board' = [board EXCEPT ![o] = Now]
  /\ req' = [req EXCEPT ![o] = Idle]
  /\ UNCHANGED <<headscale, since>>

Begin(o, op, cidr, nodes) ==
  /\ req[o].pc \in {"idle", "failed"} /\ board[o] # None
  /\ req' = [req EXCEPT ![o] = [Idle EXCEPT !.pc = "next", !.op = op, !.cidr = cidr,
                                            !.left = nodes]]
  /\ since' = [since EXCEPT ![o] = [n \in Node |->
                                       IF n \in nodes THEN Carries(Now[n]) ELSE {}]]
  /\ UNCHANGED <<headscale, board>>

\* A subnet row's button approves a pending route and revokes any other.
ClickRow(o, n, cidr) ==
  /\ board[o] # None /\ cidr \in Carries(board[o][n]) \ Default
  /\ Begin(o, IF cidr \in ApprovedCidrs(board[o][n]) THEN "revoke" ELSE "approve", cidr, {n})

ClickExit(o, n) ==
  /\ board[o] # None /\ Carries(board[o][n]) \cap Default # {}
  /\ Begin(o, IF ExitApproved(board[o][n]) THEN "exitOff" ELSE "exitOn", None, {n})

\* A card's button, or the header's.
ApproveAll(o, nodes) ==
  /\ board[o] # None
  /\ \/ \E n \in Node : nodes = {n} /\ PendingCount(board[o][n]) >= 2
     \/ nodes # {} /\ nodes = {n \in Node : PendingCidrs(board[o][n]) # {}}
  /\ Begin(o, "all", None, nodes)

\* MUTANT: an approval is not checked against what the node advertises.
Read_Unchecked(o, n) ==
  /\ req[o].pc = "next" /\ n \in req[o].left
  /\ req' = [req EXCEPT ![o].pc = "write", ![o].at = n, ![o].left = @ \ {n},
                        ![o].seen = Now[n]]
  /\ UNCHANGED <<headscale, board, since>>

\* routes.forNode, for the next node of the request.
Read(o, n) ==
  /\ req[o].pc = "next" /\ n \in req[o].left
  /\ req[o].op = "approve" => req[o].cidr \in available[n]
  /\ req' = [req EXCEPT ![o].pc = "write", ![o].at = n, ![o].left = @ \ {n},
                        ![o].seen = Now[n]]
  /\ UNCHANGED <<headscale, board, since>>

\* MUTANT: only what is advertised is kept.
Kept_Advertised(view, seen) == ApprovedCidrs(view) \cap seen.available

\* The write base: approved on the board, and carried still.
Kept(view, seen) == ApprovedCidrs(view) \cap Carries(seen)

\* The set sent to Headscale.
NewSet(o) ==
  LET q == req[o]
      view == board[o][q.at]
  IN  CASE q.op = "approve" -> Kept(view, q.seen) \cup {q.cidr}
        [] q.op = "revoke" -> Kept(view, q.seen) \ {q.cidr}
        [] q.op = "exitOn" -> q.seen.approved \cup (q.seen.available \cap Default)
        [] q.op = "exitOff" -> q.seen.approved \ Default
        [] OTHER -> Kept(view, q.seen) \cup (PendingCidrs(view) \cap Carries(q.seen))

\* nodes.approveRoutes replaces the set.
SetApproved(n, set) ==
  /\ approved' = [approved EXCEPT ![n] = set]
  /\ UNCHANGED available

Write(o) ==
  /\ req[o].pc = "write"
  /\ SetApproved(req[o].at, NewSet(o))
  /\ req' = [req EXCEPT ![o].pc = "next", ![o].at = None, ![o].seen = NoView,
                        ![o].wrote = @ \cup {req[o].at}]
  /\ since' = Carried(req[o].at, NewSet(o))
  /\ UNCHANGED board

\* The console gives up on a write, which Headscale may still handle.
\* BOUND: its operator waits for that before trying again.
GiveUp(o) ==
  /\ req[o].pc = "write"
  /\ req' = [req EXCEPT ![o].pc = "late"]
  /\ UNCHANGED <<headscale, board, since>>

\* The request ends in an error; the board stays as it was.
Refused(o) == [req EXCEPT ![o] = [Idle EXCEPT !.pc = "failed", !.wrote = req[o].wrote]]

Land(o) ==
  /\ req[o].pc = "late"
  /\ SetApproved(req[o].at, NewSet(o))
  /\ req' = Refused(o)
  /\ since' = [Carried(req[o].at, NewSet(o)) EXCEPT ![o] = Nothing]
  /\ UNCHANGED board

\* The read or the write is refused or lost, or the route is not advertised:
\* the rest of the request is not tried and nothing is audited.
Fail(o) ==
  /\ \/ req[o].pc \in {"write", "late"}
     \/ req[o].pc = "next" /\ req[o].left # {}
  /\ req' = Refused(o)
  /\ since' = [since EXCEPT ![o] = Nothing]
  /\ UNCHANGED <<headscale, board>>

\* The audit entry, and the board revalidated.
Succeed(o) ==
  /\ req[o].pc = "next" /\ req[o].left = {}
  /\ board' = [board EXCEPT ![o] = None]
  /\ req' = [req EXCEPT ![o] = Idle]
  /\ since' = [since EXCEPT ![o] = Nothing]
  /\ UNCHANGED headscale

-----------------------------------------------------------------------------
(* The nodes, and the Headscale CLI                                        *)

Toggle(set, r) == IF r \in set THEN set \ {r} ELSE set \cup {r}

Advertise(n, r) ==
  /\ available' = [available EXCEPT ![n] = Toggle(@, r)]
  /\ since' = Carried(n, available'[n])
  /\ UNCHANGED <<approved, board, req>>

OutOfBand(n, r) ==
  /\ SetApproved(n, Toggle(approved[n], r))
  /\ since' = Carried(n, approved'[n])
  /\ UNCHANGED <<board, req>>

Init ==
  /\ available \in [Node -> SUBSET Route]
  /\ approved = [n \in Node |-> {}]
  /\ board = [o \in Operator |-> None]
  /\ req = [o \in Operator |-> Idle]
  /\ since = [o \in Operator |-> Nothing]

Click(o) ==
  \/ \E n \in Node : ClickExit(o, n) \/ \E cidr \in Subnet : ClickRow(o, n, cidr)
  \/ \E nodes \in SUBSET Node : ApproveAll(o, nodes)

Serve(o) ==
  \/ \E n \in Node : Read(o, n)
  \/ Write(o) \/ GiveUp(o) \/ Land(o) \/ Fail(o) \/ Succeed(o)

Next ==
  \/ \E o \in Operator : Render(o) \/ Click(o) \/ Serve(o)
  \/ \E n \in Node, r \in Route : Advertise(n, r) \/ OutOfBand(n, r)

Spec == Init /\ [][Next]_vars

-----------------------------------------------------------------------------
(* Properties                                                              *)

View == [available : SUBSET Route, approved : SUBSET Route]

Request ==
  [pc    : {"idle", "next", "write", "late", "failed"},
   op    : {"none", "approve", "revoke", "exitOn", "exitOff", "all"},
   cidr  : Subnet \cup {None},
   left  : SUBSET Node,
   at    : Node \cup {None},
   seen  : View,
   wrote : SUBSET Node]

RequestOK(o) ==
  /\ req[o].pc \in {"write", "late"} => req[o].at \in Node
  /\ req[o].pc \in {"next", "write", "late"} => board[o] # None /\ req[o].op # "none"
  /\ req[o].op \in {"approve", "revoke"} => req[o].cidr \in Subnet

\* Types, and what a request carries at each point.
TypeOK ==
  /\ available \in [Node -> SUBSET Route]
  /\ approved \in [Node -> SUBSET Route]
  /\ board \in [Operator -> [Node -> View] \cup {None}]
  /\ since \in [Operator -> [Node -> SUBSET Route]]
  /\ req \in [Operator -> Request]
  /\ \A o \in Operator : RequestOK(o)

\* The node whose set operator o's request replaces in this step.
Writes(o, n) ==
  /\ req[o].pc \in {"write", "late"} /\ req[o].at = n
  /\ approved'[n] # approved[n] /\ req'[o].at = None

\* However old the board, a write approves nothing that the node has neither
\* advertised nor been approved for since the request began: "keep only routes the
\* node actually carries".
OnlyCarried ==
  [][\A o \in Operator, n \in Node :
       Writes(o, n) => approved'[n] \ approved[n] \subseteq since[o][n]]_vars

\* The board and the read still agree with Headscale.
Undisturbed(o, n) ==
  /\ req[o].seen = Now[n]
  /\ req[o].op \notin {"exitOn", "exitOff"} => board[o][n] = Now[n]

\* What each control stands for, one route at a time.
Asked(op, cidr, state) ==
  CASE op = "approve" -> state.approved \cup {cidr}
    [] op = "revoke" -> state.approved \ {cidr}
    [] op = "exitOn" -> state.approved \cup (state.available \cap Default)
    [] op = "exitOff" -> state.approved \ Default
    [] OTHER -> state.approved \cup state.available

\* The default routes a node carries are approved together or not at all.
Together(state) == state.approved \cap Default \in {{}, Carries(state) \cap Default}

\* The replaced set is the asked change to the routes one by one, the node's other
\* approvals preserved, when nobody changed the node meanwhile; for the exit row
\* even from an old board.
UndisturbedIsExact ==
  [][\A o \in Operator, n \in Node :
       Writes(o, n) /\ Undisturbed(o, n) /\ Together(Now[n]) =>
         approved'[n] = Asked(req[o].op, req[o].cidr, Now[n])]_vars

=============================================================================
