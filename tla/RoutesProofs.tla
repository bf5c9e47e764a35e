---------------------------- MODULE RoutesProofs ----------------------------
(***************************************************************************)
(* Theorems about Routes for any number of operators, nodes and routes:    *)
(* its types, that a write approves only what its node has carried since   *)
(* the request began, and that an undisturbed write is exactly the change  *)
(* that was asked for.                                                     *)
(***************************************************************************)
EXTENDS Routes, TLAPS

-----------------------------------------------------------------------------
(* Types of the operators                                                  *)

LEMMA NowType == ASSUME TypeOK PROVE Now \in [Node -> View]
  BY DEF TypeOK, Now, View

LEMMA IdleType == NoView \in View /\ Idle \in Request /\ ~ (None \in Node)
  BY RoutesAssumption DEF Idle, NoView, View, Request

LEMMA NothingType == Nothing \in [Node -> SUBSET Route]
  BY DEF Nothing

LEMMA CarriedType ==
  ASSUME TypeOK, NEW n \in Node, NEW set \in SUBSET Route
  PROVE  Carried(n, set) \in [Operator -> [Node -> SUBSET Route]]
  BY DEF TypeOK, Carried

\* The set a request sends is made of routes.
LEMMA NewSetType ==
  ASSUME TypeOK, NEW o \in Operator, req[o].pc \in {"write", "late"}
  PROVE  req[o].at \in Node /\ NewSet(o) \in SUBSET Route
<1> DEFINE q == req[o]
           view == board[o][q.at]
<1>1. q \in Request /\ q.at \in Node /\ view \in View /\ q.op # "none"
  BY DEF TypeOK, RequestOK
<1>2. /\ q.seen.available \in SUBSET Route /\ q.seen.approved \in SUBSET Route
      /\ view.available \in SUBSET Route /\ view.approved \in SUBSET Route
  BY <1>1 DEF Request, View
<1>3. q.op \in {"approve", "revoke"} => q.cidr \in Route
  BY DEF TypeOK, RequestOK, Route
<1> HIDE DEF q, view
<1>4. Kept(view, q.seen) \in SUBSET Route
  BY <1>2 DEF Kept, Carries
<1>5. PendingCidrs(view) \cap Carries(q.seen) \in SUBSET Route
  BY <1>2 DEF Carries
<1>6. NewSet(o) = CASE q.op = "approve" -> Kept(view, q.seen) \cup {q.cidr}
        [] q.op = "revoke" -> Kept(view, q.seen) \ {q.cidr}
        [] q.op = "exitOn" -> q.seen.approved \cup (q.seen.available \cap Default)
        [] q.op = "exitOff" -> q.seen.approved \ Default
        [] OTHER -> Kept(view, q.seen) \cup (PendingCidrs(view) \cap Carries(q.seen))
  BY DEF NewSet, q, view
<1>7. NewSet(o) \in SUBSET Route
  BY <1>2, <1>3, <1>4, <1>5, <1>6
<1> QED
  BY <1>1, <1>7 DEF q

-----------------------------------------------------------------------------
(* Type correctness, one lemma per group of actions                        *)

LEMMA BeginType ==
  ASSUME TypeOK, NEW o \in Operator,
         NEW op \in {"approve", "revoke", "exitOn", "exitOff", "all"},
         NEW cidr \in Subnet \cup {None}, op \in {"approve", "revoke"} => cidr \in Subnet,
         NEW nodes \in SUBSET Node, Begin(o, op, cidr, nodes)
  PROVE  TypeOK'
<1> DEFINE q == [Idle EXCEPT !.pc = "next", !.op = op, !.cidr = cidr, !.left = nodes]
           s == [n \in Node |-> IF n \in nodes THEN Carries(Now[n]) ELSE {}]
<1>1. q \in Request /\ q.pc = "next" /\ q.op = op /\ q.cidr = cidr
  BY IdleType DEF Request, Idle
<1>2. s \in [Node -> SUBSET Route]
  BY NowType DEF View, Carries
<1>3. /\ req' = [req EXCEPT ![o] = q] /\ since' = [since EXCEPT ![o] = s]
      /\ board[o] # None /\ UNCHANGED <<available, approved, board>>
  BY DEF Begin, headscale
<1> HIDE DEF q, s
<1> QED
  BY <1>1, <1>2, <1>3 DEF TypeOK, RequestOK

LEMMA ClickType == ASSUME TypeOK, NEW o \in Operator, Click(o) PROVE TypeOK'
<1>1. CASE \E n \in Node : ClickExit(o, n)
  <2>1. PICK n \in Node : ClickExit(o, n)
    BY <1>1
  <2> DEFINE op == IF ExitApproved(board[o][n]) THEN "exitOff" ELSE "exitOn"
  <2>2. op \in {"exitOn", "exitOff"} /\ {n} \in SUBSET Node /\ Begin(o, op, None, {n})
    BY <2>1 DEF ClickExit
  <2> HIDE DEF op
  <2> QED
    BY <2>2, BeginType
<1>2. CASE \E n \in Node, cidr \in Subnet : ClickRow(o, n, cidr)
  <2>1. PICK n \in Node, cidr \in Subnet : ClickRow(o, n, cidr)
    BY <1>2
  <2> DEFINE op == IF cidr \in ApprovedCidrs(board[o][n]) THEN "revoke" ELSE "approve"
  <2>2. op \in {"approve", "revoke"} /\ {n} \in SUBSET Node /\ Begin(o, op, cidr, {n})
    BY <2>1 DEF ClickRow
  <2> HIDE DEF op
  <2> QED
    BY <2>2, BeginType
<1>3. CASE \E nodes \in SUBSET Node : ApproveAll(o, nodes)
  <2>1. PICK nodes \in SUBSET Node : ApproveAll(o, nodes)
    BY <1>3
  <2>2. Begin(o, "all", None, nodes)
    BY <2>1 DEF ApproveAll
  <2> QED
    BY <2>2, BeginType
<1> QED
  BY <1>1, <1>2, <1>3 DEF Click

\* A request that ends in an error.
LEMMA RefusedType ==
  ASSUME TypeOK, NEW o \in Operator
  PROVE  \E q \in Request : /\ Refused(o) = [req EXCEPT ![o] = q]
                            /\ q.pc = "failed" /\ q.op = "none" /\ q.left = {}
<1> DEFINE q == [Idle EXCEPT !.pc = "failed", !.wrote = req[o].wrote]
<1>1. req[o].wrote \in SUBSET Node
  BY DEF TypeOK, Request
<1>2. q \in Request /\ q.pc = "failed" /\ q.op = "none" /\ q.left = {}
  BY <1>1, IdleType DEF Request, Idle
<1>3. Refused(o) = [req EXCEPT ![o] = q]
  BY DEF Refused
<1> QED
  BY <1>2, <1>3

LEMMA ServeType == ASSUME TypeOK, NEW o \in Operator, Serve(o) PROVE TypeOK'
<1>0. req[o] \in Request /\ since \in [Operator -> [Node -> SUBSET Route]]
  BY DEF TypeOK
<1>1. CASE \E n \in Node : Read(o, n)
  <2>1. PICK n \in Node : Read(o, n)
    BY <1>1
  <2> DEFINE q == [req[o] EXCEPT !.pc = "write", !.at = n, !.left = @ \ {n}, !.seen = Now[n]]
  <2>2. /\ q \in Request /\ q.pc = "write" /\ q.at = n /\ q.op = req[o].op
        /\ q.cidr = req[o].cidr
    BY <1>0, NowType DEF Request
  <2>3. req' = [req EXCEPT ![o] = q] /\ UNCHANGED <<available, approved, board, since>>
    BY <2>1, <1>0 DEF Read, headscale, TypeOK
  <2>4. req[o].pc = "next"
    BY <2>1 DEF Read
  <2> HIDE DEF q
  <2> QED
    BY <2>2, <2>3, <2>4 DEF TypeOK, RequestOK
<1>2. CASE Write(o)
  <2> DEFINE q == [req[o] EXCEPT !.pc = "next", !.at = None, !.seen = NoView,
                                 !.wrote = @ \cup {req[o].at}]
  <2>1. req[o].at \in Node /\ NewSet(o) \in SUBSET Route
    BY <1>2, NewSetType DEF Write
  <2>2. q \in Request /\ q.pc = "next" /\ q.op = req[o].op /\ q.cidr = req[o].cidr
    BY <1>0, <2>1, IdleType DEF Request
  <2>3. /\ req' = [req EXCEPT ![o] = q] /\ since' = Carried(req[o].at, NewSet(o))
        /\ approved' = [approved EXCEPT ![req[o].at] = NewSet(o)]
        /\ UNCHANGED <<available, board>> /\ req[o].pc = "write"
    BY <1>2, <1>0 DEF Write, SetApproved, TypeOK
  <2>4. since' \in [Operator -> [Node -> SUBSET Route]]
    BY <2>1, <2>3, CarriedType
  <2> HIDE DEF q
  <2> QED
    BY <2>1, <2>2, <2>3, <2>4 DEF TypeOK, RequestOK
<1>3. CASE GiveUp(o)
  <2> DEFINE q == [req[o] EXCEPT !.pc = "late"]
  <2>1. /\ q \in Request /\ q.pc = "late" /\ q.at = req[o].at /\ q.op = req[o].op
        /\ q.cidr = req[o].cidr
    BY <1>0 DEF Request
  <2>2. /\ req' = [req EXCEPT ![o] = q] /\ req[o].pc = "write"
        /\ UNCHANGED <<available, approved, board, since>>
    BY <1>3, <1>0 DEF GiveUp, headscale, TypeOK
  <2> HIDE DEF q
  <2> QED
    BY <2>1, <2>2 DEF TypeOK, RequestOK
<1>4. CASE Land(o) \/ Fail(o)
  <2>1. PICK q \in Request : /\ Refused(o) = [req EXCEPT ![o] = q]
                             /\ q.pc = "failed" /\ q.op = "none"
    BY RefusedType
  <2>2. /\ approved' \in [Node -> SUBSET Route]
        /\ since' \in [Operator -> [Node -> SUBSET Route]]
        /\ UNCHANGED <<available, board>> /\ req' = [req EXCEPT ![o] = q]
    <3>1. CASE Land(o)
      <4>1. req[o].at \in Node /\ NewSet(o) \in SUBSET Route
        BY <3>1, NewSetType DEF Land
      <4>2. Carried(req[o].at, NewSet(o)) \in [Operator -> [Node -> SUBSET Route]]
        BY <4>1, CarriedType
      <4> QED
        BY <3>1, <2>1, <4>1, <4>2, NothingType DEF Land, SetApproved, TypeOK
    <3>2. CASE Fail(o)
      BY <3>2, <2>1, NothingType DEF Fail, headscale, TypeOK
    <3> QED
      BY <1>4, <3>1, <3>2
  <2> QED
    BY <2>1, <2>2 DEF TypeOK, RequestOK
<1>5. CASE Succeed(o)
  <2>1. Idle \in Request /\ Idle.pc = "idle" /\ Idle.op = "none"
    BY IdleType DEF Idle
  <2> QED
    BY <1>5, <2>1, NothingType DEF Succeed, headscale, TypeOK, RequestOK
<1> QED
  BY <1>1, <1>2, <1>3, <1>4, <1>5 DEF Serve

LEMMA OutsideType ==
  ASSUME TypeOK, NEW n \in Node, NEW r \in Route, Advertise(n, r) \/ OutOfBand(n, r)
  PROVE  TypeOK'
<1>1. CASE Advertise(n, r)
  <2>1. Toggle(available[n], r) \in SUBSET Route /\ available'[n] = Toggle(available[n], r)
    BY <1>1 DEF Toggle, Advertise, TypeOK
  <2>2. since' \in [Operator -> [Node -> SUBSET Route]]
    BY <1>1, <2>1, CarriedType DEF Advertise
  <2> QED
    BY <1>1, <2>1, <2>2 DEF Advertise, TypeOK, RequestOK
<1>2. CASE OutOfBand(n, r)
  <2>1. Toggle(approved[n], r) \in SUBSET Route /\ approved'[n] = Toggle(approved[n], r)
    BY <1>2 DEF Toggle, OutOfBand, SetApproved, TypeOK
  <2>2. since' \in [Operator -> [Node -> SUBSET Route]]
    BY <1>2, <2>1, CarriedType DEF OutOfBand
  <2> QED
    BY <1>2, <2>1, <2>2 DEF OutOfBand, SetApproved, TypeOK, RequestOK
<1> QED
  BY <1>1, <1>2

LEMMA TypeInit == Init => TypeOK
<1> SUFFICES ASSUME Init PROVE TypeOK
  OBVIOUS
<1>1. Idle \in Request /\ Idle.pc = "idle" /\ Idle.op = "none"
  BY IdleType DEF Idle
<1> QED
  BY <1>1, NothingType DEF Init, TypeOK, RequestOK

LEMMA TypeStep == TypeOK /\ [Next]_vars => TypeOK'
<1> SUFFICES ASSUME TypeOK, [Next]_vars PROVE TypeOK'
  OBVIOUS
<1>1. CASE \E o \in Operator : Render(o)
  <2>1. PICK o \in Operator : Render(o)
    BY <1>1
  <2>2. Idle \in Request /\ Idle.pc = "idle" /\ Idle.op = "none" /\ Now \in [Node -> View]
    BY IdleType, NowType DEF Idle
  <2> QED
    BY <2>1, <2>2 DEF Render, headscale, TypeOK, RequestOK
<1>2. CASE \E o \in Operator : Click(o) \/ Serve(o)
  BY <1>2, ClickType, ServeType
<1>3. CASE \E n \in Node, r \in Route : Advertise(n, r) \/ OutOfBand(n, r)
  BY <1>3, OutsideType
<1>4. CASE UNCHANGED vars
  BY <1>4 DEF vars, headscale, TypeOK, RequestOK
<1> QED
  BY <1>1, <1>2, <1>3, <1>4 DEF Next

\* Types, and what a request carries at each program counter, in every
\* reachable state.
THEOREM TypeCorrect == Spec => []TypeOK
  BY TypeInit, TypeStep, PTL DEF Spec

-----------------------------------------------------------------------------
(* What a node carries is noted by every request that names it             *)

\* The nodes that o's request has still to read or is about to write.
Named(o) == (req[o].left \cup {req[o].at}) \cap Node

\* The strengthening: a request has noted all that its nodes carry, and so the
\* read that it writes from; the route it approves is in that read.
NodesNoted(o) ==
  \A n \in Named(o) : available[n] \cup approved[n] \subseteq since[o][n]

ReadNoted(o) ==
  req[o].pc \in {"write", "late"} =>
    /\ Carries(req[o].seen) \subseteq since[o][req[o].at]
    /\ req[o].op = "approve" => req[o].cidr \in req[o].seen.available

Noted(o) == Busy(o) => NodesNoted(o) /\ ReadNoted(o)

AllNoted == \A o \in Operator : Noted(o)

\* What a write is computed from bounds what it approves.
LEMMA NewSetNoted ==
  ASSUME TypeOK, NEW o \in Operator, req[o].pc \in {"write", "late"}, Noted(o)
  PROVE  NewSet(o) \subseteq since[o][req[o].at]
<1> DEFINE q == req[o]
           view == board[o][q.at]
<1>1. /\ Carries(q.seen) \subseteq since[o][q.at]
      /\ q.op = "approve" => q.cidr \in Carries(q.seen)
  BY DEF Noted, ReadNoted, Busy, Carries
<1>2. Kept(view, q.seen) \subseteq Carries(q.seen)
  BY DEF Kept
<1>3. NewSet(o) = CASE q.op = "approve" -> Kept(view, q.seen) \cup {q.cidr}
        [] q.op = "revoke" -> Kept(view, q.seen) \ {q.cidr}
        [] q.op = "exitOn" -> q.seen.approved \cup (q.seen.available \cap Default)
        [] q.op = "exitOff" -> q.seen.approved \ Default
        [] OTHER -> Kept(view, q.seen) \cup (PendingCidrs(view) \cap Carries(q.seen))
  BY DEF NewSet
<1>4. q.seen.approved \cup q.seen.available = Carries(q.seen)
  BY DEF Carries
<1> HIDE DEF q, view
<1>5. NewSet(o) \subseteq Carries(q.seen)
  BY <1>1, <1>2, <1>3, <1>4
<1> QED
  BY <1>1, <1>5 DEF q

\* A change of one node is noted by the requests that name it.
LEMMA CarriedNotes ==
  ASSUME TypeOK, NEW p \in Operator, Noted(p), NEW n \in Node, NEW set \in SUBSET Route,
         since'[p] = Carried(n, set)[p],
         \A m \in Node : available'[m] \cup approved'[m]
                         \subseteq available[m] \cup approved[m]
                                     \cup (IF m = n THEN set ELSE {}),
         \/ req'[p] = req[p]
         \/ /\ Busy(p) /\ req'[p].pc = "next" /\ req'[p].left = req[p].left
            /\ req'[p].at = None
  PROVE  Noted(p)'
<1> SUFFICES ASSUME Busy(p)' PROVE NodesNoted(p)' /\ ReadNoted(p)'
  BY DEF Noted
<1>1. Busy(p) /\ Named(p)' \subseteq Named(p)
  <2>1. CASE req'[p] = req[p]
    BY <2>1 DEF Busy, Named
  <2>2. CASE Busy(p) /\ req'[p].left = req[p].left /\ req'[p].at = None
    BY <2>2, RoutesAssumption DEF Named
  <2> QED
    BY <2>1, <2>2
<1>2. \A m \in Node : since'[p][m] = IF Busy(p) /\ n \in req[p].left \cup {req[p].at} /\ m = n
                                   THEN since[p][m] \cup set ELSE since[p][m]
  BY DEF TypeOK, Carried
<1>3. \A m \in Named(p)' : available'[m] \cup approved'[m] \subseteq since'[p][m]
  BY <1>1, <1>2 DEF Noted, NodesNoted, Named
<1>4. ASSUME req'[p].pc \in {"write", "late"}
      PROVE  /\ Carries(req'[p].seen) \subseteq since'[p][req'[p].at]
             /\ req'[p].op = "approve" => req'[p].cidr \in req'[p].seen.available
  <2>1. req'[p] = req[p] /\ req[p].pc \in {"write", "late"} /\ req[p].at \in Node
    BY <1>4 DEF TypeOK, RequestOK
  <2> QED
    BY <2>1, <1>1, <1>2 DEF Noted, ReadNoted
<1> QED
  BY <1>3, <1>4 DEF NodesNoted, ReadNoted, Carries

LEMMA NotedInit == ASSUME Init PROVE AllNoted
  BY DEF Init, AllNoted, Noted, Busy, Idle

\* A step of another request, or of none.
LEMMA NotedUnchanged ==
  ASSUME NEW p \in Operator, Noted(p), UNCHANGED <<available, approved>>,
         req'[p] = req[p], since'[p] = since[p]
  PROVE  Noted(p)'
  BY DEF Noted, NodesNoted, ReadNoted, Named, Busy, Carries

\* A request that begins notes what its nodes carry.
LEMMA BeginNotes ==
  ASSUME TypeOK, AllNoted, NEW o \in Operator, NEW op, NEW cidr, NEW nodes \in SUBSET Node,
         Begin(o, op, cidr, nodes)
  PROVE  AllNoted'
<1> SUFFICES ASSUME NEW p \in Operator PROVE Noted(p)'
  BY DEF AllNoted
<1>1. Noted(p) /\ UNCHANGED <<available, approved>>
  BY DEF AllNoted, Begin, headscale
<1>2. CASE p # o
  BY <1>1, <1>2, NotedUnchanged DEF Begin, TypeOK
<1>3. CASE p = o
  <2>1. req'[o] = [Idle EXCEPT !.pc = "next", !.op = op, !.cidr = cidr, !.left = nodes]
    BY DEF Begin, TypeOK
  <2>2. req'[o].pc = "next" /\ req'[o].left = nodes /\ req'[o].at = None
    BY <2>1 DEF Idle
  <2>3. Named(o)' = nodes
    BY <2>2, RoutesAssumption DEF Named
  <2>4. \A n \in nodes : since'[o][n] = Carries(Now[n])
    BY DEF Begin, TypeOK
  <2>5. \A n \in nodes : available'[n] \cup approved'[n] \subseteq since'[o][n]
    BY <1>1, <2>4 DEF Carries, Now
  <2> QED
    BY <1>3, <2>2, <2>3, <2>5 DEF Noted, NodesNoted, ReadNoted
<1> QED
  BY <1>2, <1>3

LEMMA ClickNotes == ASSUME TypeOK, AllNoted, NEW o \in Operator, Click(o) PROVE AllNoted'
<1>1. CASE \E n \in Node : ClickExit(o, n)
  BY <1>1, BeginNotes DEF ClickExit
<1>2. CASE \E n \in Node, cidr \in Subnet : ClickRow(o, n, cidr)
  BY <1>2, BeginNotes DEF ClickRow
<1>3. CASE \E nodes \in SUBSET Node : ApproveAll(o, nodes)
  BY <1>3, BeginNotes DEF ApproveAll
<1> QED
  BY <1>1, <1>2, <1>3 DEF Click

\* The read is of what the node carries, which is noted.
LEMMA ReadNotes ==
  ASSUME TypeOK, AllNoted, NEW o \in Operator, NEW n \in Node, Read(o, n)
  PROVE  AllNoted'
<1> SUFFICES ASSUME NEW p \in Operator PROVE Noted(p)'
  BY DEF AllNoted
<1>1. Noted(p) /\ UNCHANGED <<available, approved, since>>
  BY DEF AllNoted, Read, headscale
<1>2. CASE p # o
  BY <1>1, <1>2, NotedUnchanged DEF Read, TypeOK
<1>3. CASE p = o
  <2>1. /\ req[o].pc = "next" /\ n \in req[o].left
        /\ req[o].op = "approve" => req[o].cidr \in available[n]
    BY DEF Read
  <2>2. req'[o] = [req[o] EXCEPT !.pc = "write", !.at = n, !.left = @ \ {n}, !.seen = Now[n]]
    BY DEF Read, TypeOK
  <2>3. /\ req'[o].pc = "write" /\ req'[o].at = n /\ req'[o].left = req[o].left \ {n}
        /\ req'[o].seen = Now[n] /\ req'[o].op = req[o].op /\ req'[o].cidr = req[o].cidr
    BY <2>2 DEF TypeOK, Request
  <2>4. NodesNoted(o)'
    BY <1>1, <1>3, <2>1, <2>3 DEF Noted, NodesNoted, Named, Busy
  <2>5. n \in Named(o)
    BY <2>1 DEF Named
  <2>6. Carries(Now[n]) \subseteq since[o][n] /\ Now[n].available = available[n]
    BY <1>1, <1>3, <2>1, <2>5 DEF Noted, NodesNoted, Busy, Carries, Now
  <2>7. ReadNoted(o)'
    BY <1>1, <2>1, <2>3, <2>6 DEF ReadNoted, Carries
  <2> QED
    BY <1>3, <2>4, <2>7 DEF Noted
<1> QED
  BY <1>2, <1>3

\* A write is noted by whoever names the node it is of.
LEMMA WriteNotes ==
  ASSUME TypeOK, AllNoted, NEW o \in Operator, Write(o) \/ Land(o)
  PROVE  AllNoted'
<1> SUFFICES ASSUME NEW p \in Operator PROVE Noted(p)'
  BY DEF AllNoted
<1>1. Noted(p) /\ req[o].at \in Node /\ NewSet(o) \in SUBSET Route
  BY NewSetType DEF AllNoted, Write, Land
<1>2. \A m \in Node : available'[m] \cup approved'[m]
                      \subseteq available[m] \cup approved[m]
                                  \cup (IF m = req[o].at THEN NewSet(o) ELSE {})
  BY <1>1 DEF Write, Land, SetApproved, TypeOK
<1>3. CASE p # o
  <2>0. Carried(req[o].at, NewSet(o)) \in [Operator -> [Node -> SUBSET Route]]
    BY <1>1, CarriedType
  <2>1. req'[p] = req[p] /\ since'[p] = Carried(req[o].at, NewSet(o))[p]
    <3>1. CASE Write(o)
      BY <1>3, <3>1 DEF Write, TypeOK
    <3>2. CASE Land(o)
      BY <1>3, <2>0, <3>2 DEF Land, Refused, TypeOK
    <3> QED
      BY <3>1, <3>2
  <2> QED
    BY <1>1, <1>2, <2>1, CarriedNotes
<1>4. CASE p = o /\ Write(o)
  <2>1. since'[p] = Carried(req[o].at, NewSet(o))[p] /\ Busy(p)
    BY <1>4 DEF Write, Busy
  <2>2. req'[p] = [req[o] EXCEPT !.pc = "next", !.at = None, !.seen = NoView,
                                 !.wrote = @ \cup {req[o].at}]
    BY <1>4 DEF Write, TypeOK
  <2>3. req'[p].pc = "next" /\ req'[p].left = req[p].left /\ req'[p].at = None
    BY <1>4, <2>2 DEF TypeOK, Request
  <2> QED
    BY <1>1, <1>2, <2>1, <2>3, CarriedNotes
<1>5. CASE p = o /\ Land(o)
  <2>1. req'[p].pc = "failed"
    BY <1>5, RefusedType DEF Land, TypeOK
  <2> QED
    BY <2>1 DEF Noted, Busy
<1> QED
  BY <1>3, <1>4, <1>5

LEMMA OutsideNotes ==
  ASSUME TypeOK, AllNoted, NEW n \in Node, NEW r \in Route, Advertise(n, r) \/ OutOfBand(n, r)
  PROVE  AllNoted'
<1> SUFFICES ASSUME NEW p \in Operator PROVE Noted(p)'
  BY DEF AllNoted
<1>1. Noted(p) /\ req'[p] = req[p]
  BY DEF AllNoted, Advertise, OutOfBand
<1>2. CASE Advertise(n, r)
  <2>1. available'[n] \in SUBSET Route
    BY <1>2, OutsideType DEF TypeOK
  <2>2. \A m \in Node : available'[m] \cup approved'[m]
                        \subseteq available[m] \cup approved[m]
                                    \cup (IF m = n THEN available'[n] ELSE {})
    BY <1>2 DEF Advertise, TypeOK
  <2>3. since'[p] = Carried(n, available'[n])[p]
    BY <1>2 DEF Advertise
  <2> QED
    BY <1>1, <2>1, <2>2, <2>3, CarriedNotes
<1>3. CASE OutOfBand(n, r)
  <2>1. approved'[n] \in SUBSET Route
    BY <1>3, OutsideType DEF TypeOK
  <2>2. \A m \in Node : available'[m] \cup approved'[m]
                        \subseteq available[m] \cup approved[m]
                                    \cup (IF m = n THEN approved'[n] ELSE {})
    BY <1>3 DEF OutOfBand, SetApproved, TypeOK
  <2>3. since'[p] = Carried(n, approved'[n])[p]
    BY <1>3 DEF OutOfBand
  <2> QED
    BY <1>1, <2>1, <2>2, <2>3, CarriedNotes
<1> QED
  BY <1>2, <1>3

\* The remaining steps end a request, or change only its program counter.
LEMMA QuietNotes ==
  ASSUME TypeOK, AllNoted, NEW o \in Operator,
         Render(o) \/ GiveUp(o) \/ Fail(o) \/ Succeed(o)
  PROVE  AllNoted'
<1> SUFFICES ASSUME NEW p \in Operator PROVE Noted(p)'
  BY DEF AllNoted
<1>1. Noted(p) /\ UNCHANGED <<available, approved>>
  BY DEF AllNoted, Render, GiveUp, Fail, Succeed, headscale
<1>2. CASE p # o
  <2>1. req'[p] = req[p] /\ since'[p] = since[p]
    BY <1>2 DEF Render, GiveUp, Fail, Succeed, Refused, TypeOK
  <2> QED
    BY <1>1, <2>1, NotedUnchanged
<1>3. CASE p = o /\ GiveUp(o)
  <2>1. /\ req[p].pc = "write" /\ req'[p] = [req[p] EXCEPT !.pc = "late"] /\ since' = since
    BY <1>3 DEF GiveUp, TypeOK
  <2>2. /\ req'[p].at = req[p].at /\ req'[p].left = req[p].left /\ req'[p].seen = req[p].seen
        /\ req'[p].op = req[p].op /\ req'[p].cidr = req[p].cidr
    BY <2>1 DEF TypeOK, Request
  <2> QED
    BY <1>1, <2>1, <2>2 DEF Noted, NodesNoted, ReadNoted, Named, Busy, Carries
<1>4. CASE p = o /\ (Render(o) \/ Fail(o) \/ Succeed(o))
  <2>1. Idle.pc = "idle"
    BY DEF Idle
  <2>2. req'[p].pc \in {"idle", "failed"}
    BY <1>4, <2>1, RefusedType DEF Render, Fail, Succeed, TypeOK
  <2> QED
    BY <2>2 DEF Noted, Busy
<1> QED
  BY <1>2, <1>3, <1>4

LEMMA NotedStep == ASSUME TypeOK, AllNoted, [Next]_vars PROVE AllNoted'
<1>1. CASE \E o \in Operator : Render(o) \/ Click(o) \/ Serve(o)
  <2>1. PICK o \in Operator : Render(o) \/ Click(o) \/ Serve(o)
    BY <1>1
  <2>2. CASE \E n \in Node : Read(o, n)
    BY <2>2, ReadNotes
  <2> QED
    BY <2>1, <2>2, ClickNotes, WriteNotes, QuietNotes DEF Serve
<1>2. CASE \E n \in Node, r \in Route : Advertise(n, r) \/ OutOfBand(n, r)
  BY <1>2, OutsideNotes
<1>3. CASE UNCHANGED vars
  BY <1>3, NotedUnchanged DEF vars, headscale, AllNoted
<1> QED
  BY <1>1, <1>2, <1>3 DEF Next

-----------------------------------------------------------------------------
(* What a write changes                                                    *)

\* A step that replaces the set of the node a request is at is that request's write.
LEMMA WriteIs ==
  ASSUME TypeOK, Next, NEW o \in Operator, NEW n \in Node, Writes(o, n)
  PROVE  (Write(o) \/ Land(o)) /\ approved'[n] = NewSet(o)
<1>1. /\ req[o].pc \in {"write", "late"} /\ req[o].at = n /\ approved'[n] # approved[n]
      /\ req'[o] # req[o]
  BY RoutesAssumption DEF Writes
<1>2. ASSUME NEW p \in Operator, p # o, Write(p) \/ Land(p) PROVE FALSE
  BY <1>1, <1>2 DEF Write, Land, Refused, TypeOK
<1>3. Write(o) \/ Land(o)
  BY <1>1, <1>2 DEF Next, Click, Serve, Render, ClickExit, ClickRow, ApproveAll, Begin, Read,
                    GiveUp, Fail, Succeed, Advertise, OutOfBand, headscale
<1>4. approved'[n] = NewSet(o)
  BY <1>1, <1>3 DEF Write, Land, SetApproved, TypeOK
<1> QED
  BY <1>3, <1>4

\* However old the board, and whatever the nodes, the CLI and other operators do
\* meanwhile, a write of setRouteApproval, setExitApproval or approveAllPending
\* approves nothing its node has not carried since the request began.
THEOREM CarriedOnly == Spec => OnlyCarried
<1> DEFINE Sound == \A o \in Operator, n \in Node :
                      Writes(o, n) => approved'[n] \ approved[n] \subseteq since[o][n]
<1>1. Init => AllNoted
  BY NotedInit
<1>2. TypeOK /\ AllNoted /\ [Next]_vars => AllNoted'
  BY NotedStep
<1>3. TypeOK /\ AllNoted /\ [Next]_vars => [Sound]_vars
  <2> SUFFICES ASSUME TypeOK, AllNoted, Next, NEW o \in Operator, NEW n \in Node, Writes(o, n)
               PROVE  approved'[n] \subseteq since[o][n]
    OBVIOUS
  <2>1. req[o].pc \in {"write", "late"} /\ req[o].at = n /\ approved'[n] = NewSet(o)
    BY WriteIs DEF Writes
  <2> QED
    BY <2>1, NewSetNoted DEF AllNoted
<1> QED
  BY <1>1, <1>2, <1>3, TypeCorrect, PTL DEF Spec, OnlyCarried

\* With the default routes approved together or not at all, a row stands for
\* exactly what is approved.
LEMMA RowsAreExact ==
  ASSUME NEW v \in View, Together(v)
  PROVE  /\ ApprovedCidrs(v) = v.approved /\ Kept(v, v) = v.approved
         /\ PendingCidrs(v) \cap Carries(v) = Carries(v) \ v.approved
<1>1. v.approved \cap Default = {} \/ v.approved \cap Default = Carries(v) \cap Default
  BY DEF Together
<1>2. ApprovedCidrs(v) = v.approved
  BY <1>1 DEF ApprovedCidrs, ExitApproved
<1> QED
  BY <1>2 DEF Kept, PendingCidrs, Carries

\* When board and read still agree with Headscale, the whole-set write of each
\* action is the change that was asked for, one route at a time, and the node's
\* other approvals are preserved.
THEOREM UndisturbedExact == Spec => UndisturbedIsExact
<1> DEFINE Exact == \A o \in Operator, n \in Node :
                      Writes(o, n) /\ Undisturbed(o, n) /\ Together(Now[n]) =>
                        approved'[n] = Asked(req[o].op, req[o].cidr, Now[n])
<1>1. TypeOK /\ [Next]_vars => [Exact]_vars
  <2> SUFFICES ASSUME TypeOK, Next, NEW o \in Operator, NEW n \in Node, Writes(o, n),
                      Undisturbed(o, n), Together(Now[n])
               PROVE  approved'[n] = Asked(req[o].op, req[o].cidr, Now[n])
    OBVIOUS
  <2> DEFINE v == Now[n]
  <2>1. approved'[n] = NewSet(o) /\ req[o].at = n
    BY WriteIs DEF Writes
  <2>2. v \in View /\ Together(v) /\ req[o].seen = v
    BY NowType DEF Undisturbed
  <2>3. req[o].op \notin {"exitOn", "exitOff"} => board[o][n] = v
    BY DEF Undisturbed
  <2> HIDE DEF v
  <2>4. /\ Kept(v, v) = v.approved
        /\ Kept(v, v) \cup (PendingCidrs(v) \cap Carries(v)) = v.approved \cup v.available
    BY <2>2, RowsAreExact DEF Carries
  <2>5. NewSet(o) = Asked(req[o].op, req[o].cidr, v)
    BY <2>1, <2>2, <2>3, <2>4 DEF NewSet, Asked
  <2> QED
    BY <2>1, <2>5 DEF v
<1> QED
  BY <1>1, TypeCorrect, PTL DEF Spec, UndisturbedIsExact
=============================================================================
