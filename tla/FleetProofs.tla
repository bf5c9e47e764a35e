---------------------------- MODULE FleetProofs -----------------------------
(***************************************************************************)
(* Theorems about Fleet for any number of tabs and nodes, any number of    *)
(* lives of an id and any MAX_SELECT: its types, that metadata follows its *)
(* node, and that what is selected is shown.                               *)
(***************************************************************************)
EXTENDS Fleet, FiniteSetTheorems, TLAPS

-----------------------------------------------------------------------------
(* The list: selections stay within it, and within MAX_SELECT.             *)

LEMMA SelectionBound ==
  ASSUME NEW S \in SUBSET Node, NEW T \in SUBSET S, Cardinality(S) <= MaxSelect
  PROVE  Cardinality(T) <= MaxSelect
<1>1. IsFiniteSet(S)
  BY FS_Subset, FleetAssumption
<1>2. Cardinality(T) <= Cardinality(S) /\ Cardinality(T) \in Nat /\ Cardinality(S) \in Nat
  BY <1>1, FS_Subset, FS_CardinalityType
<1> QED
  BY <1>2, FleetAssumption

LEMMA SelectionCount ==
  ASSUME NEW S \in SUBSET Node
  PROVE  Cardinality(S) \in Nat
  BY FS_Subset, FS_CardinalityType, FleetAssumption

PageOK(p) == p \in Page /\ Cardinality(p.sel) <= MaxSelect

LEMMA OpenedType == ASSUME there \subseteq Node PROVE PageOK(Opened) /\ Opened.sel \subseteq Opened.rows
<1>1. Cardinality({}) = 0
  BY FS_EmptySet
<1> QED
  BY <1>1, FleetAssumption DEF PageOK, Opened, Page

LEMMA ListingType ==
  ASSUME NEW p \in Page, NEW rows \in SUBSET Node, NEW sel \in SUBSET Node,
         Cardinality(sel) <= MaxSelect
  PROVE  PageOK(Listing(p, rows, sel)) /\ Listing(p, rows, sel).sel \subseteq Listing(p, rows, sel).rows
<1> DEFINE q == Listing(p, rows, sel)
<1>1. q \in Page /\ q.sel = sel \cap rows /\ q.rows = rows
  BY DEF Listing, Page
<1>2. Cardinality(sel \cap rows) <= MaxSelect
  BY SelectionBound
<1> QED
  BY <1>1, <1>2 DEF PageOK

\* A step that leaves the pages well formed and their selections shown.
LEMMA PageStep ==
  ASSUME TypeOK, SelectionIsShown, NEW t \in Tab, NEW p,
         tab' = [tab EXCEPT ![t] = p], PageOK(p), p.sel \subseteq p.rows
  PROVE  /\ tab' \in [Tab -> Page]
         /\ \A u \in Tab : Cardinality(tab'[u].sel) <= MaxSelect
         /\ SelectionIsShown'
  BY DEF TypeOK, PageOK, SelectionIsShown

-----------------------------------------------------------------------------
(* What the actions of the browser do to the pages                         *)

Listed ==
  /\ tab \in [Tab -> Page]
  /\ \A u \in Tab : Cardinality(tab[u].sel) <= MaxSelect
  /\ SelectionIsShown

LEMMA BrowseListed ==
  ASSUME TypeOK, SelectionIsShown, NEW t \in Tab, Browse(t)
  PROVE  Listed'
<1> USE DEF Listed
<1>0. /\ there \subseteq Node /\ tab[t] \in Page /\ tab \in [Tab -> Page]
      /\ Cardinality(tab[t].sel) <= MaxSelect /\ tab[t].sel \subseteq tab[t].rows
      /\ tab[t].rows \in SUBSET Node /\ tab[t].sel \in SUBSET Node
  BY DEF TypeOK, SelectionIsShown, Page
<1>1. CASE Visit(t)
  BY <1>0, <1>1, OpenedType, PageStep DEF Visit
<1>2. CASE Show(t)
  <2>1. PICK rows \in (SUBSET tab[t].rows) \cup (SUBSET there) :
          tab' = [tab EXCEPT ![t] = Listing(tab[t], rows, tab[t].sel)]
    BY <1>0, <1>2 DEF Show
  <2>2. rows \in SUBSET Node
    BY <1>0
  <2>3. /\ PageOK(Listing(tab[t], rows, tab[t].sel))
        /\ Listing(tab[t], rows, tab[t].sel).sel \subseteq Listing(tab[t], rows, tab[t].sel).rows
    BY <1>0, <2>2, ListingType
  <2> QED
    BY <2>1, <2>3, PageStep
<1>3. CASE Tick(t)
  <2>1. PICK sel \in SUBSET tab[t].rows :
          /\ Cardinality(sel) <= MaxSelect
          /\ tab' = [tab EXCEPT ![t] = Listing(tab[t], tab[t].rows, sel)]
    BY <1>0, <1>3 DEF Tick
  <2>2. sel \in SUBSET Node
    BY <1>0
  <2>3. /\ PageOK(Listing(tab[t], tab[t].rows, sel))
        /\ Listing(tab[t], tab[t].rows, sel).sel \subseteq Listing(tab[t], tab[t].rows, sel).rows
    BY <1>0, <2>1, <2>2, ListingType
  <2> QED
    BY <2>1, <2>3, PageStep
<1>4. CASE CloseDialog(t)
  <2> DEFINE p == [tab[t] EXCEPT !.dialog = None,
                                 !.typed = IF tab[t].dialog = "delete" THEN 0 ELSE @]
  <2>1. p \in Page /\ p.sel = tab[t].sel /\ p.rows = tab[t].rows
    BY <1>0 DEF Page
  <2>2. tab' = [tab EXCEPT ![t] = p]
    BY <1>0, <1>4 DEF CloseDialog
  <2> HIDE DEF p
  <2> QED
    BY <1>0, <2>1, <2>2, PageStep DEF PageOK
<1>5. CASE Type(t)
  <2> DEFINE p == [tab[t] EXCEPT !.typed = Cardinality(tab[t].sel)]
  <2>1. p \in Page /\ p.sel = tab[t].sel /\ p.rows = tab[t].rows
    BY <1>0, SelectionCount DEF Page
  <2>2. tab' = [tab EXCEPT ![t] = p]
    BY <1>0, <1>5 DEF Type
  <2> HIDE DEF p
  <2> QED
    BY <1>0, <2>1, <2>2, PageStep DEF PageOK
<1>6. CASE \E op \in Op : OpenDialog(t, op)
  <2>1. PICK op \in Op : OpenDialog(t, op)
    BY <1>6
  <2> DEFINE p == [tab[t] EXCEPT !.dialog = op]
  <2>2. p \in Page /\ p.sel = tab[t].sel /\ p.rows = tab[t].rows
    BY <1>0 DEF Page
  <2>3. tab' = [tab EXCEPT ![t] = p]
    BY <1>0, <2>1 DEF OpenDialog
  <2> HIDE DEF p
  <2> QED
    BY <1>0, <2>2, <2>3, PageStep DEF PageOK
<1>7. CASE UNCHANGED tab
  BY <1>7 DEF TypeOK, SelectionIsShown
<1> QED
  BY <1>1, <1>2, <1>3, <1>4, <1>5, <1>6, <1>7 DEF Browse, Confirm, One

LEMMA ServeListed ==
  ASSUME TypeOK, SelectionIsShown, NEW t \in Tab, Serve(t)
  PROVE  Listed'
<1> USE DEF Listed
<1>0. /\ there \subseteq Node /\ tab[t] \in Page /\ tab \in [Tab -> Page]
      /\ Cardinality(tab[t].sel) <= MaxSelect /\ tab[t].sel \subseteq tab[t].rows
      /\ tab[t].rows \in SUBSET Node /\ tab[t].sel \in SUBSET Node
  BY DEF TypeOK, SelectionIsShown, Page
<1>1. CASE Deliver(t)
  <2> DEFINE r == req[t]
             p == IF r.many THEN [tab[t] EXCEPT !.dialog = None] ELSE tab[t]
             sel == IF r.many THEN tab[t].sel \ r.ok ELSE tab[t].sel
  <2>1. p \in Page
    BY <1>0 DEF Page
  <2>2. sel \in SUBSET tab[t].sel /\ sel \in SUBSET Node
    BY <1>0
  <2>3. Cardinality(sel) <= MaxSelect
    BY <1>0, <2>2, SelectionBound
  <2>4. \E rows \in SUBSET Node : tab' = [tab EXCEPT ![t] = Listing(p, rows, sel)]
    <3>1. \A rows \in (IF r.many \/ r.ok # {} THEN SUBSET there ELSE {tab[t].rows}) :
            rows \in SUBSET Node
      BY <1>0
    <3> QED
      BY <1>1, <3>1 DEF Deliver
  <2>5. PICK rows \in SUBSET Node : tab' = [tab EXCEPT ![t] = Listing(p, rows, sel)]
    BY <2>4
  <2> HIDE DEF p, sel, r
  <2>6. PageOK(Listing(p, rows, sel))
        /\ Listing(p, rows, sel).sel \subseteq Listing(p, rows, sel).rows
    BY <2>1, <2>2, <2>3, ListingType
  <2> QED
    BY <2>5, <2>6, PageStep
<1>2. CASE Rejected(t)
  <2> DEFINE p == [tab[t] EXCEPT !.dialog = IF req[t].many THEN None ELSE @]
  <2>1. p \in Page /\ p.sel = tab[t].sel /\ p.rows = tab[t].rows
    BY <1>0 DEF Page
  <2>2. tab' = [tab EXCEPT ![t] = p]
    BY <1>0, <1>2 DEF Rejected
  <2> HIDE DEF p
  <2> QED
    BY <1>0, <2>1, <2>2, PageStep DEF PageOK
<1>3. CASE Unheard(t)
  BY <1>0, <1>3, OpenedType, PageStep DEF Unheard
<1>4. CASE UNCHANGED tab
  BY <1>4 DEF TypeOK, SelectionIsShown
<1> QED
  BY <1>1, <1>2, <1>3, <1>4 DEF Serve, Admitted, Answered, GivenUp

LEMMA StepListed ==
  ASSUME TypeOK, SelectionIsShown, [Next]_vars
  PROVE  Listed'
<1> USE DEF Listed
<1>1. CASE UNCHANGED tab
  BY <1>1 DEF TypeOK, SelectionIsShown
<1>2. CASE Restart
  <2>1. PageOK(Opened) /\ Opened.sel \subseteq Opened.rows
    BY OpenedType DEF TypeOK
  <2> QED
    BY <1>2, <2>1 DEF Restart, TypeOK, SelectionIsShown, PageOK
<1>3. ASSUME NEW t \in Tab, Browse(t) PROVE Listed'
  BY <1>3, BrowseListed
<1>4. ASSUME NEW t \in Tab, Serve(t) PROVE Listed'
  BY <1>4, ServeListed
<1> QED
  BY <1>1, <1>2, <1>3, <1>4
  DEF Next, Others, Apply, local, headscale, Clear, Enrol, Gone, Save, vars

-----------------------------------------------------------------------------
(* Requests: GoesOn, the one step from node to node                        *)

\* What GoesOn asks of the request it is given.
Placed(r) ==
  /\ r \in Request
  /\ r.todo \cap (r.ok \cup r.failed) = {} /\ r.ok \cap r.failed = {}

LEMMA GoesOnType ==
  ASSUME TypeOK, NEW t \in Tab, NEW r, Placed(r), NEW lost \in SUBSET Node,
         GoesOn(t, r, lost)
  PROVE  /\ \E q \in Request : /\ req' = [req EXCEPT ![t] = q] /\ RequestOK(q)
                              /\ q.op = r.op /\ q.ok = r.ok
                              /\ \/ q.at = "render" /\ r.todo = {} /\ Finish(t, r, lost)
                                 \/ /\ q.at = "call" /\ UNCHANGED note
                                    /\ stray' = stray \cup Noted(lost)
         /\ note' \in [Node -> 0..MaxLives] /\ stray' \subseteq Node
<1>0. note \in [Node -> 0..MaxLives] /\ stray \subseteq Node /\ 0 \in 0..MaxLives
  BY FleetAssumption DEF TypeOK
<1>1. CASE r.todo = {} /\ Finish(t, r, lost)
  <2> DEFINE q == [r EXCEPT !.at = "render", !.now = None, !.took = FALSE]
  <2>1. /\ q \in Request /\ RequestOK(q) /\ q.op = r.op /\ q.ok = r.ok /\ q.at = "render"
    <3>1. /\ q \in Request /\ q.op = r.op /\ q.ok = r.ok /\ q.at = "render" /\ q.now = None
          /\ q.took = FALSE /\ q.todo = {} /\ q.failed = r.failed
      BY <1>1 DEF Placed, Request
    <3>2. None \notin q.ok \cup q.failed
      BY <3>1, FleetAssumption DEF Request
    <3> HIDE DEF q
    <3> QED
      BY <3>1, <3>2 DEF Placed, RequestOK
  <2>2. req' = [req EXCEPT ![t] = q]
    BY <1>1 DEF Finish
  <2>3. note' \in [Node -> 0..MaxLives] /\ stray' \subseteq Node
    BY <1>0, <1>1 DEF Finish, CleanUp, Noted, Placed, Request, local
  <2> HIDE DEF q
  <2> QED
    BY <1>1, <2>1, <2>2, <2>3
<1>2. ASSUME NEW n \in r.todo,
             req' = [req EXCEPT ![t] = [r EXCEPT !.todo = @ \ {n}, !.now = n,
                                                 !.at = "call", !.took = FALSE]],
             stray' = stray \cup Noted(lost), UNCHANGED note
      PROVE  /\ \E q \in Request : /\ req' = [req EXCEPT ![t] = q] /\ RequestOK(q)
                                  /\ q.op = r.op /\ q.ok = r.ok /\ q.at = "call"
             /\ note' \in [Node -> 0..MaxLives] /\ stray' \subseteq Node
  <2> DEFINE q == [r EXCEPT !.todo = @ \ {n}, !.now = n, !.at = "call", !.took = FALSE]
  <2>1. n \in Node /\ n # None
    BY FleetAssumption DEF Placed, Request
  <2>2. /\ q \in Request /\ RequestOK(q) /\ q.op = r.op /\ q.ok = r.ok /\ q.at = "call"
    <3>1. /\ q \in Request /\ q.op = r.op /\ q.ok = r.ok /\ q.at = "call" /\ q.now = n
          /\ q.took = FALSE /\ q.todo = r.todo \ {n} /\ q.failed = r.failed
      BY <2>1 DEF Placed, Request
    <3> HIDE DEF q
    <3> QED
      BY <2>1, <3>1 DEF Placed, RequestOK
  <2>3. req' = [req EXCEPT ![t] = q]
    BY <1>2
  <2>4. note' \in [Node -> 0..MaxLives] /\ stray' \subseteq Node
    BY <1>0, <1>2 DEF Noted
  <2> HIDE DEF q
  <2> QED
    BY <1>2, <2>2, <2>3, <2>4
<1> QED
  BY <1>1, <1>2 DEF GoesOn

-----------------------------------------------------------------------------
(* Requests and stored rows keep their types.                              *)

Requested ==
  /\ req \in [Tab -> Request \cup {None}]
  /\ \A u \in Tab : req[u] # None => RequestOK(req[u])

Stored ==
  /\ there \subseteq Node /\ stray \subseteq Node
  /\ life \in [Node -> 0..MaxLives] /\ note \in [Node -> 0..MaxLives]

LEMMA RequestStep ==
  ASSUME TypeOK, NEW t \in Tab, NEW q, req' = [req EXCEPT ![t] = q],
         q = None \/ (q \in Request /\ RequestOK(q))
  PROVE  Requested'
  BY DEF TypeOK, Requested

LEMMA AskingType ==
  ASSUME NEW op \in Op, NEW many \in BOOLEAN, NEW nodes \in SUBSET Node
  PROVE  Asking(op, many, nodes) \in Request /\ RequestOK(Asking(op, many, nodes))
<1> DEFINE q == Asking(op, many, nodes)
<1>1. /\ q \in Request /\ q.at = "gate" /\ q.now = None /\ q.took = FALSE
      /\ q.todo = nodes /\ q.ok = {} /\ q.failed = {}
  BY DEF Asking, Request
<1>2. None \notin nodes
  BY FleetAssumption
<1> HIDE DEF q
<1> QED
  BY <1>1, <1>2 DEF RequestOK, q

LEMMA BrowseType == ASSUME TypeOK, NEW t \in Tab, Browse(t) PROVE Requested' /\ Stored'
<1>0. tab[t].sel \in SUBSET Node /\ tab[t].dialog \in Op \cup {None} /\ UNCHANGED <<headscale, local>>
  BY DEF TypeOK, Page, Browse, Visit, Show, Tick, CloseDialog, Type, Confirm, OpenDialog, One
<1>1. Stored'
  BY <1>0 DEF TypeOK, Stored, headscale, local
<1>2. CASE Confirm(t)
  <2>1. tab[t].dialog \in Op
    BY <1>0, <1>2 DEF Confirm
  <2> QED
    BY <1>0, <1>1, <1>2, <2>1, AskingType, RequestStep DEF Confirm
<1>3. CASE \E op \in Op, n \in Node : One(t, op, n)
  BY <1>1, <1>3, AskingType, RequestStep DEF One
<1>4. CASE UNCHANGED req
  BY <1>1, <1>4 DEF TypeOK, Requested
<1> QED
  BY <1>2, <1>3, <1>4 DEF Browse, Visit, Show, Tick, CloseDialog, Type, OpenDialog

\* The requests that the three callers of GoesOn give it.
LEMMA CallersPlaced ==
  ASSUME TypeOK, NEW t \in Tab, req[t] # None
  PROVE  /\ req[t].at = "gate" => Placed(req[t]) /\ req[t].ok = {}
         /\ req[t].at = "answer" => Placed(Took(req[t]))
         /\ req[t].at \in {"call", "answer"} =>
              Placed(Failed(req[t])) /\ req[t].now \in Node /\ req[t].now \notin req[t].ok
<1> DEFINE r == req[t]
<1>1. r \in Request /\ RequestOK(r)
  BY DEF TypeOK
<1> HIDE DEF r
<1>2. r.at \in {"call", "answer"} => r.now \in Node /\ r.now \notin r.todo \cup r.ok \cup r.failed
  BY <1>1 DEF Request, RequestOK
<1>3. ASSUME r.at = "answer" PROVE Placed(Took(r))
  <2>1. /\ Took(r) \in Request /\ Took(r).todo = r.todo /\ Took(r).failed = r.failed
        /\ Took(r).ok = r.ok \cup {r.now}
    BY <1>1, <1>2, <1>3 DEF Took, Request
  <2> QED
    BY <1>1, <1>2, <1>3, <2>1 DEF Placed, RequestOK
<1>4. ASSUME r.at \in {"call", "answer"} PROVE Placed(Failed(r))
  <2>1. /\ Failed(r) \in Request /\ Failed(r).todo = r.todo /\ Failed(r).ok = r.ok
        /\ Failed(r).failed = r.failed \cup {r.now}
    BY <1>1, <1>2, <1>4 DEF Failed, Request
  <2> QED
    BY <1>1, <1>2, <1>4, <2>1 DEF Placed, RequestOK
<1> QED
  BY <1>1, <1>2, <1>3, <1>4 DEF r, Placed, RequestOK

LEMMA GoesOnStored ==
  ASSUME TypeOK, NEW t \in Tab, NEW r, Placed(r), NEW lost \in SUBSET Node,
         GoesOn(t, r, lost), UNCHANGED headscale
  PROVE  Requested' /\ Stored'
<1>1. PICK q \in Request : req' = [req EXCEPT ![t] = q] /\ RequestOK(q)
  BY GoesOnType
<1>2. note' \in [Node -> 0..MaxLives] /\ stray' \subseteq Node
  BY GoesOnType
<1> QED
  BY <1>1, <1>2, RequestStep DEF Stored, TypeOK, headscale

LEMMA ServeType == ASSUME TypeOK, NEW t \in Tab, Serve(t) PROVE Requested' /\ Stored'
<1>1. CASE Admitted(t)
  BY <1>1, CallersPlaced, GoesOnStored DEF Admitted
<1>2. CASE Answered(t)
  BY <1>2, CallersPlaced, GoesOnStored DEF Answered
<1>3. CASE GivenUp(t)
  <2> DEFINE lost == {n \in {req[t].now} : req[t].at = "answer" /\ req[t].took /\ req[t].op = "delete"}
  <2>1. Placed(Failed(req[t])) /\ lost \in SUBSET Node
    BY <1>3, CallersPlaced DEF GivenUp
  <2>2. GoesOn(t, Failed(req[t]), lost) /\ UNCHANGED headscale
    BY <1>3 DEF GivenUp
  <2> HIDE DEF lost
  <2> QED
    BY <2>1, <2>2, GoesOnStored
<1>4. CASE Rejected(t) \/ Deliver(t) \/ Unheard(t)
  BY <1>4, RequestStep DEF Rejected, Deliver, Unheard, TypeOK, Stored, headscale, local
<1> QED
  BY <1>1, <1>2, <1>3, <1>4 DEF Serve

LEMMA ApplyType == ASSUME TypeOK, NEW t \in Tab, Apply(t) PROVE Requested' /\ Stored'
<1>1. PICK took \in BOOLEAN :
        /\ took => req[t].now \in there
        /\ req' = [req EXCEPT ![t].at = "answer", ![t].took = took]
        /\ there' = IF took /\ req[t].op = "delete" THEN there \ {req[t].now} ELSE there
  BY DEF Apply
<1> DEFINE q == [req[t] EXCEPT !.at = "answer", !.took = took]
<1>2. req[t] \in Request /\ RequestOK(req[t]) /\ req[t].at = "call"
  BY DEF Apply, TypeOK
<1>3. /\ q \in Request /\ q.at = "answer" /\ q.now = req[t].now /\ q.todo = req[t].todo
      /\ q.ok = req[t].ok /\ q.failed = req[t].failed
  BY <1>2 DEF Request
<1>4. req' = [req EXCEPT ![t] = q]
  BY <1>1, <1>2 DEF TypeOK
<1> HIDE DEF q
<1>5. RequestOK(q)
  BY <1>2, <1>3 DEF RequestOK
<1>6. Requested'
  BY <1>3, <1>4, <1>5, RequestStep
<1> QED
  BY <1>1, <1>6 DEF Apply, TypeOK, Stored, local

LEMMA OthersType == ASSUME TypeOK, NEW n \in Node, Others(n) PROVE Requested' /\ Stored'
<1>0. UNCHANGED req /\ 0 \in 0..MaxLives
  BY FleetAssumption DEF Others, Clear, Enrol, Gone, Save
<1>1. Requested'
  BY <1>0 DEF TypeOK, Requested
<1>2. CASE Clear(n)
  BY <1>0, <1>1, <1>2 DEF Clear, TypeOK, Stored, headscale
<1>3. CASE Enrol(n)
  <2>1. life[n] + 1 \in 0..MaxLives
    BY <1>3, FleetAssumption DEF Enrol, TypeOK
  <2> QED
    BY <1>1, <1>3, <2>1 DEF Enrol, TypeOK, Stored, local
<1>4. CASE Gone(n)
  BY <1>1, <1>4 DEF Gone, TypeOK, Stored, Noted
<1>5. CASE \E l \in Life : Save(n, l)
  <2>1. PICK l \in Life : Save(n, l)
    BY <1>5
  <2>2. l \in 0..MaxLives
    BY FleetAssumption DEF Life
  <2> QED
    BY <1>1, <2>1, <2>2 DEF Save, TypeOK, Stored, headscale
<1> QED
  BY <1>2, <1>3, <1>4, <1>5 DEF Others

LEMMA RestartType == ASSUME TypeOK, Restart PROVE Requested' /\ Stored'
<1>1. \A S : Noted(S) \subseteq S
  BY DEF Noted
<1>2. UNION {Owed(u) : u \in Tab} \subseteq Node
  <2>1. ASSUME NEW u \in Tab PROVE Owed(u) \subseteq Node
    <3>1. CASE req[u] = None
      BY <3>1 DEF Owed
    <3>2. CASE req[u] # None
      BY <3>2, CallersPlaced DEF Owed, TypeOK, Request
    <3> QED
      BY <3>1, <3>2
  <2> QED
    BY <2>1
<1>3. stray' \subseteq Node
  <2> DEFINE S == UNION {Owed(u) : u \in Tab}
  <2>1. stray' = stray \cup Noted(S) /\ S \subseteq Node
    BY <1>2 DEF Restart
  <2> HIDE DEF S
  <2> QED
    BY <1>1, <2>1 DEF TypeOK
<1> QED
  BY <1>3 DEF Restart, TypeOK, Requested, Stored

LEMMA TypeStep ==
  ASSUME TypeOK, SelectionIsShown, [Next]_vars
  PROVE  TypeOK' /\ SelectionIsShown'
<1>1. Requested' /\ Stored'
  <2>1. CASE UNCHANGED vars
    BY <2>1 DEF TypeOK, Requested, Stored, vars
  <2> QED
    BY <2>1, BrowseType, ServeType, ApplyType, OthersType, RestartType DEF Next
<1>2. Listed'
  BY StepListed
<1> QED
  BY <1>1, <1>2 DEF Requested, Stored, Listed, TypeOK

LEMMA InitType == ASSUME Init PROVE TypeOK /\ SelectionIsShown
<1>1. there \subseteq Node /\ PageOK(Opened) /\ Opened.sel \subseteq Opened.rows
  BY OpenedType DEF Init
<1>2. life \in [Node -> 0..MaxLives] /\ note \in [Node -> 0..MaxLives]
  <2>1. 0 \in 0..MaxLives /\ 1 \in 0..MaxLives /\ \A i \in 0..1 : i \in 0..MaxLives
    BY FleetAssumption
  <2> QED
    BY <2>1 DEF Init
<1> QED
  BY <1>1, <1>2 DEF Init, TypeOK, PageOK, SelectionIsShown

-----------------------------------------------------------------------------
(* Metadata follows its node.                                              *)

\* A note is in order, known to be left over, or about to be cleaned up.
Kept(n) == note[n] = 0 \/ (n \in there /\ note[n] = life[n]) \/ n \in stray
Due(n) == \E t \in Tab : n \in Owed(t)

LEMMA FollowsMeans == NotesFollowNodes <=> \A n \in Node : Kept(n) \/ Due(n)
  BY DEF NotesFollowNodes, Kept, Due

LEMMA OwedElsewhere ==
  ASSUME TypeOK, NEW t \in Tab, NEW q, req' = [req EXCEPT ![t] = q],
         NEW u \in Tab, u # t
  PROVE  Owed(u)' = Owed(u)
<1>1. req'[u] = req[u]
  BY DEF TypeOK
<1> QED
  BY <1>1 DEF Owed

\* A step that keeps the rows and what every delete owes.
LEMMA OwedKept ==
  ASSUME NotesFollowNodes, UNCHANGED <<there, life, note, stray>>,
         \A u \in Tab : Owed(u) \subseteq Owed(u)'
  PROVE  NotesFollowNodes'
  BY DEF NotesFollowNodes

LEMMA GoesOnFollows ==
  ASSUME TypeOK, NotesFollowNodes, NEW t \in Tab, NEW r, Placed(r),
         NEW lost \in SUBSET Node, GoesOn(t, r, lost), UNCHANGED headscale,
         Owed(t) \subseteq lost \cup (IF r.op = "delete" THEN r.ok ELSE {}),
         r.op = "change" => lost = {}
  PROVE  NotesFollowNodes'
<1>1. PICK q \in Request :
        /\ req' = [req EXCEPT ![t] = q] /\ q.op = r.op /\ q.ok = r.ok
        /\ \/ q.at = "render" /\ Finish(t, r, lost)
           \/ q.at = "call" /\ UNCHANGED note /\ stray' = stray \cup Noted(lost)
  BY GoesOnType
<1>2. UNCHANGED <<there, life>>
  BY DEF headscale
<1>3. SUFFICES ASSUME NEW n \in Node, Kept(n) \/ Due(n) PROVE Kept(n)' \/ Due(n)'
  BY FollowsMeans, <1>2 DEF NotesFollowNodes, Kept, Due
<1>4. ASSUME NEW u \in Tab, u # t, n \in Owed(u) PROVE Due(n)'
  <2>1. n \in Owed(u)'
    BY <1>1, <1>4, OwedElsewhere
  <2> QED
    BY <2>1 DEF Due
<1>5. r.op \in {"change", "delete"}
  BY DEF Placed, Request, Op
<1>6. CASE q.at = "call" /\ UNCHANGED note /\ stray' = stray \cup Noted(lost)
  <2>1. r.op = "delete" => r.ok \subseteq Owed(t)'
    <3>1. req'[t] = q /\ q # None
      BY <1>1, NoneIsNoRequest DEF TypeOK
    <3> QED
      BY <1>1, <1>6, <3>1 DEF Owed
  <2>2. ASSUME n \in Owed(t) PROVE Kept(n)' \/ Due(n)'
    BY <1>2, <1>6, <2>1, <2>2 DEF Kept, Due, Noted
  <2> QED
    BY <1>2, <1>3, <1>4, <1>6, <2>2 DEF Kept, Due
<1>7. CASE Finish(t, r, lost)
  <2>1. n \in stray => Kept(n)'
    BY <1>2, <1>7 DEF Finish, CleanUp, Kept, local, TypeOK
  <2>2. n \in Owed(t) => Kept(n)'
    BY <1>2, <1>5, <1>7 DEF Finish, CleanUp, Kept, local, Noted
  <2>3. Kept(n) => Kept(n)'
    BY <1>2, <1>7, <2>1 DEF Finish, CleanUp, Kept, local
  <2> QED
    BY <1>3, <1>4, <2>2, <2>3 DEF Due
<1> QED
  BY <1>1, <1>6, <1>7

LEMMA ServeFollows ==
  ASSUME TypeOK, NotesFollowNodes, NEW t \in Tab, Serve(t)
  PROVE  NotesFollowNodes'
<1>1. CASE Admitted(t)
  BY <1>1, CallersPlaced, GoesOnFollows DEF Admitted, Owed
<1>2. CASE Answered(t)
  <2> DEFINE r == IF req[t].took THEN Took(req[t]) ELSE Failed(req[t])
  <2>1. req[t] \in Request /\ req[t] # None /\ req[t].at = "answer"
    BY <1>2 DEF Answered, TypeOK
  <2>2. Placed(r) /\ GoesOn(t, r, {}) /\ UNCHANGED headscale
    BY <1>2, CallersPlaced DEF Answered
  <2>3. r.op = req[t].op
        /\ r.ok = IF req[t].took THEN req[t].ok \cup {req[t].now} ELSE req[t].ok
    BY <2>1 DEF Took, Failed, Request
  <2> HIDE DEF r
  <2>4. Owed(t) \subseteq {} \cup (IF r.op = "delete" THEN r.ok ELSE {})
    BY <2>1, <2>3 DEF Owed
  <2> QED
    BY <2>2, <2>4, GoesOnFollows
<1>3. CASE GivenUp(t)
  <2> DEFINE lost == {n \in {req[t].now} : req[t].at = "answer" /\ req[t].took /\ req[t].op = "delete"}
             r == Failed(req[t])
  <2>1. req[t] \in Request /\ req[t] # None /\ req[t].at \in {"call", "answer"}
    BY <1>3 DEF GivenUp, TypeOK
  <2>2. Placed(r) /\ GoesOn(t, r, lost) /\ UNCHANGED headscale /\ lost \in SUBSET Node
    BY <1>3, <2>1, CallersPlaced DEF GivenUp
  <2>3. r.op = req[t].op /\ r.ok = req[t].ok
    BY <2>1 DEF Failed, Request
  <2>4. Owed(t) \subseteq lost \cup (IF r.op = "delete" THEN r.ok ELSE {})
    BY <2>1, <2>3 DEF Owed
  <2>5. r.op = "change" => lost = {}
    BY <2>3
  <2> HIDE DEF r, lost
  <2> QED
    BY <2>2, <2>4, <2>5, GoesOnFollows
<1>4. CASE Rejected(t) \/ Deliver(t) \/ Unheard(t)
  <2>1. /\ UNCHANGED <<there, life, note, stray>> /\ req' = [req EXCEPT ![t] = None]
        /\ req[t] # None /\ req[t].at \in {"gate", "render"}
    BY <1>4 DEF Rejected, Deliver, Unheard, headscale, local
  <2>2. Owed(t) = {}
    BY <2>1 DEF Owed, TypeOK, RequestOK
  <2>3. \A u \in Tab : Owed(u) \subseteq Owed(u)'
    BY <2>1, <2>2, OwedElsewhere
  <2> QED
    BY <2>1, <2>3, OwedKept
<1> QED
  BY <1>1, <1>2, <1>3, <1>4 DEF Serve

LEMMA BrowseFollows ==
  ASSUME TypeOK, NotesFollowNodes, NEW t \in Tab, Browse(t)
  PROVE  NotesFollowNodes'
<1>1. UNCHANGED <<there, life, note, stray>>
  BY DEF Browse, Visit, Show, Tick, CloseDialog, Type, Confirm, OpenDialog, One, headscale, local
<1>2. \/ UNCHANGED req
      \/ req[t] = None /\ \E q : req' = [req EXCEPT ![t] = q]
  BY DEF Browse, Visit, Show, Tick, CloseDialog, Type, Confirm, OpenDialog, One
<1>3. \A u \in Tab : Owed(u) \subseteq Owed(u)'
  <2>1. CASE UNCHANGED req
    BY <2>1 DEF Owed
  <2>2. CASE req[t] = None /\ \E q : req' = [req EXCEPT ![t] = q]
    <3>1. Owed(t) = {}
      BY <2>2 DEF Owed
    <3> QED
      BY <2>2, <3>1, OwedElsewhere
  <2> QED
    BY <1>2, <2>1, <2>2
<1> QED
  BY <1>1, <1>3, OwedKept

LEMMA ApplyFollows ==
  ASSUME TypeOK, NotesFollowNodes, NEW t \in Tab, Apply(t)
  PROVE  NotesFollowNodes'
<1>1. PICK took \in BOOLEAN :
        /\ took => req[t].now \in there
        /\ req' = [req EXCEPT ![t].at = "answer", ![t].took = took]
        /\ there' = IF took /\ req[t].op = "delete" THEN there \ {req[t].now} ELSE there
  BY DEF Apply
<1> DEFINE q == [req[t] EXCEPT !.at = "answer", !.took = took]
<1>2. req[t] \in Request /\ req[t] # None /\ req[t].at = "call" /\ UNCHANGED <<life, note, stray>>
  BY DEF Apply, TypeOK, local
<1>3. /\ q \in Request /\ q.at = "answer" /\ q.now = req[t].now /\ q.took = took
      /\ q.op = req[t].op /\ q.ok = req[t].ok
  BY <1>2 DEF Request
<1>4. req' = [req EXCEPT ![t] = q] /\ q # None
  BY <1>1, <1>2, <1>3, NoneIsNoRequest DEF TypeOK
<1> HIDE DEF q
<1>5. Owed(t) \subseteq Owed(t)' /\ (q.op = "delete" /\ took => req[t].now \in Owed(t)')
  <2>1. req'[t] = q
    BY <1>4 DEF TypeOK
  <2> QED
    BY <1>2, <1>3, <1>4, <2>1 DEF Owed
<1>6. \A u \in Tab : Owed(u) \subseteq Owed(u)'
  BY <1>4, <1>5, OwedElsewhere
<1> QED
  BY <1>1, <1>2, <1>3, <1>5, <1>6 DEF NotesFollowNodes

LEMMA OthersFollow ==
  ASSUME TypeOK, NotesFollowNodes, NEW n \in Node, Others(n)
  PROVE  NotesFollowNodes'
<1>0. \A u \in Tab : Owed(u)' = Owed(u)
  BY DEF Others, Clear, Enrol, Gone, Save, Owed
<1>1. CASE Clear(n)
  BY <1>0, <1>1 DEF Clear, NotesFollowNodes, headscale, TypeOK
<1>2. CASE Enrol(n)
  BY <1>0, <1>2 DEF Enrol, NotesFollowNodes, local, TypeOK
<1>3. CASE Gone(n)
  BY <1>0, <1>3 DEF Gone, NotesFollowNodes, Noted, TypeOK
<1>4. CASE \E l \in Life : Save(n, l)
  BY <1>0, <1>4 DEF Save, NotesFollowNodes, headscale, TypeOK
<1> QED
  BY <1>1, <1>2, <1>3, <1>4 DEF Others

LEMMA RestartFollows == ASSUME TypeOK, NotesFollowNodes, Restart PROVE NotesFollowNodes'
<1> DEFINE S == UNION {Owed(u) : u \in Tab}
<1>1. stray' = stray \cup Noted(S) /\ UNCHANGED <<there, life, note>>
  BY DEF Restart
<1>2. \A n \in Node : Due(n) => n \in S
  BY DEF Due
<1> HIDE DEF S
<1> QED
  BY <1>1, <1>2 DEF NotesFollowNodes, Due, Noted

LEMMA StepFollows ==
  ASSUME TypeOK, NotesFollowNodes, [Next]_vars
  PROVE  NotesFollowNodes'
<1>1. CASE UNCHANGED vars
  BY <1>1 DEF NotesFollowNodes, Owed, vars
<1> QED
  BY <1>1, BrowseFollows, ServeFollows, ApplyFollows, OthersFollow, RestartFollows DEF Next

-----------------------------------------------------------------------------
(* The theorems                                                            *)

\* Types, that a request has each of its nodes in one place, and that no more
\* than MAX_SELECT machines are ever selected, for any number of tabs and nodes.
THEOREM TypeCorrect == Spec => []TypeOK
<1>1. Init => TypeOK /\ SelectionIsShown
  BY InitType
<1>2. TypeOK /\ SelectionIsShown /\ [Next]_vars => (TypeOK /\ SelectionIsShown)'
  BY TypeStep
<1> QED
  BY <1>1, <1>2, PTL DEF Spec

\* What a bulk action will take is on screen, through every filter, reload and
\* half-failed batch.
THEOREM SelectionShown == Spec => []SelectionIsShown
<1>1. Init => TypeOK /\ SelectionIsShown
  BY InitType
<1>2. TypeOK /\ SelectionIsShown /\ [Next]_vars => (TypeOK /\ SelectionIsShown)'
  BY TypeStep
<1> QED
  BY <1>1, <1>2, PTL DEF Spec

\* A row of node_metadata belongs to the node that has its id, is about to be
\* cleaned up, or is left over for a known cause, however many deletes overlap,
\* time out and fail and however often an id is used again.
THEOREM MetadataFollowsNodes == Spec => []NotesFollowNodes
<1>1. Init => NotesFollowNodes
  BY DEF Init, NotesFollowNodes
<1>2. TypeOK /\ NotesFollowNodes /\ [Next]_vars => NotesFollowNodes'
  BY StepFollows
<1> QED
  BY <1>1, <1>2, TypeCorrect, PTL DEF Spec
=============================================================================
