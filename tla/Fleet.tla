-------------------------------- MODULE Fleet --------------------------------
(***************************************************************************)
(* The Machines pages: Headscale's nodes, the notes Headtower keeps about  *)
(* them, the list with its selection and bulk bar, and the Server Actions  *)
(* between (machines/actions, metadata-actions, lib/db/node-metadata,      *)
(* bulk-action-bar).                                                       *)
(*                                                                         *)
(* Headscale may give the id of a deleted node to a new one, which the     *)
(* clean-up of notes is there for: an id has lives, and a note is about    *)
(* one of them.  Renaming, tagging, moving and expiring leave nodes and    *)
(* notes where they are: they are one operation, "change".                 *)
(*                                                                         *)
(* Grain: one wait of a Server Action.  Its statements between two waits   *)
(* run on the thread: the clean-up with the last answer before it.  The    *)
(* audit row, best-effort, goes with that step too.                        *)
(***************************************************************************)
EXTENDS Naturals, FiniteSets

CONSTANTS Tab,        \* browsers that show the list
          Node,       \* node ids
          None,
          MaxLives,   \* BOUND: nodes that get the same id
          MaxSelect   \* MAX_SELECT and BULK_LIMIT

ASSUME FleetAssumption == MaxLives \in Nat \ {0} /\ MaxSelect \in Nat \ {0} /\ None \notin Node
                          /\ IsFiniteSet(Node)

VARIABLES
  there, life,  \* Headscale: the ids in use, and the lives each has had
  note,         \* node_metadata: the life a row was written about, or 0
  tab,          \* each browser: the list and its bulk bar
  req,          \* its Server Action, or None
  stray         \* history: rows that are left over for a known cause

vars == <<there, life, note, tab, req, stray>>
headscale == <<there, life>>
local == <<note, stray>>

Op == {"change", "delete"}
Life == 1..MaxLives

Page == [rows : SUBSET Node, sel : SUBSET Node,
         dialog : Op \cup {None}, typed : Nat]

Request == [op : Op, many : BOOLEAN, at : {"gate", "call", "answer", "render"},
            todo : SUBSET Node, now : Node \cup {None}, took : BOOLEAN,
            ok : SUBSET Node, failed : SUBSET Node]
ASSUME NoneIsNoRequest == None \notin Request

\* Nodes that a running delete removed and whose rows it will clean up.
Owed(t) ==
  IF req[t] = None \/ req[t].op # "delete" \/ req[t].at = "render" THEN {}
  ELSE req[t].ok \cup {n \in {req[t].now} : req[t].at = "answer" /\ req[t].took}

Noted(S) == {n \in S : note[n] # 0}

-----------------------------------------------------------------------------
(* The list and its bulk bar                                               *)

\* MUTANT: a row that leaves the list stays selected.
Listing_NoPrune(p, rows, sel) ==
  [p EXCEPT !.rows = rows, !.sel = sel, !.typed = IF sel = {} THEN 0 ELSE @]

\* The list with these rows: selections that leave it are pruned, and with the
\* last of them the bar goes and the phrase typed into its dialog.
Listing(p, rows, sel) ==
  [p EXCEPT !.rows = rows, !.sel = sel \cap rows,
            !.typed = IF sel \cap rows = {} THEN 0 ELSE @]

Opened == [rows |-> there, sel |-> {}, dialog |-> None, typed |-> 0]

Visit(t) ==
  /\ req[t] = None
  /\ tab' = [tab EXCEPT ![t] = Opened]
  /\ UNCHANGED <<headscale, local, req>>

\* A filter narrows what is loaded, or the list is loaded again under one.
Show(t) ==
  /\ \E rows \in (SUBSET tab[t].rows) \cup (SUBSET there) :
       tab' = [tab EXCEPT ![t] = Listing(@, rows, @.sel)]
  /\ UNCHANGED <<headscale, local, req>>

\* toggleRow, a range with shift, toggleAll, Clear: never more than MAX_SELECT.
Tick(t) ==
  /\ tab[t].dialog = None \/ tab[t].sel = {}
  /\ \E sel \in SUBSET tab[t].rows :
       /\ Cardinality(sel) <= MaxSelect
       /\ tab' = [tab EXCEPT ![t] = Listing(@, @.rows, sel)]
  /\ UNCHANGED <<headscale, local, req>>

OpenDialog(t, op) ==
  /\ req[t] = None /\ tab[t].sel # {} /\ tab[t].dialog = None
  /\ tab' = [tab EXCEPT ![t].dialog = op]
  /\ UNCHANGED <<headscale, local, req>>

\* Cancel, Escape, the cross: only these clear the phrase.
CloseDialog(t) ==
  /\ tab[t].sel # {} /\ tab[t].dialog # None
  /\ tab' = [tab EXCEPT ![t].dialog = None,
                        ![t].typed = IF tab[t].dialog = "delete" THEN 0 ELSE @]
  /\ UNCHANGED <<headscale, local, req>>

\* DELETE <count>
Type(t) ==
  /\ req[t] = None /\ tab[t].sel # {} /\ tab[t].dialog = "delete"
  /\ tab' = [tab EXCEPT ![t].typed = Cardinality(tab[t].sel)]
  /\ UNCHANGED <<headscale, local, req>>

Asking(op, many, nodes) ==
  [op |-> op, many |-> many, at |-> "gate", todo |-> nodes, now |-> None,
   took |-> FALSE, ok |-> {}, failed |-> {}]

\* The dialog's button calls the bulk action with the selection of this moment.
Confirm(t) ==
  LET op == tab[t].dialog IN
  /\ req[t] = None /\ tab[t].sel # {} /\ op # None
  /\ op = "delete" => tab[t].typed = Cardinality(tab[t].sel)
  /\ req' = [req EXCEPT ![t] = Asking(op, TRUE, tab[t].sel)]
  /\ UNCHANGED <<headscale, local, tab>>

\* A row's own menu.
One(t, op, n) ==
  /\ req[t] = None /\ n \in tab[t].rows
  /\ tab[t].dialog = None \/ tab[t].sel = {}
  /\ req' = [req EXCEPT ![t] = Asking(op, FALSE, {n})]
  /\ UNCHANGED <<headscale, local, tab>>

\* onResolve prunes what took, and the dialog closes, its phrase left in place.
\* A single action revalidates the list when it succeeds, a bulk one always.
Deliver(t) ==
  LET r == req[t]
      p == tab[t]
      open == IF r.many THEN [p EXCEPT !.dialog = None] ELSE p IN
  /\ r # None /\ r.at = "render"
  /\ \E rows \in IF r.many \/ r.ok # {} THEN SUBSET there ELSE {p.rows} :
       tab' = [tab EXCEPT ![t] = Listing(open, rows, IF r.many THEN p.sel \ r.ok ELSE p.sel)]
  /\ req' = [req EXCEPT ![t] = None]
  /\ UNCHANGED <<headscale, local>>

\* authorize refuses: rejectSelection, or the reason; nothing is revalidated.
Rejected(t) ==
  /\ req[t] # None /\ req[t].at = "gate"
  /\ req' = [req EXCEPT ![t] = None]
  /\ tab' = [tab EXCEPT ![t].dialog = IF req[t].many THEN None ELSE @]
  /\ UNCHANGED <<headscale, local>>

-----------------------------------------------------------------------------
(* The Server Actions                                                      *)

\* MUTANT: the rows are cleaned up of the nodes that could not be removed.
CleanUp_Failed(r) == note' = [n \in Node |-> IF n \in r.failed THEN 0 ELSE note[n]]

\* deleteNodeMetadata, deleteNodeMetadataMany
CleanUp(r) == note' = [n \in Node |-> IF n \in r.ok THEN 0 ELSE note[n]]

\* A clean-up that throws is logged and leaves the rows.
Finish(t, r, lost) ==
  /\ req' = [req EXCEPT ![t] = [r EXCEPT !.at = "render", !.now = None, !.took = FALSE]]
  /\ \/ /\ r.op = "delete" /\ CleanUp(r)
        /\ stray' = (stray \cup Noted(lost)) \ r.ok
     \/ /\ r.op = "delete" /\ UNCHANGED note
        /\ stray' = stray \cup Noted(lost \cup r.ok)
     \/ r.op = "change" /\ UNCHANGED local

\* MUTANT: the node stays in the list.
GoesOn_Keeps(t, r, lost) ==
  \/ /\ r.todo = {}
     /\ Finish(t, r, lost)
  \/ /\ \E n \in r.todo :
          req' = [req EXCEPT ![t] = [r EXCEPT !.now = n, !.at = "call", !.took = FALSE]]
     /\ stray' = stray \cup Noted(lost)
     /\ UNCHANGED note

\* r, with the call to one node settled, goes on to the next node or ends.  lost:
\* nodes it removed without learning of it.
GoesOn(t, r, lost) ==
  \/ /\ r.todo = {}
     /\ Finish(t, r, lost)
  \/ /\ \E n \in r.todo :
          req' = [req EXCEPT ![t] = [r EXCEPT !.todo = @ \ {n}, !.now = n,
                                              !.at = "call", !.took = FALSE]]
     /\ stray' = stray \cup Noted(lost)
     /\ UNCHANGED note

Admitted(t) ==
  /\ req[t] # None /\ req[t].at = "gate"
  /\ GoesOn(t, req[t], {})
  /\ UNCHANGED <<headscale, tab>>

\* Headscale carries the call out, or refuses it: 404 for an unknown node.
Apply(t) ==
  LET r == req[t] IN
  /\ r # None /\ r.at = "call"
  /\ \E took \in BOOLEAN :
       /\ took => r.now \in there
       /\ req' = [req EXCEPT ![t].at = "answer", ![t].took = took]
       /\ there' = IF took /\ r.op = "delete" THEN there \ {r.now} ELSE there
  /\ UNCHANGED <<life, local, tab>>

Took(r) == [r EXCEPT !.ok = @ \cup {r.now}]
Failed(r) == [r EXCEPT !.failed = @ \cup {r.now}]

Answered(t) ==
  /\ req[t] # None /\ req[t].at = "answer"
  /\ GoesOn(t, IF req[t].took THEN Took(req[t]) ELSE Failed(req[t]), {})
  /\ UNCHANGED <<headscale, tab>>

\* The call failed or timed out, before Headscale saw it or after.
GivenUp(t) ==
  LET r == req[t]
      lost == {n \in {r.now} : r.at = "answer" /\ r.took /\ r.op = "delete"} IN
  /\ r # None /\ r.at \in {"call", "answer"}
  /\ GoesOn(t, Failed(r), lost)
  /\ UNCHANGED <<headscale, tab>>

\* The answer does not reach the page, which is loaded again.
Unheard(t) ==
  /\ req[t] # None /\ req[t].at = "render"
  /\ req' = [req EXCEPT ![t] = None]
  /\ tab' = [tab EXCEPT ![t] = Opened]
  /\ UNCHANGED <<headscale, local>>

\* The process dies.
Restart ==
  /\ \E t \in Tab : req[t] # None
  /\ req' = [t \in Tab |-> None]
  /\ tab' = [t \in Tab |-> IF req[t] = None THEN tab[t] ELSE Opened]
  /\ stray' = stray \cup Noted(UNION {Owed(t) : t \in Tab})
  /\ UNCHANGED <<there, life, note>>

\* saveNodeMetadata, from a dialog opened on the detail page of a node: an operator
\* may have had one open in any life of the id.  Nothing asks Headscale.
Save(n, l) ==
  /\ l <= life[n]
  /\ note' = [note EXCEPT ![n] = l]
  /\ stray' = IF n \in there /\ l = life[n] THEN stray \ {n} ELSE stray \cup {n}
  /\ UNCHANGED <<headscale, tab, req>>

\* clearNodeMetadata
Clear(n) ==
  /\ note' = [note EXCEPT ![n] = 0]
  /\ stray' = stray \ {n}
  /\ UNCHANGED <<headscale, tab, req>>

-----------------------------------------------------------------------------
(* Headscale and its other clients                                         *)

\* A node registers, and may be given an id that was in use before.
Enrol(n) ==
  /\ n \notin there /\ life[n] < MaxLives
  /\ there' = there \cup {n}
  /\ life' = [life EXCEPT ![n] = @ + 1]
  /\ UNCHANGED <<local, tab, req>>

\* Removed by the CLI, as an ephemeral node, or by a call the console gave up on.
Gone(n) ==
  /\ n \in there
  /\ there' = there \ {n}
  /\ stray' = stray \cup Noted({n})
  /\ UNCHANGED <<life, note, tab, req>>

-----------------------------------------------------------------------------

Init ==
  /\ there \in SUBSET Node
  /\ life = [n \in Node |-> IF n \in there THEN 1 ELSE 0]
  /\ note \in {f \in [Node -> 0..1] : \A n \in Node : f[n] <= life[n]}
  /\ tab = [t \in Tab |-> Opened]
  /\ req = [t \in Tab |-> None]
  /\ stray = {}

Browse(t) ==
  \/ Visit(t) \/ Show(t) \/ Tick(t) \/ CloseDialog(t) \/ Type(t) \/ Confirm(t)
  \/ \E op \in Op : OpenDialog(t, op) \/ \E n \in Node : One(t, op, n)

Serve(t) == Admitted(t) \/ Rejected(t) \/ Answered(t) \/ GivenUp(t) \/ Deliver(t) \/ Unheard(t)

Others(n) == Clear(n) \/ Enrol(n) \/ Gone(n) \/ \E l \in Life : Save(n, l)

Next ==
  \/ \E t \in Tab : Browse(t) \/ Serve(t) \/ Apply(t)
  \/ \E n \in Node : Others(n)
  \/ Restart

Spec == Init /\ [][Next]_vars

\* The thread runs on, a call to Headscale is bounded (client.ts, and the runtime's
\* own bound on a body), and a browser is answered or finds its connection gone.
FairSpec == Spec /\ \A t \in Tab : WF_vars(Serve(t))

-----------------------------------------------------------------------------
(* Properties                                                              *)

\* A request has each of its nodes in one place: to come, under way, done or failed.
RequestOK(r) ==
  /\ r.now = None <=> r.at \in {"gate", "render"}
  /\ r.todo \cap (r.ok \cup r.failed) = {} /\ r.ok \cap r.failed = {}
  /\ r.now \notin r.todo \cup r.ok \cup r.failed
  /\ r.at = "render" => r.todo = {}
  /\ r.at = "gate" => r.ok = {}
  /\ r.took => r.at = "answer"

\* Types, what a request carries, and selections within MAX_SELECT.
TypeOK ==
  /\ there \subseteq Node /\ stray \subseteq Node
  /\ life \in [Node -> 0..MaxLives] /\ note \in [Node -> 0..MaxLives]
  /\ tab \in [Tab -> Page] /\ req \in [Tab -> Request \cup {None}]
  /\ \A t \in Tab : req[t] # None => RequestOK(req[t])
  /\ \A t \in Tab : Cardinality(tab[t].sel) <= MaxSelect

\* A row of node_metadata belongs to the node that has its id now, so that a new
\* node inherits nothing (machines/actions.ts:142), unless a delete is about to
\* clean it up or one of the things the console cannot see to has come between:
\* a node removed elsewhere, an answer lost, a clean-up that threw, a dialog saved
\* after the node was gone.  In particular a bulk delete that fails half way cleans up
\* after exactly the nodes it removed.
NotesFollowNodes ==
  \A n \in Node :
    note[n] # 0 /\ ~(n \in there /\ note[n] = life[n]) =>
      n \in stray \/ \E t \in Tab : n \in Owed(t)

\* What a bulk action will take is on screen: a row that a filter or a reload has
\* taken out of the list is not acted on, nor selected when it comes back.
SelectionIsShown == \A t \in Tab : tab[t].sel \subseteq tab[t].rows

\* However the calls of a batch fail, the bar comes back from it.
RequestsEnd == \A t \in Tab : req[t] # None ~> req[t] = None

=============================================================================
