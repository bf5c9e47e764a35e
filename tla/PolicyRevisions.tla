--------------------------- MODULE PolicyRevisions ---------------------------
(***************************************************************************)
(* The policy revision store (lib/db/policy-revisions.ts) and everything   *)
(* that writes it: the editor's save, the history panel's save, deploy,    *)
(* rename and remove, and the Access page, which stores the live document  *)
(* while it renders.  Headscale is the other actor: it holds one document, *)
(* answers late or not at all, and other tools change it too.              *)
(*                                                                         *)
(* Grain, as in Accounts: one action is one SQL statement or one message;  *)
(* a request keeps its instance's thread from one query to the next and    *)
(* gives it up while it waits for Headscale.                               *)
(***************************************************************************)
EXTENDS Naturals, FiniteSets

CONSTANTS Doc,           \* documents; a document stands for its digest too
          Operator,      \* people with the Access page, one request at a time
          Instance,      \* Node processes sharing the database file
          MaxRevisions,  \* BOUND on the rows ever inserted
          None

ASSUME PolicyAssumption ==
  /\ MaxRevisions \in Nat
  /\ None \notin Doc
  /\ "unset" \notin Doc /\ "unset" # None

Id == 1 .. MaxRevisions
Note == {"found", "label"}      \* "as found on the control plane", an operator's

VARIABLES
  live,       \* the document Headscale serves, or "unset"
  late,       \* PUTs the console gave up on that may still reach Headscale
  document,   \* policy_revision.document (and digest) by id, None: no row
  deployed,   \* ids whose last_deployed_at is set
  note,       \* policy_revision.note
  nextId,     \* AUTOINCREMENT: an id is never used again
  page,       \* the live document each operator's page was rendered with
  req,        \* the request each operator has in flight
  accepted,   \* history: documents Headscale accepted from the console
  owed,       \* history: <<document, op>> of pushes that were acknowledged and
              \*          whose document was not removed since
  forgotten   \* history: documents an operator removed

dbVars == <<document, deployed, note, nextId>>
remote == <<live, late, accepted>>
vars == <<live, late, document, deployed, note, nextId, page, req, accepted,
          owed, forgotten>>

OnThread == {"find", "insert", "readback", "mark", "return", "rename", "remove"}
OffThread == {"idle", "put", "ack", "got"}

Request == [pc   : OnThread \cup OffThread,
            at   : Instance \cup {None},
            op   : {"none", "save", "keep", "deploy", "rename", "remove", "view"},
            doc  : Doc \cup {None},
            id   : Id \cup {None},
            note : Note \cup {None}]

Idle == [pc |-> "idle", at |-> None, op |-> "none", doc |-> None, id |-> None,
         note |-> None]

Stored(d) == \E i \in Id : document[i] = d
ThreadFree(i) == \A r \in Operator : req[r].at = i => req[r].pc \notin OnThread
Become(r, q) == req' = [req EXCEPT ![r] = q]
Finish(r) == Become(r, Idle)
Goto(r, pc) == Become(r, [req[r] EXCEPT !.pc = pc])

\* BOUND: a request that may insert starts only while ids remain for all.
IdsLeft == nextId + Cardinality({r \in Operator : req[r].op \in {"save", "keep", "view"}})
             <= MaxRevisions

-----------------------------------------------------------------------------
(* Requests start: the caller holds acls.write and has the page open       *)

\* savePolicy: PUT the editor's document.
StartSave(r, i, d) ==
  /\ req[r].pc = "idle" /\ page[r] # None /\ IdsLeft
  /\ Become(r, [Idle EXCEPT !.pc = "put", !.at = i, !.op = "save", !.doc = d])
  /\ UNCHANGED <<remote, dbVars, page, owed, forgotten>>

\* saveRevision: keep the editor's document, with an optional label.
StartKeep(r, i, d, n) ==
  /\ req[r].pc = "idle" /\ page[r] # None /\ IdsLeft /\ ThreadFree(i)
  /\ Become(r, [Idle EXCEPT !.pc = "find", !.at = i, !.op = "keep", !.doc = d, !.note = n])
  /\ UNCHANGED <<remote, dbVars, page, owed, forgotten>>

\* deployRevision: read the row (a missing one is refused), PUT its document.
StartDeploy(r, i, id) ==
  /\ req[r].pc = "idle" /\ page[r] # None /\ ThreadFree(i)
  /\ document[id] # None
  /\ Become(r, [Idle EXCEPT !.pc = "put", !.at = i, !.op = "deploy", !.id = id,
                            !.doc = document[id]])
  /\ UNCHANGED <<remote, dbVars, page, owed, forgotten>>

\* renameRevision and removeRevision: the row exists when it is looked up.
StartRename(r, i, id, n) ==
  /\ req[r].pc = "idle" /\ page[r] # None /\ ThreadFree(i)
  /\ document[id] # None
  /\ Become(r, [Idle EXCEPT !.pc = "rename", !.at = i, !.op = "rename", !.id = id,
                            !.note = n])
  /\ UNCHANGED <<remote, dbVars, page, owed, forgotten>>

StartRemove(r, i, id) ==
  /\ req[r].pc = "idle" /\ page[r] # None /\ ThreadFree(i)
  /\ document[id] # None
  /\ Become(r, [Idle EXCEPT !.pc = "remove", !.at = i, !.op = "remove", !.id = id])
  /\ UNCHANGED <<remote, dbVars, page, owed, forgotten>>

\* AccessPage: policy.get() answers; an unset policy stores no baseline.
GetPolicy(r, i) ==
  /\ req[r].pc = "idle" /\ IdsLeft
  /\ IF live = "unset"
     THEN page' = [page EXCEPT ![r] = "unset"] /\ UNCHANGED req
     ELSE /\ Become(r, [Idle EXCEPT !.pc = "got", !.at = i, !.op = "view", !.doc = live,
                                    !.note = "found"])
          /\ UNCHANGED page
  /\ UNCHANGED <<remote, dbVars, owed, forgotten>>

\* MUTANT: the baseline is only captured while the history is empty.
CollectRevisions_OnlyWhenEmpty(r) ==
  /\ req[r].pc = "got" /\ ThreadFree(req[r].at)
  /\ Goto(r, IF \A i \in Id : document[i] = None THEN "find" ELSE "return")
  /\ UNCHANGED <<remote, dbVars, page, owed, forgotten>>

\* collectRevisions: the document found live is stored as a baseline.
CollectRevisions(r) ==
  /\ req[r].pc = "got" /\ ThreadFree(req[r].at)
  /\ Goto(r, "find")
  /\ UNCHANGED <<remote, dbVars, page, owed, forgotten>>

-----------------------------------------------------------------------------
(* The PUT: Headscale validates and replaces its document                  *)

PutAccepted(r) ==
  /\ req[r].pc = "put"
  /\ live' = req[r].doc
  /\ accepted' = accepted \cup {req[r].doc}
  /\ Goto(r, "ack")
  /\ UNCHANGED <<late, dbVars, page, owed, forgotten>>

\* MUTANT: the error is swallowed and the push is recorded anyway.
PutRejected_Swallowed(r) ==
  /\ req[r].pc = "put" /\ ThreadFree(req[r].at)
  /\ Goto(r, IF req[r].op = "save" THEN "find" ELSE "mark")
  /\ UNCHANGED <<remote, dbVars, page, owed, forgotten>>

\* Rejected, or never delivered: the reason is relayed and nothing is stored.
PutRejected(r) ==
  /\ req[r].pc = "put"
  /\ Finish(r)
  /\ UNCHANGED <<remote, dbVars, page, owed, forgotten>>

\* The 5 s timeout fires: before Headscale handles the PUT, or after.
PutTimesOut(r) ==
  /\ req[r].pc \in {"put", "ack"}
  /\ late' = IF req[r].pc = "put" THEN late \cup {req[r].doc} ELSE late
  /\ Finish(r)
  /\ UNCHANGED <<live, accepted, dbVars, page, owed, forgotten>>

\* Headscale handles a PUT whose caller has given up.
LateArrival(d) ==
  /\ d \in late
  /\ late' = late \ {d}
  /\ live' = d
  /\ accepted' = accepted \cup {d}
  /\ UNCHANGED <<dbVars, page, req, owed, forgotten>>

\* The Headscale CLI, or another tool, replaces the document.
OutOfBand(d) ==
  /\ live' = d
  /\ UNCHANGED <<late, accepted, dbVars, page, req, owed, forgotten>>

\* The success answer arrives and the action goes on to record the push.
Acknowledged(r) ==
  /\ req[r].pc = "ack" /\ ThreadFree(req[r].at)
  /\ owed' = owed \cup {<<req[r].doc, req[r].op>>}
  /\ Goto(r, IF req[r].op = "save" THEN "find" ELSE "mark")
  /\ UNCHANGED <<remote, dbVars, page, forgotten>>

-----------------------------------------------------------------------------
(* rememberRevision                                                        *)

\* A kept document never stamps: deployedAt is only passed by savePolicy.
Found_NeverStamps(r) == "return"                                        \* MUTANT
Found(r) == IF req[r].op = "save" THEN "mark" ELSE "return"

\* findByDigest
FindByDigest(r) ==
  /\ req[r].pc = "find"
  /\ \/ \E i \in Id :
          /\ document[i] = req[r].doc
          /\ Become(r, [req[r] EXCEPT !.pc = Found(r), !.id = i])
     \/ /\ ~Stored(req[r].doc)
        /\ Goto(r, "insert")
  /\ UNCHANGED <<remote, dbVars, page, owed, forgotten>>

\* markDeployed: UPDATE ... WHERE id, which no row may match any more.
MarkDeployed(r) ==
  /\ req[r].pc = "mark"
  /\ deployed' = IF document[req[r].id] = None THEN deployed ELSE deployed \cup {req[r].id}
  /\ Goto(r, "return")
  /\ UNCHANGED <<remote, document, note, nextId, page, owed, forgotten>>

InsertRow(r) ==
  /\ document' = [document EXCEPT ![nextId] = req[r].doc]
  /\ note' = [note EXCEPT ![nextId] = req[r].note]
  /\ deployed' = IF req[r].op = "save" THEN deployed \cup {nextId} ELSE deployed
  /\ nextId' = nextId + 1
  /\ Goto(r, "readback")

\* INSERT: the unique index on digest makes a second copy fail the action.
Insert(r) ==
  /\ req[r].pc = "insert" /\ nextId \in Id
  /\ \/ ~Stored(req[r].doc) /\ InsertRow(r)
     \/ Stored(req[r].doc) /\ Finish(r) /\ UNCHANGED dbVars
  /\ UNCHANGED <<remote, page, owed, forgotten>>

\* The row is read back; "policy revision vanished" when it is already gone.
ReadBack(r) ==
  /\ req[r].pc = "readback"
  /\ IF Stored(req[r].doc) THEN Goto(r, "return") ELSE Finish(r)
  /\ UNCHANGED <<remote, dbVars, page, owed, forgotten>>

\* The action audits and answers; the page shows what it was rendered with.
Return(r) ==
  /\ req[r].pc = "return"
  /\ page' = IF req[r].op = "view" THEN [page EXCEPT ![r] = req[r].doc] ELSE page
  /\ Finish(r)
  /\ UNCHANGED <<remote, dbVars, owed, forgotten>>

-----------------------------------------------------------------------------
(* updateNote and deleteRevision: the write after the existence check      *)

Rename(r) ==
  /\ req[r].pc = "rename"
  /\ note' = IF document[req[r].id] = None THEN note
                                           ELSE [note EXCEPT ![req[r].id] = req[r].note]
  /\ Finish(r)
  /\ UNCHANGED <<remote, document, deployed, nextId, page, owed, forgotten>>

RemoveRevision(r) ==
  LET i == req[r].id
  IN  /\ req[r].pc = "remove"
      /\ document' = [document EXCEPT ![i] = None]
      /\ note' = [note EXCEPT ![i] = None]
      /\ deployed' = deployed \ {i}
      /\ forgotten' = forgotten \cup ({document[i]} \ {None})
      /\ owed' = {o \in owed : o[1] # document[i]}
      /\ Finish(r)
      /\ UNCHANGED <<remote, nextId, page>>

\* The process dies or a statement throws; what the request still owed is lost
\* with it, and the operator is told of no success.
Abort(r) ==
  /\ req[r].pc \notin {"idle", "put", "ack"}
  /\ owed' = owed \ {<<req[r].doc, req[r].op>>}
  /\ Finish(r)
  /\ UNCHANGED <<remote, dbVars, page, forgotten>>

-----------------------------------------------------------------------------
Init ==
  /\ live \in Doc \cup {"unset"}
  /\ late = {}
  /\ document = [i \in Id |-> None]
  /\ deployed = {}
  /\ note = [i \in Id |-> None]
  /\ nextId = 1
  /\ page = [r \in Operator |-> None]
  /\ req = [r \in Operator |-> Idle]
  /\ accepted = {} /\ owed = {} /\ forgotten = {}

Start(r, i) ==
  \/ \E d \in Doc : StartSave(r, i, d) \/ \E n \in {"label", None} : StartKeep(r, i, d, n)
  \/ \E id \in Id : \/ StartDeploy(r, i, id) \/ StartRemove(r, i, id)
                    \/ \E n \in {"label", None} : StartRename(r, i, id, n)
  \/ GetPolicy(r, i)

Push(r) == PutAccepted(r) \/ PutRejected(r) \/ PutTimesOut(r) \/ Acknowledged(r)
Remember(r) == \/ CollectRevisions(r) \/ FindByDigest(r) \/ MarkDeployed(r)
               \/ Insert(r) \/ ReadBack(r) \/ Return(r)
Edit(r) == Rename(r) \/ RemoveRevision(r) \/ Abort(r)

Next ==
  \/ \E r \in Operator : \/ \E i \in Instance : Start(r, i)
                         \/ Push(r) \/ Remember(r) \/ Edit(r)
  \/ \E d \in Doc : LateArrival(d) \/ OutOfBand(d)

Spec == Init /\ [][Next]_vars

-----------------------------------------------------------------------------
(* Properties                                                              *)

RequestOK(q) ==
  /\ q.pc # "idle" => q.at \in Instance
  /\ q.pc \in {"put", "ack", "got", "find", "insert", "readback"} => q.doc \in Doc
  /\ q.pc = "return" /\ q.op = "view" => q.doc \in Doc
  /\ q.pc \in {"mark", "rename", "remove"} => q.id \in Id
  /\ q.pc \in {"put", "ack"} => q.op \in {"save", "deploy"}
  /\ q.op = "deploy" => q.id \in Id /\ q.doc \in Doc
  /\ q.pc = "mark" => q.op \in {"save", "deploy"} /\ q.doc \in Doc
  /\ q.pc \in {"find", "insert"} => q.op \in {"save", "keep", "view"}
  /\ q.pc = "got" => q.op = "view"
  /\ q.pc \in {"rename", "remove"} => q.op = q.pc

\* Types, and what a request carries at each point; ids are handed out in order.
TypeOK ==
  /\ live \in Doc \cup {"unset"}
  /\ late \in SUBSET Doc
  /\ document \in [Id -> Doc \cup {None}]
  /\ deployed \in SUBSET Id
  /\ note \in [Id -> Note \cup {None}]
  /\ nextId \in 1 .. (MaxRevisions + 1)
  /\ page \in [Operator -> Doc \cup {"unset", None}]
  /\ req \in [Operator -> Request]
  /\ accepted \in SUBSET Doc
  /\ owed \in SUBSET (Doc \X {"save", "deploy"})
  /\ forgotten \in SUBSET Doc
  /\ \A i \in Id : i >= nextId => document[i] = None
  /\ \A r \in Operator : RequestOK(req[r])

\* A document is stored once, whatever renders, saves and pushes race ("a double
\* invocation cannot produce a duplicate").
DigestUnique ==
  \A i, j \in Id : document[i] # None /\ document[i] = document[j] => i = j

\* A row is only stamped as deployed when Headscale accepted that very document
\* ("a rejected rollback never claims to have happened").
StampedOnlyIfAccepted ==
  \A i \in deployed : document[i] \in accepted

\* What an operator's page found running is kept, unless someone removed it: the
\* rollback "to the policy that was running before they touched anything".
RollbackAnchor ==
  \A r \in Operator : page[r] \in Doc => Stored(page[r]) \/ page[r] \in forgotten

Recording(o) ==
  \E r \in Operator : req[r].op = o[2] /\ req[r].doc = o[1] /\ req[r].pc \in OnThread

Remembered(o) == \E i \in deployed : document[i] = o[1]

\* "Every successful push is remembered": an acknowledged save of the editor is a
\* stamped row, or still being recorded.
SavesRemembered == \A o \in owed : o[2] = "save" => Recording(o) \/ Remembered(o)

\* The store implements the abstract history.
Entry(d) == IF \E i \in deployed : document[i] = d THEN "deployed"
            ELSE IF Stored(d) THEN "draft" ELSE "absent"
History == INSTANCE PolicyHistory WITH history <- [d \in Doc |-> Entry(d)]
ImplementsHistory == History!HSpec
=============================================================================
