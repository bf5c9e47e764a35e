----------------------------- MODULE PolicyProofs -----------------------------
(***************************************************************************)
(* Theorems about the policy.  Of PolicyRevisions, for any number of       *)
(* documents, operators, rows and processes: one row per document, no      *)
(* stamp without an accepted push, and the refinement of PolicyHistory.    *)
(* Of BuilderFields, for any session of tokens, texts and form fields:     *)
(* the builder shows the editor's text, keeps what it was not asked to     *)
(* change, and calls a document saved only if it was the live one; of the  *)
(* linter over the same text, that its Taildrive warnings are earned, and  *)
(* of the evaluator, that its verdicts are the reference's and its denials *)
(* without a caveat final.  Of SelectorWalk, for any policy: what expand   *)
(* returns is what the selector means.                                     *)
(***************************************************************************)
EXTENDS PolicyRevisions, PolicyTest, FiniteSetTheorems, SequenceTheorems, TLAPS

-----------------------------------------------------------------------------
(* Requests: every action replaces one request by a well-formed one.       *)

Moves(r) == \E q \in Request : RequestOK(q) /\ Become(r, q)

LEMMA IdleOK == Idle \in Request /\ RequestOK(Idle)
  BY DEF Idle, Request, RequestOK, OnThread, OffThread

LEMMA FinishMoves == ASSUME NEW r \in Operator, Finish(r) PROVE Moves(r)
  BY IdleOK DEF Finish, Moves

LEMMA StartMoves ==
  ASSUME TypeOK, NEW r \in Operator, NEW i \in Instance, Start(r, i)
  PROVE  Moves(r) \/ UNCHANGED req
<1> USE PolicyAssumption
<1>1. ASSUME NEW d \in Doc, StartSave(r, i, d) PROVE Moves(r)
  BY <1>1 DEF StartSave, Idle, Request, RequestOK, OnThread, OffThread, Moves
<1>2. ASSUME NEW d \in Doc, NEW n \in {"label", None}, StartKeep(r, i, d, n) PROVE Moves(r)
  BY <1>2 DEF StartKeep, Idle, Request, RequestOK, OnThread, OffThread, Note, Moves
<1>3. ASSUME NEW id \in Id, StartDeploy(r, i, id) PROVE Moves(r)
  <2>1. document[id] \in Doc
    BY <1>3 DEF StartDeploy, TypeOK
  <2> QED
    BY <1>3, <2>1 DEF StartDeploy, Idle, Request, RequestOK, OnThread, OffThread, Moves
<1>4. ASSUME NEW id \in Id, NEW n \in {"label", None}, StartRename(r, i, id, n) PROVE Moves(r)
  BY <1>4 DEF StartRename, Idle, Request, RequestOK, OnThread, OffThread, Note, Moves
<1>5. ASSUME NEW id \in Id, StartRemove(r, i, id) PROVE Moves(r)
  BY <1>5 DEF StartRemove, Idle, Request, RequestOK, OnThread, OffThread, Moves
<1>6. CASE GetPolicy(r, i)
  <2>1. CASE live = "unset"
    BY <1>6, <2>1 DEF GetPolicy
  <2>2. CASE live # "unset"
    <3>1. live \in Doc
      BY <2>2 DEF TypeOK
    <3> QED
      BY <1>6, <2>2, <3>1 DEF GetPolicy, Idle, Request, RequestOK, OnThread, OffThread, Note,
         Moves
  <2> QED
    BY <2>1, <2>2
<1> QED
  BY <1>1, <1>2, <1>3, <1>4, <1>5, <1>6 DEF Start

\* The same for a step of the request itself: only the counter moves on.
LEMMA GotoMoves ==
  ASSUME TypeOK, NEW r \in Operator, NEW pc \in OnThread \cup OffThread, Goto(r, pc),
         RequestOK([req[r] EXCEPT !.pc = pc])
  PROVE  Moves(r)
<1>1. [req[r] EXCEPT !.pc = pc] \in Request
  BY DEF TypeOK, Request
<1> QED
  BY <1>1 DEF Goto, Moves

LEMMA PushMoves == ASSUME TypeOK, NEW r \in Operator, Push(r) PROVE Moves(r)
<1>0. req[r] \in Request /\ RequestOK(req[r])
  BY DEF TypeOK
<1>1. CASE PutAccepted(r)
  <2>1. RequestOK([req[r] EXCEPT !.pc = "ack"])
    BY <1>0, <1>1 DEF PutAccepted, Request, RequestOK
  <2> QED
    BY <1>1, <2>1, GotoMoves DEF PutAccepted, OffThread
<1>2. CASE PutRejected(r) \/ PutTimesOut(r)
  BY <1>2, FinishMoves DEF PutRejected, PutTimesOut
<1>3. CASE Acknowledged(r)
  <2>1. req[r].pc = "ack" /\ req[r].op \in {"save", "deploy"} /\ req[r].doc \in Doc
    BY <1>0, <1>3 DEF Acknowledged, RequestOK
  <2>2. CASE req[r].op = "save"
    <3>1. RequestOK([req[r] EXCEPT !.pc = "find"])
      BY <1>0, <2>1, <2>2 DEF Request, RequestOK
    <3> QED
      BY <1>3, <2>2, <3>1, GotoMoves DEF Acknowledged, OnThread
  <2>3. CASE req[r].op = "deploy"
    <3>1. RequestOK([req[r] EXCEPT !.pc = "mark"])
      BY <1>0, <2>1, <2>3 DEF Request, RequestOK
    <3> QED
      BY <1>3, <2>3, <3>1, GotoMoves DEF Acknowledged, OnThread
  <2> QED
    BY <2>1, <2>2, <2>3
<1> QED
  BY <1>1, <1>2, <1>3 DEF Push

LEMMA RememberMoves == ASSUME TypeOK, NEW r \in Operator, Remember(r) PROVE Moves(r)
<1>0. req[r] \in Request /\ RequestOK(req[r])
  BY DEF TypeOK
<1>1. CASE CollectRevisions(r)
  <2>1. RequestOK([req[r] EXCEPT !.pc = "find"])
    BY <1>0, <1>1 DEF CollectRevisions, Request, RequestOK
  <2> QED
    BY <1>1, <2>1, GotoMoves DEF CollectRevisions, OnThread
<1>2. CASE FindByDigest(r)
  <2>0. req[r].pc = "find" /\ req[r].doc \in Doc /\ req[r].op \in {"save", "keep", "view"}
    BY <1>0, <1>2 DEF FindByDigest, RequestOK
  <2>1. ASSUME NEW i \in Id, Become(r, [req[r] EXCEPT !.pc = Found(r), !.id = i])
        PROVE  Moves(r)
    <3> DEFINE q == [req[r] EXCEPT !.pc = Found(r), !.id = i]
    <3>1. q \in Request
      BY <1>0 DEF Request, Found, OnThread
    <3>2. RequestOK(q)
      BY <1>0, <2>0 DEF Request, RequestOK, Found
    <3> QED
      BY <2>1, <3>1, <3>2 DEF Moves
  <2>2. CASE Goto(r, "insert")
    <3>1. RequestOK([req[r] EXCEPT !.pc = "insert"])
      BY <1>0, <2>0 DEF Request, RequestOK
    <3> QED
      BY <2>2, <3>1, GotoMoves DEF OnThread
  <2> QED
    BY <1>2, <2>1, <2>2 DEF FindByDigest
<1>3. CASE MarkDeployed(r)
  <2>1. RequestOK([req[r] EXCEPT !.pc = "return"])
    BY <1>0, <1>3 DEF MarkDeployed, Request, RequestOK
  <2> QED
    BY <1>3, <2>1, GotoMoves DEF MarkDeployed, OnThread
<1>4. CASE Insert(r)
  <2>1. RequestOK([req[r] EXCEPT !.pc = "readback"])
    BY <1>0, <1>4 DEF Insert, Request, RequestOK
  <2> QED
    BY <1>4, <2>1, GotoMoves, FinishMoves DEF Insert, InsertRow, OnThread
<1>5. CASE ReadBack(r)
  <2>1. RequestOK([req[r] EXCEPT !.pc = "return"])
    BY <1>0, <1>5 DEF ReadBack, Request, RequestOK
  <2> QED
    BY <1>5, <2>1, GotoMoves, FinishMoves DEF ReadBack, OnThread
<1>6. CASE Return(r)
  BY <1>6, FinishMoves DEF Return
<1> QED
  BY <1>1, <1>2, <1>3, <1>4, <1>5, <1>6 DEF Remember

LEMMA EditMoves == ASSUME TypeOK, NEW r \in Operator, Edit(r) PROVE Moves(r)
  BY FinishMoves DEF Edit, Rename, RemoveRevision, Abort

-----------------------------------------------------------------------------
(* Types                                                                   *)

LEMMA TypeInit == Init => TypeOK
  BY PolicyAssumption, IdleOK DEF Init, TypeOK, Id

\* What the steps of one request leave of everything but the requests.
TablesOK ==
  /\ live \in Doc \cup {"unset"}
  /\ late \in SUBSET Doc
  /\ document \in [Id -> Doc \cup {None}]
  /\ deployed \in SUBSET Id
  /\ note \in [Id -> Note \cup {None}]
  /\ nextId \in 1 .. (MaxRevisions + 1)
  /\ page \in [Operator -> Doc \cup {"unset", None}]
  /\ accepted \in SUBSET Doc
  /\ owed \in SUBSET (Doc \X {"save", "deploy"})
  /\ forgotten \in SUBSET Doc
  /\ \A i \in Id : i >= nextId => document[i] = None

LEMMA StartTables ==
  ASSUME TypeOK, NEW r \in Operator, NEW i \in Instance, Start(r, i)
  PROVE  TablesOK'
<1>1. UNCHANGED <<remote, dbVars, owed, forgotten>>
  BY DEF Start, StartSave, StartKeep, StartDeploy, StartRename, StartRemove, GetPolicy
<1>2. page' \in [Operator -> Doc \cup {"unset", None}]
  BY DEF Start, StartSave, StartKeep, StartDeploy, StartRename, StartRemove, GetPolicy, TypeOK
<1> QED
  BY <1>1, <1>2 DEF TypeOK, TablesOK, remote, dbVars

LEMMA PushTables == ASSUME TypeOK, NEW r \in Operator, Push(r) PROVE TablesOK'
<1>1. UNCHANGED <<dbVars, page, forgotten>>
  BY DEF Push, PutAccepted, PutRejected, PutTimesOut, Acknowledged
<1>2. req[r].pc \in {"put", "ack"} => req[r].doc \in Doc /\ req[r].op \in {"save", "deploy"}
  BY DEF TypeOK, RequestOK
<1>3. live' \in Doc \cup {"unset"} /\ late' \in SUBSET Doc /\ accepted' \in SUBSET Doc
  BY <1>2 DEF Push, PutAccepted, PutRejected, PutTimesOut, Acknowledged, remote, TypeOK
<1>4. owed' \in SUBSET (Doc \X {"save", "deploy"})
  BY <1>2 DEF Push, PutAccepted, PutRejected, PutTimesOut, Acknowledged, TypeOK
<1> QED
  BY <1>1, <1>3, <1>4 DEF TypeOK, TablesOK, dbVars

LEMMA InsertTables ==
  ASSUME TypeOK, NEW r \in Operator, Insert(r)
  PROVE  TablesOK'
<1>0. req[r] \in Request /\ req[r].doc \in Doc /\ req[r].note \in Note \cup {None}
  BY DEF TypeOK, RequestOK, Request, Insert
<1>1. CASE UNCHANGED dbVars
  BY <1>1 DEF Insert, TypeOK, TablesOK, dbVars, remote
<1>2. CASE InsertRow(r)
  <2>1. nextId \in Id /\ nextId' = nextId + 1
    BY <1>2 DEF Insert, InsertRow
  <2>2. nextId' \in 1 .. (MaxRevisions + 1)
    BY <2>1, PolicyAssumption DEF Id
  <2>3. document' \in [Id -> Doc \cup {None}] /\ note' \in [Id -> Note \cup {None}]
    BY <1>0, <1>2, <2>1 DEF InsertRow, TypeOK
  <2>4. deployed' \in SUBSET Id
    BY <1>2, <2>1 DEF InsertRow, TypeOK
  <2>5. \A i \in Id : i >= nextId' => document'[i] = None
    BY <1>2, <2>1, PolicyAssumption DEF InsertRow, TypeOK, Id
  <2> QED
    BY <2>2, <2>3, <2>4, <2>5 DEF Insert, TypeOK, TablesOK, remote
<1> QED
  BY <1>1, <1>2 DEF Insert

LEMMA RememberTables == ASSUME TypeOK, NEW r \in Operator, Remember(r) PROVE TablesOK'
<1>0. req[r] \in Request /\ RequestOK(req[r])
  BY DEF TypeOK
<1>1. CASE CollectRevisions(r) \/ FindByDigest(r) \/ ReadBack(r)
  BY <1>1 DEF CollectRevisions, FindByDigest, ReadBack, TypeOK, TablesOK, dbVars, remote
<1>2. CASE MarkDeployed(r)
  BY <1>0, <1>2 DEF MarkDeployed, RequestOK, TypeOK, TablesOK, remote
<1>3. CASE Insert(r)
  BY <1>3, InsertTables
<1>4. CASE Return(r)
  BY <1>0, <1>4 DEF Return, RequestOK, TypeOK, TablesOK, dbVars, remote
<1> QED
  BY <1>1, <1>2, <1>3, <1>4 DEF Remember

LEMMA EditTables == ASSUME TypeOK, NEW r \in Operator, Edit(r) PROVE TablesOK'
<1>0. req[r] \in Request /\ RequestOK(req[r])
  BY DEF TypeOK
<1>1. CASE Rename(r)
  BY <1>0, <1>1 DEF Rename, Request, RequestOK, TypeOK, TablesOK, remote
<1>2. CASE RemoveRevision(r)
  <2>1. req[r].id \in Id /\ document[req[r].id] \in Doc \cup {None}
    BY <1>0, <1>2 DEF RemoveRevision, RequestOK, TypeOK
  <2>2. document' \in [Id -> Doc \cup {None}] /\ note' \in [Id -> Note \cup {None}]
    BY <1>2, <2>1 DEF RemoveRevision, TypeOK
  <2>3. owed' \subseteq owed /\ deployed' \subseteq deployed /\ forgotten' \in SUBSET Doc
    BY <1>2, <2>1 DEF RemoveRevision, TypeOK
  <2>4. \A i \in Id : i >= nextId' => document'[i] = None
    BY <1>2 DEF RemoveRevision, TypeOK
  <2> QED
    BY <1>2, <2>2, <2>3, <2>4 DEF RemoveRevision, TypeOK, TablesOK, remote
<1>3. CASE Abort(r)
  BY <1>3 DEF Abort, TypeOK, TablesOK, dbVars, remote
<1> QED
  BY <1>1, <1>2, <1>3 DEF Edit

LEMMA TypeNext == TypeOK /\ [Next]_vars => TypeOK'
<1> SUFFICES ASSUME TypeOK, [Next]_vars PROVE TypeOK'
  OBVIOUS
<1>1. ASSUME NEW r \in Operator,
             (\E i \in Instance : Start(r, i)) \/ Push(r) \/ Remember(r) \/ Edit(r)
      PROVE  TypeOK'
  <2>1. Moves(r) \/ UNCHANGED req
    BY <1>1, StartMoves, PushMoves, RememberMoves, EditMoves
  <2>2. req' \in [Operator -> Request] /\ \A o \in Operator : RequestOK(req'[o])
    BY <2>1 DEF Moves, Become, TypeOK
  <2>3. TablesOK'
    BY <1>1, StartTables, PushTables, RememberTables, EditTables
  <2> QED
    BY <2>2, <2>3 DEF TypeOK, TablesOK
<1>2. ASSUME NEW d \in Doc, LateArrival(d) \/ OutOfBand(d) PROVE TypeOK'
  <2>1. UNCHANGED <<dbVars, page, req, owed, forgotten>>
    BY <1>2 DEF LateArrival, OutOfBand
  <2>2. live' \in Doc \cup {"unset"} /\ late' \in SUBSET Doc /\ accepted' \in SUBSET Doc
    BY <1>2 DEF LateArrival, OutOfBand, TypeOK
  <2> QED
    BY <2>1, <2>2 DEF TypeOK, dbVars
<1>3. CASE UNCHANGED vars
  BY <1>3 DEF TypeOK, vars
<1> QED
  BY <1>1, <1>2, <1>3 DEF Next

\* Types, and what a request carries at each point.
THEOREM TypeCorrect == Spec => []TypeOK
  BY TypeInit, TypeNext, PTL DEF Spec

-----------------------------------------------------------------------------
(* Rows and stamps                                                         *)

\* A request past its PUT carries an accepted document.
PushOK(q) ==
  q.pc \in {"ack", "mark"} \/ (q.op = "save" /\ q.pc \in OnThread) => q.doc \in accepted

\* The id of a request that may stamp is a row of its document, or of none.
IdOK(q) ==
  q.op = "deploy" \/ q.pc = "mark" =>
    q.id \in Id /\ q.id < nextId /\ document[q.id] \in {q.doc, None}

HonestHistory ==
  /\ \A r \in Operator : PushOK(req[r]) /\ IdOK(req[r])
  /\ DigestUnique
  /\ StampedOnlyIfAccepted

\* The steps that touch the rows.
LEMMA Effects ==
  ASSUME TypeOK, [Next]_vars
  PROVE  /\ accepted \subseteq accepted'
         /\ \/ UNCHANGED <<document, deployed, nextId>>
            \/ \E r \in Operator : Remember(r) /\ Insert(r) /\ InsertRow(r) /\ ~Stored(req[r].doc)
            \/ \E r \in Operator : Remember(r) /\ MarkDeployed(r)
            \/ \E r \in Operator : Edit(r) /\ RemoveRevision(r)
<1>1. ASSUME NEW r \in Operator, NEW i \in Instance, Start(r, i)
      PROVE  UNCHANGED <<accepted, document, deployed, nextId>>
  BY <1>1 DEF Start, StartSave, StartKeep, StartDeploy, StartRename, StartRemove, GetPolicy,
     remote, dbVars
<1>2. ASSUME NEW r \in Operator, Push(r)
      PROVE  accepted \subseteq accepted' /\ UNCHANGED <<document, deployed, nextId>>
  BY <1>2 DEF Push, PutAccepted, PutRejected, PutTimesOut, Acknowledged, remote, dbVars
<1>3. ASSUME NEW r \in Operator, Remember(r), ~MarkDeployed(r),
             ~(Insert(r) /\ InsertRow(r) /\ ~Stored(req[r].doc))
      PROVE  UNCHANGED <<accepted, document, deployed, nextId>>
  BY <1>3 DEF Remember, CollectRevisions, FindByDigest, Insert, ReadBack, Return, remote, dbVars
<1>4. ASSUME NEW r \in Operator, Edit(r), ~RemoveRevision(r)
      PROVE  UNCHANGED <<accepted, document, deployed, nextId>>
  BY <1>4 DEF Edit, Rename, Abort, remote, dbVars
<1>5. ASSUME NEW d \in Doc, LateArrival(d) \/ OutOfBand(d)
      PROVE  accepted \subseteq accepted' /\ UNCHANGED <<document, deployed, nextId>>
  BY <1>5 DEF LateArrival, OutOfBand, dbVars
<1>6. ASSUME NEW r \in Operator, MarkDeployed(r) \/ Insert(r) \/ RemoveRevision(r)
      PROVE  UNCHANGED accepted
  BY <1>6 DEF MarkDeployed, Insert, RemoveRevision, remote
<1>7. CASE UNCHANGED vars
  BY <1>7 DEF vars
<1> QED
  BY <1>1, <1>2, <1>3, <1>4, <1>5, <1>6, <1>7 DEF Next

\* A row once inserted keeps its document until it is removed; no id comes back.
LEMMA RowsStay ==
  ASSUME TypeOK, [Next]_vars
  PROVE  /\ nextId' >= nextId
         /\ \A i \in Id : i < nextId => document'[i] \in {document[i], None}
<1>0. nextId \in Nat /\ \A i \in Id : i \in Nat
  BY PolicyAssumption DEF TypeOK, Id
<1>1. CASE UNCHANGED <<document, deployed, nextId>>
  BY <1>0, <1>1
<1>2. ASSUME NEW r \in Operator, InsertRow(r)
      PROVE  nextId' >= nextId /\ \A i \in Id : i < nextId => document'[i] = document[i]
  BY <1>0, <1>2 DEF InsertRow, TypeOK
<1>3. ASSUME NEW r \in Operator, MarkDeployed(r) \/ RemoveRevision(r)
      PROVE  nextId' = nextId /\ \A i \in Id : document'[i] \in {document[i], None}
  BY <1>3 DEF MarkDeployed, RemoveRevision, TypeOK
<1> QED
  BY <1>0, <1>1, <1>2, <1>3, Effects

LEMMA UniqueNext ==
  ASSUME TypeOK, DigestUnique, [Next]_vars
  PROVE  DigestUnique'
<1>1. CASE UNCHANGED <<document, deployed, nextId>>
  BY <1>1 DEF DigestUnique
<1>2. ASSUME NEW r \in Operator, Insert(r), InsertRow(r), ~Stored(req[r].doc) PROVE DigestUnique'
  <2>1. \A i \in Id : document'[i] = IF i = nextId THEN req[r].doc ELSE document[i]
    BY <1>2 DEF InsertRow, TypeOK
  <2> QED
    BY <1>2, <2>1 DEF DigestUnique, Stored
<1>3. ASSUME NEW r \in Operator, MarkDeployed(r) \/ RemoveRevision(r)
      PROVE  DigestUnique'
  <2>1. \A i \in Id : document'[i] \in {document[i], None}
    BY <1>3 DEF MarkDeployed, RemoveRevision, TypeOK
  <2> QED
    BY <2>1 DEF DigestUnique
<1> QED
  BY <1>1, <1>2, <1>3, Effects

LEMMA StampsNext ==
  ASSUME TypeOK, HonestHistory, [Next]_vars
  PROVE  StampedOnlyIfAccepted'
<1>0. accepted \subseteq accepted' /\ None \notin accepted
  BY Effects, PolicyAssumption DEF TypeOK
<1>1. CASE UNCHANGED <<document, deployed, nextId>>
  BY <1>0, <1>1 DEF HonestHistory, StampedOnlyIfAccepted
<1>2. ASSUME NEW r \in Operator, Insert(r), InsertRow(r) PROVE StampedOnlyIfAccepted'
  <2>1. req[r].op = "save" => req[r].doc \in accepted
    BY <1>2 DEF Insert, HonestHistory, PushOK, OnThread
  <2>2. deployed \subseteq Id /\ \A i \in Id : document'[i] = IF i = nextId THEN req[r].doc ELSE document[i]
    BY <1>2 DEF InsertRow, TypeOK
  <2>3. nextId \notin deployed
    BY <1>0, <2>2, PolicyAssumption DEF HonestHistory, StampedOnlyIfAccepted, TypeOK, Id
  <2>4. deployed' \subseteq deployed \cup {nextId}
        /\ (req[r].op # "save" => deployed' = deployed) /\ nextId \in Id
    BY <1>2 DEF InsertRow, Insert
  <2> QED
    BY <1>0, <2>1, <2>2, <2>3, <2>4 DEF HonestHistory, StampedOnlyIfAccepted
<1>3. ASSUME NEW r \in Operator, MarkDeployed(r) PROVE StampedOnlyIfAccepted'
  <2>1. req[r].doc \in accepted /\ document[req[r].id] \in {req[r].doc, None}
    BY <1>3 DEF MarkDeployed, HonestHistory, PushOK, IdOK
  <2> QED
    BY <1>0, <1>3, <2>1 DEF MarkDeployed, HonestHistory, StampedOnlyIfAccepted
<1>4. ASSUME NEW r \in Operator, RemoveRevision(r) PROVE StampedOnlyIfAccepted'
  BY <1>0, <1>4 DEF RemoveRevision, HonestHistory, StampedOnlyIfAccepted, TypeOK
<1> QED
  BY <1>1, <1>2, <1>3, <1>4, Effects

\* What a request carries when it has moved on.
LEMMA CarriesOn ==
  ASSUME TypeOK, HonestHistory, NEW r \in Operator,
         (\E i \in Instance : Start(r, i)) \/ Push(r) \/ Remember(r) \/ Edit(r)
  PROVE  PushOK(req[r])' /\ IdOK(req[r])'
<1>0. req[r] \in Request /\ RequestOK(req[r]) /\ PushOK(req[r]) /\ IdOK(req[r])
  BY DEF TypeOK, HonestHistory
<1>i. PushOK(Idle)' /\ IdOK(Idle)'
  BY DEF PushOK, IdOK, Idle, OnThread
<1>f. ASSUME Finish(r) PROVE PushOK(req[r])' /\ IdOK(req[r])'
  BY <1>f, <1>i DEF Finish, Become, TypeOK
<1>g. ASSUME NEW pc, Goto(r, pc)
      PROVE  req'[r].pc = pc /\ req'[r].op = req[r].op /\ req'[r].doc = req[r].doc
             /\ req'[r].id = req[r].id
  BY <1>0, <1>g DEF Goto, Become, TypeOK, Request
<1>1. ASSUME NEW i \in Instance, Start(r, i) PROVE PushOK(req[r])' /\ IdOK(req[r])'
  <2>1. ASSUME NEW id \in Id, StartDeploy(r, i, id) PROVE PushOK(req[r])' /\ IdOK(req[r])'
    <3>1. document[id] # None /\ id < nextId
      BY <2>1, PolicyAssumption DEF StartDeploy, TypeOK, Id
    <3>2. /\ req'[r].pc = "put" /\ req'[r].op = "deploy" /\ req'[r].id = id
          /\ req'[r].doc = document[id]
      BY <2>1 DEF StartDeploy, Become, TypeOK, Idle
    <3>3. UNCHANGED <<document, nextId>>
      BY <2>1 DEF StartDeploy, dbVars
    <3> QED
      BY <3>1, <3>2, <3>3 DEF PushOK, IdOK, OnThread
  <2>2. CASE \E d \in Doc : StartSave(r, i, d)
    BY <2>2 DEF StartSave, Become, TypeOK, Idle, PushOK, IdOK, OnThread
  <2>3. CASE \E d \in Doc, n \in {"label", None} : StartKeep(r, i, d, n)
    BY <2>3 DEF StartKeep, Become, TypeOK, Idle, PushOK, IdOK, OnThread
  <2>4. ASSUME NEW id \in Id,
               StartRemove(r, i, id) \/ \E n \in {"label", None} : StartRename(r, i, id, n)
        PROVE  PushOK(req[r])' /\ IdOK(req[r])'
    <3>1. req'[r].pc # "mark" /\ req'[r].pc # "ack" /\ req'[r].op \in {"remove", "rename"}
      BY <2>4 DEF StartRemove, StartRename, Become, TypeOK, Idle
    <3> QED
      BY <3>1 DEF PushOK, IdOK
  <2>5. CASE GetPolicy(r, i)
    <3>1. CASE UNCHANGED req
      BY <1>0, <2>5, <3>1 DEF GetPolicy, PushOK, IdOK, remote, dbVars
    <3>2. CASE live # "unset"
      <4>1. req'[r].pc = "got" /\ req'[r].op = "view"
        <5>1. req' = [req EXCEPT ![r] = [Idle EXCEPT !.pc = "got", !.at = i, !.op = "view",
                                                     !.doc = live, !.note = "found"]]
          BY <2>5, <3>2 DEF GetPolicy, Become
        <5> QED
          BY <5>1 DEF TypeOK, Idle
      <4> QED
        BY <4>1 DEF PushOK, IdOK, OnThread
    <3> QED
      BY <2>5, <3>1, <3>2 DEF GetPolicy
  <2> QED
    BY <1>1, <2>1, <2>2, <2>3, <2>4, <2>5 DEF Start
<1>2. CASE Push(r)
  <2>1. UNCHANGED <<document, nextId>> /\ accepted \subseteq accepted'
    BY <1>2 DEF Push, PutAccepted, PutRejected, PutTimesOut, Acknowledged, remote, dbVars
  <2>2. CASE PutAccepted(r)
    BY <1>0, <1>g, <2>1, <2>2 DEF PutAccepted, PushOK, IdOK, OnThread
  <2>3. CASE PutRejected(r) \/ PutTimesOut(r)
    BY <1>f, <2>3 DEF PutRejected, PutTimesOut
  <2>4. CASE Acknowledged(r)
    <3>1. req'[r].pc \in {"find", "mark"} /\ req'[r].op = req[r].op /\ req'[r].doc = req[r].doc
          /\ req'[r].id = req[r].id /\ (req'[r].pc = "mark" => req[r].op = "deploy")
      BY <1>0, <1>g, <2>4 DEF Acknowledged, RequestOK
    <3> QED
      BY <1>0, <2>1, <2>4, <3>1 DEF Acknowledged, PushOK, IdOK, OnThread
  <2> QED
    BY <1>2, <2>2, <2>3, <2>4 DEF Push
<1>3. CASE Remember(r)
  <2>0. UNCHANGED accepted
    BY <1>3 DEF Remember, CollectRevisions, FindByDigest, MarkDeployed, Insert, ReadBack, Return,
       remote
  <2>1. CASE CollectRevisions(r)
    BY <1>0, <1>g, <2>1 DEF CollectRevisions, RequestOK, PushOK, IdOK, OnThread
  <2>2. CASE FindByDigest(r)
    <3>1. UNCHANGED <<accepted, document, nextId>> /\ req[r].pc = "find" /\ req[r].op # "deploy"
      BY <1>0, <2>2 DEF FindByDigest, RequestOK, remote, dbVars
    <3>2. ASSUME NEW i \in Id, document[i] = req[r].doc,
                 Become(r, [req[r] EXCEPT !.pc = Found(r), !.id = i])
          PROVE  PushOK(req[r])' /\ IdOK(req[r])'
      <4>1. req'[r].pc = Found(r) /\ req'[r].op = req[r].op /\ req'[r].doc = req[r].doc
            /\ req'[r].id = i
        BY <1>0, <3>2 DEF Become, TypeOK, Request
      <4>2. document[i] # None /\ i < nextId
        BY <1>0, <3>1, <3>2, PolicyAssumption DEF RequestOK, TypeOK, Id
      <4> QED
        BY <1>0, <3>1, <3>2, <4>1, <4>2 DEF PushOK, IdOK, Found, OnThread
    <3>3. CASE Goto(r, "insert")
      BY <1>0, <1>g, <3>1, <3>3 DEF PushOK, IdOK, OnThread
    <3> QED
      BY <2>2, <3>2, <3>3 DEF FindByDigest
  <2>3. CASE MarkDeployed(r)
    BY <1>0, <1>g, <2>0, <2>3 DEF MarkDeployed, PushOK, IdOK, OnThread
  <2>4. CASE Insert(r)
    <3>1. req[r].pc = "insert" /\ req[r].op # "deploy"
      BY <1>0, <2>4 DEF Insert, RequestOK
    <3> QED
      BY <1>0, <1>f, <1>g, <2>0, <2>4, <3>1 DEF Insert, InsertRow, PushOK, IdOK, OnThread
  <2>5. CASE ReadBack(r)
    BY <1>0, <1>f, <1>g, <2>0, <2>5 DEF ReadBack, PushOK, IdOK, OnThread, dbVars
  <2>6. CASE Return(r)
    BY <1>f, <2>6 DEF Return
  <2> QED
    BY <1>3, <2>1, <2>2, <2>3, <2>4, <2>5, <2>6 DEF Remember
<1>4. CASE Edit(r)
  BY <1>f, <1>4 DEF Edit, Rename, RemoveRevision, Abort
<1> QED
  BY <1>1, <1>2, <1>3, <1>4

LEMMA HonestNext == TypeOK /\ HonestHistory /\ [Next]_vars => HonestHistory'
<1> SUFFICES ASSUME TypeOK, HonestHistory, [Next]_vars PROVE HonestHistory'
  OBVIOUS
<1>1. DigestUnique' /\ StampedOnlyIfAccepted'
  BY UniqueNext, StampsNext DEF HonestHistory
<1>2. ASSUME NEW o \in Operator, req'[o] = req[o] PROVE PushOK(req[o])' /\ IdOK(req[o])'
  <2>1. PushOK(req[o]) /\ IdOK(req[o]) /\ nextId \in Nat /\ nextId' \in Nat
    BY TypeNext, PolicyAssumption DEF HonestHistory, TypeOK
  <2>2. accepted \subseteq accepted'
    BY Effects
  <2>3. PushOK(req[o])'
    BY <1>2, <2>1, <2>2 DEF PushOK
  <2>4. IdOK(req[o])'
    <3>1. CASE ~(req[o].op = "deploy" \/ req[o].pc = "mark")
      BY <1>2, <3>1 DEF IdOK
    <3>2. CASE req[o].op = "deploy" \/ req[o].pc = "mark"
      <4>1. req[o].id \in Id /\ req[o].id < nextId /\ document[req[o].id] \in {req[o].doc, None}
        BY <2>1, <3>2 DEF IdOK
      <4>2. req[o].id < nextId' /\ document'[req[o].id] \in {req[o].doc, None}
        BY <2>1, <4>1, RowsStay, PolicyAssumption DEF Id
      <4> QED
        BY <1>2, <4>1, <4>2 DEF IdOK
    <3> QED
      BY <3>1, <3>2
  <2> QED
    BY <2>3, <2>4
<1>3. ASSUME NEW r \in Operator,
             (\E i \in Instance : Start(r, i)) \/ Push(r) \/ Remember(r) \/ Edit(r)
      PROVE  \A o \in Operator : PushOK(req[o])' /\ IdOK(req[o])'
  <2>1. \A o \in Operator \ {r} : req'[o] = req[o]
    BY <1>3, StartMoves, PushMoves, RememberMoves, EditMoves DEF Moves, Become, TypeOK
  <2> QED
    BY <1>2, <1>3, <2>1, CarriesOn
<1>4. ASSUME (\E d \in Doc : LateArrival(d) \/ OutOfBand(d)) \/ UNCHANGED vars
      PROVE  \A o \in Operator : PushOK(req[o])' /\ IdOK(req[o])'
  BY <1>2, <1>4 DEF LateArrival, OutOfBand, vars
<1>5. \A o \in Operator : PushOK(req[o])' /\ IdOK(req[o])'
  BY <1>3, <1>4 DEF Next
<1> QED
  BY <1>1, <1>5 DEF HonestHistory

LEMMA HonestInit == Init => HonestHistory
  BY DEF Init, HonestHistory, PushOK, IdOK, DigestUnique, StampedOnlyIfAccepted, Idle, OnThread

\* A document is stored once, whatever renders, saves and pushes race, on any
\* number of processes.
THEOREM OneRowPerDocument == Spec => []DigestUnique
<1>1. HonestHistory => DigestUnique
  BY DEF HonestHistory
<1> QED
  BY <1>1, HonestInit, HonestNext, TypeCorrect, PTL DEF Spec

\* A row is stamped as deployed only when Headscale accepted its very document,
\* on any number of processes.
THEOREM StampsAreEarned == Spec => []StampedOnlyIfAccepted
<1>1. HonestHistory => StampedOnlyIfAccepted
  BY DEF HonestHistory
<1> QED
  BY <1>1, HonestInit, HonestNext, TypeCorrect, PTL DEF Spec

-----------------------------------------------------------------------------
(* What a page found running                                               *)

Anchored(d) == Stored(d) \/ d \in forgotten

AnchorInv ==
  /\ RollbackAnchor
  /\ \A r \in Operator :
       req[r].op = "view" /\ req[r].pc = "return" => Anchored(req[r].doc)

\* Only a removal takes a document away, and then it is forgotten.
LEMMA AnchorsHold ==
  ASSUME TypeOK, [Next]_vars, NEW d \in Doc, Anchored(d)
  PROVE  Anchored(d)'
<1>0. forgotten \subseteq forgotten'
  <2>1. ASSUME NEW r \in Operator, Edit(r) PROVE forgotten \subseteq forgotten'
    BY <2>1 DEF Edit, Rename, RemoveRevision, Abort
  <2>2. ASSUME NEW r \in Operator, (\E i \in Instance : Start(r, i)) \/ Push(r) \/ Remember(r)
        PROVE  UNCHANGED forgotten
    BY <2>2 DEF Start, StartSave, StartKeep, StartDeploy, StartRename, StartRemove, GetPolicy,
       Push, PutAccepted, PutRejected, PutTimesOut, Acknowledged,
       Remember, CollectRevisions, FindByDigest, MarkDeployed, Insert, ReadBack, Return
  <2> QED
    BY <2>1, <2>2 DEF Next, LateArrival, OutOfBand, vars
<1>1. CASE UNCHANGED <<document, deployed, nextId>>
  BY <1>0, <1>1 DEF Anchored, Stored
<1>2. ASSUME NEW r \in Operator, InsertRow(r) PROVE Anchored(d)'
  <2>1. \A i \in Id : i # nextId => document'[i] = document[i]
    BY <1>2 DEF InsertRow, TypeOK
  <2>2. ASSUME NEW i \in Id, document[i] = d PROVE i # nextId
    BY <2>2, PolicyAssumption DEF TypeOK, Id
  <2> QED
    BY <1>0, <2>1, <2>2 DEF Anchored, Stored
<1>3. ASSUME NEW r \in Operator, MarkDeployed(r) PROVE Anchored(d)'
  BY <1>0, <1>3 DEF MarkDeployed, Anchored, Stored
<1>4. ASSUME NEW r \in Operator, RemoveRevision(r) PROVE Anchored(d)'
  <2>1. \A i \in Id : i # req[r].id => document'[i] = document[i]
    BY <1>4 DEF RemoveRevision, TypeOK
  <2>2. document[req[r].id] # None => document[req[r].id] \in forgotten'
    BY <1>4 DEF RemoveRevision
  <2> QED
    BY <1>0, <2>1, <2>2, PolicyAssumption DEF Anchored, Stored
<1> QED
  BY <1>1, <1>2, <1>3, <1>4, Effects

LEMMA AnchorNext == TypeOK /\ AnchorInv /\ [Next]_vars => AnchorInv'
<1> SUFFICES ASSUME TypeOK, AnchorInv, [Next]_vars PROVE AnchorInv'
  OBVIOUS
<1>1. ASSUME NEW o \in Operator, page'[o] \in Doc PROVE Anchored(page[o])'
  <2>1. CASE page'[o] = page[o]
    BY <1>1, <2>1, AnchorsHold DEF AnchorInv, RollbackAnchor, Anchored
  <2>2. CASE page'[o] # page[o]
    <3>1. Return(o) /\ req[o].op = "view" /\ page'[o] = req[o].doc
      <4>1. ASSUME NEW r \in Operator, NEW i \in Instance, Start(r, i) PROVE page'[o] = page[o]
        BY <1>1, <4>1, PolicyAssumption DEF Start, StartSave, StartKeep, StartDeploy, StartRename,
           StartRemove, GetPolicy, TypeOK
      <4>2. ASSUME NEW r \in Operator, Push(r) \/ Edit(r) PROVE page'[o] = page[o]
        BY <4>2 DEF Push, PutAccepted, PutRejected, PutTimesOut, Acknowledged, Edit, Rename,
           RemoveRevision, Abort
      <4>3. ASSUME NEW r \in Operator, Remember(r), ~Return(r) PROVE page'[o] = page[o]
        BY <4>3 DEF Remember, CollectRevisions, FindByDigest, MarkDeployed, Insert, ReadBack
      <4>4. ASSUME NEW r \in Operator, Return(r)
            PROVE  Return(o) /\ req[o].op = "view" /\ page'[o] = req[o].doc
        BY <2>2, <4>4 DEF Return, TypeOK
      <4>5. CASE (\E d \in Doc : LateArrival(d) \/ OutOfBand(d)) \/ UNCHANGED vars
        BY <2>2, <4>5 DEF LateArrival, OutOfBand, vars
      <4> QED
        BY <2>2, <4>1, <4>2, <4>3, <4>4, <4>5 DEF Next
    <3>2. Anchored(req[o].doc)
      BY <3>1 DEF Return, AnchorInv
    <3>3. req[o].doc \in Doc
      BY <1>1, <3>1
    <3>4. UNCHANGED <<document, forgotten>>
      BY <3>1 DEF Return, dbVars
    <3> QED
      BY <3>1, <3>2, <3>4 DEF Anchored, Stored
  <2> QED
    BY <2>1, <2>2
<1>2. ASSUME NEW o \in Operator, req'[o].op = "view", req'[o].pc = "return"
      PROVE  Anchored(req[o].doc)'
  <2>0. req[o] \in Request /\ RequestOK(req[o]) /\ Idle.pc = "idle"
    BY DEF TypeOK, Idle
  <2>1. CASE req'[o] = req[o]
    <3>1. Anchored(req[o].doc) /\ req[o].doc \in Doc
      BY <1>2, <2>0, <2>1 DEF AnchorInv, RequestOK
    <3> QED
      BY <2>1, <3>1, AnchorsHold
  <2>2. CASE req'[o] # req[o]
    <3>1. CASE \E i \in Instance : Start(o, i)
      <4>1. PICK i \in Instance : Start(o, i)
        BY <3>1
      <4>2. req'[o].pc # "return"
        <5>1. CASE \E d \in Doc : StartSave(o, i, d)
          BY <5>1 DEF StartSave, Become, TypeOK, Idle
        <5>2. CASE \E d \in Doc, n \in {"label", None} : StartKeep(o, i, d, n)
          BY <5>2 DEF StartKeep, Become, TypeOK, Idle
        <5>3. CASE \E id \in Id : StartDeploy(o, i, id)
          BY <2>2, <5>3 DEF StartDeploy, Become, TypeOK, Idle
        <5>4. CASE \E id \in Id : StartRemove(o, i, id)
          BY <2>2, <5>4 DEF StartRemove, Become, TypeOK, Idle
        <5>5. CASE \E id \in Id, n \in {"label", None} : StartRename(o, i, id, n)
          BY <2>2, <5>5 DEF StartRename, Become, TypeOK, Idle
        <5>6. CASE GetPolicy(o, i)
          BY <2>2, <5>6 DEF GetPolicy, Become, TypeOK, Idle
        <5> QED
          BY <4>1, <5>1, <5>2, <5>3, <5>4, <5>5, <5>6 DEF Start
      <4> QED
        BY <1>2, <4>2
    <3>2. CASE Push(o) \/ Edit(o)
      BY <1>2, <2>0, <3>2 DEF Push, PutAccepted, PutRejected, PutTimesOut, Acknowledged, Edit,
         Rename, RemoveRevision, Abort, Goto, Finish, Become, TypeOK, Request
    <3>3. CASE Remember(o)
      <4>1. CASE FindByDigest(o)
        <5>1. Stored(req[o].doc) /\ req'[o].doc = req[o].doc
          <6>1. CASE Goto(o, "insert")
            <7>1. req' = [req EXCEPT ![o] = [req[o] EXCEPT !.pc = "insert"]] /\ o \in DOMAIN req
              BY <6>1 DEF Goto, Become, TypeOK
            <7> QED
              BY <1>2, <2>0, <7>1 DEF Request
          <6>2. CASE \E i \in Id : /\ document[i] = req[o].doc
                                   /\ Become(o, [req[o] EXCEPT !.pc = Found(o), !.id = i])
            <7>1. req'[o].doc = req[o].doc
              BY <2>0, <6>2 DEF Become, TypeOK, Request
            <7> QED
              BY <6>2, <7>1 DEF Stored
          <6> QED
            BY <4>1, <6>1, <6>2 DEF FindByDigest
        <5> QED
          BY <4>1, <5>1 DEF FindByDigest, Anchored, Stored, dbVars
      <4>2. CASE ReadBack(o)
        <5>1. Stored(req[o].doc) /\ req'[o].doc = req[o].doc
          BY <1>2, <2>0, <4>2 DEF ReadBack, Goto, Finish, Become, TypeOK, Request
        <5> QED
          BY <4>2, <5>1 DEF ReadBack, Anchored, Stored, dbVars
      <4>3. CASE MarkDeployed(o)
        <5>1. req[o].op \in {"save", "deploy"} /\ req'[o].op = req[o].op
          BY <2>0, <4>3 DEF MarkDeployed, Goto, Become, TypeOK, Request, RequestOK
        <5> QED
          BY <1>2, <5>1
      <4>4. CASE CollectRevisions(o) \/ Insert(o) \/ Return(o)
        BY <1>2, <2>0, <4>4 DEF CollectRevisions, Insert, InsertRow, Return, Goto, Finish, Become,
           TypeOK, Request
      <4> QED
        BY <3>3, <4>1, <4>2, <4>3, <4>4 DEF Remember
    <3>4. ASSUME NEW r \in Operator,
                 (\E i \in Instance : Start(r, i)) \/ Push(r) \/ Remember(r) \/ Edit(r)
          PROVE  r = o
      BY <2>2, <3>4, StartMoves, PushMoves, RememberMoves, EditMoves DEF Moves, Become, TypeOK
    <3>5. CASE (\E d \in Doc : LateArrival(d) \/ OutOfBand(d)) \/ UNCHANGED vars
      BY <2>2, <3>5 DEF LateArrival, OutOfBand, vars
    <3> QED
      BY <3>1, <3>2, <3>3, <3>4, <3>5 DEF Next
  <2> QED
    BY <2>1, <2>2
<1>3. RollbackAnchor'
  BY <1>1 DEF RollbackAnchor, Anchored
<1> QED
  BY <1>2, <1>3 DEF AnchorInv

\* What an operator's page found running is kept until someone removes it, on
\* any number of processes.
THEOREM AnchorIsKept == Spec => []RollbackAnchor
<1>1. Init => AnchorInv
  BY PolicyAssumption DEF Init, AnchorInv, RollbackAnchor, Idle
<1>2. AnchorInv => RollbackAnchor
  BY DEF AnchorInv
<1> QED
  BY <1>1, <1>2, AnchorNext, TypeCorrect, PTL DEF Spec

-----------------------------------------------------------------------------
(* The store implements the abstract history                               *)

HistoryEntries == [d \in Doc |-> Entry(d)]

LEMMA SameEntries ==
  ASSUME UNCHANGED <<document, deployed>> PROVE HistoryEntries' = HistoryEntries
  BY DEF HistoryEntries, Entry, Stored

LEMMA InsertStores ==
  ASSUME TypeOK, HonestHistory, NEW r \in Operator, NEW e, e = req[r].doc,
         Insert(r), InsertRow(r), ~Stored(e)
  PROVE  History!Store(e) \/ History!Stamp(e)
<1>0. e \in Doc /\ UNCHANGED accepted /\ nextId \in Id /\ deployed \subseteq Id
  BY DEF Insert, TypeOK, RequestOK, remote
<1>1. \A i \in Id : document'[i] = IF i = nextId THEN e ELSE document[i]
  BY DEF InsertRow, TypeOK
<1>2. nextId \notin deployed /\ document[nextId] = None
  BY <1>0, PolicyAssumption DEF HonestHistory, StampedOnlyIfAccepted, TypeOK, Id
<1>3. deployed' = IF req[r].op = "save" THEN deployed \cup {nextId} ELSE deployed
  BY DEF InsertRow
<1>4. ASSUME NEW d \in Doc, d # e PROVE Entry(d)' = Entry(d)
  <2>1. Stored(d)' <=> Stored(d)
    BY <1>0, <1>1, <1>2, <1>4, PolicyAssumption DEF Stored
  <2>2. (\E i \in deployed' : document'[i] = d) <=> (\E i \in deployed : document[i] = d)
    BY <1>0, <1>1, <1>2, <1>3, <1>4, PolicyAssumption
  <2> QED
    BY <2>1, <2>2 DEF Entry
<1>5. Entry(e) = "absent"
  BY <1>0 DEF Entry, Stored
<1>6. CASE req[r].op = "save"
  <2>1. Entry(e)' = "deployed"
    BY <1>0, <1>1, <1>3, <1>6 DEF Entry
  <2>2. e \in accepted
    BY <1>6 DEF Insert, HonestHistory, PushOK, OnThread
  <2>3. HistoryEntries' = [HistoryEntries EXCEPT ![e] = "deployed"]
    BY <1>0, <1>4, <2>1 DEF HistoryEntries
  <2> QED
    BY <1>0, <2>2, <2>3 DEF History!Stamp, HistoryEntries
<1>7. CASE req[r].op # "save"
  <2>1. Stored(e)' /\ ~(\E i \in deployed' : document'[i] = e)
    BY <1>0, <1>1, <1>2, <1>3, <1>7 DEF Stored
  <2>2. Entry(e)' = "draft"
    BY <2>1 DEF Entry
  <2>3. HistoryEntries' = [HistoryEntries EXCEPT ![e] = "draft"]
    BY <1>0, <1>4, <2>2 DEF HistoryEntries
  <2> QED
    BY <1>0, <1>5, <2>3 DEF History!Store, HistoryEntries
<1> QED
  BY <1>6, <1>7

LEMMA MarkStamps ==
  ASSUME TypeOK, HonestHistory, NEW r \in Operator, MarkDeployed(r),
         NEW e, e = req[r].doc, NEW id, id = req[r].id
  PROVE  History!Stamp(e) \/ UNCHANGED History!hvars
<1>0. e \in Doc /\ e \in accepted /\ UNCHANGED <<accepted, document>> /\ id \in Id
      /\ document[id] \in {e, None}
  BY DEF MarkDeployed, HonestHistory, PushOK, IdOK, TypeOK, RequestOK, remote
<1>1. CASE document[id] = None
  <2>1. UNCHANGED <<document, deployed>>
    BY <1>0, <1>1 DEF MarkDeployed
  <2> QED
    BY <1>0, <2>1, SameEntries DEF History!hvars, HistoryEntries
<1>2. CASE document[id] # None
  <2>1. deployed' = deployed \cup {id} /\ document[id] = e
    BY <1>0, <1>2 DEF MarkDeployed
  <2>2. Entry(e)' = "deployed"
    BY <1>0, <2>1 DEF Entry
  <2>3. \A d \in Doc : d # e => Entry(d)' = Entry(d)
    BY <1>0, <2>1 DEF Entry, Stored
  <2>4. HistoryEntries' = [HistoryEntries EXCEPT ![e] = "deployed"]
    BY <1>0, <2>2, <2>3 DEF HistoryEntries
  <2> QED
    BY <1>0, <2>4 DEF History!Stamp, HistoryEntries
<1> QED
  BY <1>1, <1>2

LEMMA RemoveForgets ==
  ASSUME TypeOK, HonestHistory, NEW r \in Operator, RemoveRevision(r),
         NEW id, id = req[r].id, NEW e, e = document[id]
  PROVE  (\E d \in Doc : History!Forget(d)) \/ UNCHANGED History!hvars
<1>0. id \in Id /\ UNCHANGED accepted /\ deployed' = deployed \ {id} /\ deployed \subseteq Id
  BY DEF RemoveRevision, TypeOK, RequestOK, remote
<1>1. \A i \in Id : document'[i] = IF i = id THEN None ELSE document[i]
  BY DEF RemoveRevision, TypeOK
<1>2. CASE e = None
  <2>1. document' = document
    BY <1>0, <1>1, <1>2 DEF RemoveRevision, TypeOK
  <2>2. id \notin deployed
    BY <1>2, PolicyAssumption DEF HonestHistory, StampedOnlyIfAccepted, TypeOK
  <2> QED
    BY <1>0, <2>1, <2>2, SameEntries DEF History!hvars, HistoryEntries
<1>3. CASE e # None
  <2>0. e \in Doc
    BY <1>0, <1>3 DEF TypeOK
  <2>1. \A i \in Id : document[i] = e => i = id
    BY <1>0, <1>3 DEF HonestHistory, DigestUnique
  <2>2. Entry(e)' = "absent"
    BY <1>0, <1>1, <1>3, <2>0, <2>1, PolicyAssumption DEF Entry, Stored
  <2>3. ASSUME NEW d \in Doc, d # e PROVE Entry(d)' = Entry(d)
    <3>1. Stored(d)' <=> Stored(d)
      BY <1>0, <1>1, <2>3, PolicyAssumption DEF Stored
    <3>2. (\E i \in deployed' : document'[i] = d) <=> (\E i \in deployed : document[i] = d)
      BY <1>0, <1>1, <2>3, PolicyAssumption
    <3> QED
      BY <3>1, <3>2 DEF Entry
  <2>4. HistoryEntries' = [HistoryEntries EXCEPT ![e] = "absent"]
    BY <2>0, <2>2, <2>3 DEF HistoryEntries
  <2> QED
    BY <1>0, <2>0, <2>4 DEF History!Forget, HistoryEntries
<1> QED
  BY <1>2, <1>3

\* The steps that leave the rows alone and let Headscale accept something.
LEMMA AcceptAccepts ==
  ASSUME TypeOK, [Next]_vars, UNCHANGED <<document, deployed>>
  PROVE  (\E d \in Doc : History!Accept(d)) \/ UNCHANGED History!hvars
<1>1. HistoryEntries' = HistoryEntries
  BY SameEntries
<1>2. UNCHANGED accepted \/ \E d \in Doc : accepted' = accepted \cup {d}
  <2>1. ASSUME NEW r \in Operator, Push(r)
        PROVE  UNCHANGED accepted \/ \E d \in Doc : accepted' = accepted \cup {d}
    <3>1. req[r].pc = "put" => req[r].doc \in Doc
      BY DEF TypeOK, RequestOK
    <3> QED
      BY <2>1, <3>1 DEF Push, PutAccepted, PutRejected, PutTimesOut, Acknowledged, remote
  <2>2. ASSUME NEW r \in Operator, (\E i \in Instance : Start(r, i)) \/ Remember(r) \/ Edit(r)
        PROVE  UNCHANGED accepted
    BY <2>2 DEF Start, StartSave, StartKeep, StartDeploy, StartRename, StartRemove, GetPolicy,
       Remember, CollectRevisions, FindByDigest, MarkDeployed, Insert, ReadBack, Return,
       Edit, Rename, RemoveRevision, Abort, remote
  <2> QED
    BY <2>1, <2>2 DEF Next, LateArrival, OutOfBand, vars
<1> QED
  BY <1>1, <1>2 DEF History!Accept, History!hvars, HistoryEntries

\* The store implements the abstract history for any number of documents,
\* operators and processes: one entry per document, a draft until a push of it
\* was accepted, never a draft again until it is forgotten.
THEOREM HistoryImplemented == Spec => ImplementsHistory
<1>1. Init => History!HInit
  BY PolicyAssumption DEF Init, History!HInit, Entry, Stored
<1>2. TypeOK /\ HonestHistory /\ [Next]_vars => [History!HNext]_(History!hvars)
  <2> SUFFICES ASSUME TypeOK, HonestHistory, [Next]_vars
               PROVE  History!HNext \/ UNCHANGED History!hvars
    OBVIOUS
  <2>1. CASE UNCHANGED <<document, deployed, nextId>>
    BY <2>1, AcceptAccepts DEF History!HNext
  <2>2. ASSUME NEW r \in Operator, Insert(r), InsertRow(r), ~Stored(req[r].doc)
        PROVE  History!HNext
    <3>1. req[r].doc \in Doc
      BY <2>2 DEF Insert, TypeOK, RequestOK
    <3> QED
      BY <2>2, <3>1, InsertStores DEF History!HNext
  <2>3. ASSUME NEW r \in Operator, MarkDeployed(r)
        PROVE  History!HNext \/ UNCHANGED History!hvars
    <3>1. req[r].doc \in Doc
      BY <2>3 DEF MarkDeployed, TypeOK, RequestOK
    <3> QED
      BY <2>3, <3>1, MarkStamps DEF History!HNext
  <2>4. ASSUME NEW r \in Operator, RemoveRevision(r) PROVE History!HNext \/ UNCHANGED History!hvars
    BY <2>4, RemoveForgets DEF History!HNext
  <2> QED
    BY <2>1, <2>2, <2>3, <2>4, Effects
<1> QED
  BY <1>1, <1>2, HonestInit, HonestNext, TypeCorrect, PTL
     DEF Spec, ImplementsHistory, History!HSpec

-----------------------------------------------------------------------------
(* One process: an acknowledged save of the editor is a stamped row, or is *)
(* still being recorded.                                                   *)

Noted(d) == \E i \in deployed : document[i] = d

\* What the lookup said is still so when the request acts on it.
RecordOK(q) ==
  /\ q.pc = "insert" => ~Stored(q.doc)
  /\ q.op = "save" /\ q.pc = "mark" => document[q.id] = q.doc
  /\ q.op = "save" /\ q.pc \in {"readback", "return"} => Noted(q.doc)

OneOnThread ==
  \A r, s \in Operator : req[r].pc \in OnThread /\ req[s].pc \in OnThread => r = s

Recorded ==
  /\ OneOnThread
  /\ \A r \in Operator : RecordOK(req[r])
  /\ SavesRemembered

LEMMA FreeMeansNobody ==
  ASSUME NEW i, Instance = {i}, TypeOK, NEW a \in Instance, ThreadFree(a)
  PROVE  \A r \in Operator : req[r].pc \notin OnThread
  BY DEF TypeOK, RequestOK, ThreadFree, OnThread

WillBeNoted(d) == \E i \in deployed' : document'[i] = d

\* A save that was being recorded by r is settled by the step, or goes on.
GoesOn(r) ==
  req[r].op = "save" /\ req[r].pc \in OnThread =>
    \/ req'[r].op = "save" /\ req'[r].doc = req[r].doc /\ req'[r].pc \in OnThread
    \/ WillBeNoted(req[r].doc)
    \/ <<req[r].doc, "save">> \notin owed'

\* A step of r that takes no stamped row of what is owed away.
LEMMA StepOf ==
  ASSUME TypeOK, Recorded, NEW r \in Operator,
         \A o \in Operator \ {r} : req'[o] = req[o],
         req'[r].pc \in OnThread \/ ~UNCHANGED <<document, deployed>> =>
           \A o \in Operator \ {r} : req[o].pc \notin OnThread,
         RecordOK(req[r])',
         \A o \in owed' : o \in owed \/ Recording(o)',
         \A o \in owed' : Remembered(o) => Remembered(o)',
         GoesOn(r)
  PROVE  Recorded'
<1>1. OneOnThread'
  BY DEF Recorded, OneOnThread
<1>2. ASSUME NEW o \in Operator PROVE RecordOK(req[o])'
  <2>1. CASE o = r
    BY <2>1
  <2>2. CASE o # r /\ UNCHANGED <<document, deployed>>
    BY <2>2 DEF Recorded, RecordOK, Noted, Stored
  <2>3. CASE o # r /\ req'[o].pc \notin OnThread
    BY <2>3 DEF RecordOK, OnThread
  <2> QED
    BY <2>1, <2>2, <2>3
<1>3. SavesRemembered'
  <2> SUFFICES ASSUME NEW o \in owed', o[2] = "save" PROVE Recording(o)' \/ Remembered(o)'
    BY DEF SavesRemembered
  <2>1. CASE Remembered(o) \/ Recording(o)'
    BY <2>1
  <2>2. CASE o \in owed /\ ~Remembered(o)
    <3>1. PICK s \in Operator : req[s].op = "save" /\ req[s].doc = o[1] /\ req[s].pc \in OnThread
      BY <2>2 DEF Recorded, SavesRemembered, Recording
    <3>2. o = <<req[s].doc, "save">>
      BY <2>2, <3>1 DEF TypeOK
    <3>3. CASE s = r
      BY <3>1, <3>2, <3>3 DEF GoesOn, Recording, Remembered, WillBeNoted
    <3>4. CASE s # r
      BY <3>1, <3>4 DEF Recording
    <3> QED
      BY <3>3, <3>4
  <2> QED
    BY <2>1, <2>2
<1> QED
  BY <1>1, <1>2, <1>3 DEF Recorded

LEMMA RecordedStep ==
  ASSUME NEW i, Instance = {i}, TypeOK, HonestHistory, Recorded, NEW r \in Operator,
         (\E a \in Instance : Start(r, a)) \/ Push(r) \/ Remember(r) \/ Edit(r)
  PROVE  Recorded'
<1>0. /\ req[r] \in Request /\ RequestOK(req[r]) /\ RecordOK(req[r]) /\ IdOK(req[r])
      /\ req \in [Operator -> Request] /\ Idle.pc = "idle" /\ Idle.op = "none"
  BY DEF TypeOK, HonestHistory, Recorded, Idle
<1>b. \A o \in Operator \ {r} : req'[o] = req[o]
  BY StartMoves, PushMoves, RememberMoves, EditMoves DEF Moves, Become, TypeOK
<1>t. req[r].pc \in OnThread => \A o \in Operator \ {r} : req[o].pc \notin OnThread
  BY DEF Recorded, OneOnThread
<1>s. ASSUME UNCHANGED <<document, deployed>> PROVE \A o \in owed' : Remembered(o) => Remembered(o)'
  BY <1>s DEF Remembered
<1>f. ASSUME Finish(r) PROVE req'[r].pc = "idle" /\ RecordOK(req[r])'
  BY <1>0, <1>f DEF Finish, Become, RecordOK
<1>g. ASSUME NEW pc, Goto(r, pc)
      PROVE  req'[r].pc = pc /\ req'[r].op = req[r].op /\ req'[r].doc = req[r].doc
             /\ req'[r].id = req[r].id
  BY <1>0, <1>g DEF Goto, Become, Request
<1>1. ASSUME NEW a \in Instance, Start(r, a) PROVE Recorded'
  <2>1. UNCHANGED <<document, deployed, owed>> /\ req[r].pc = "idle"
    BY <1>1 DEF Start, StartSave, StartKeep, StartDeploy, StartRename, StartRemove, GetPolicy,
       dbVars
  <2>2. req'[r].pc \in {"idle", "put", "got"}
        \/ (ThreadFree(a) /\ req'[r].pc \in {"find", "rename", "remove"})
    <3>1. ASSUME NEW d \in Doc, StartSave(r, a, d) PROVE req'[r].pc = "put"
      BY <1>0, <3>1 DEF StartSave, Become, Idle
    <3>2. ASSUME NEW d \in Doc, NEW n \in {"label", None}, StartKeep(r, a, d, n)
          PROVE  ThreadFree(a) /\ req'[r].pc = "find"
      BY <1>0, <3>2 DEF StartKeep, Become, Idle
    <3>3. ASSUME NEW id \in Id, StartDeploy(r, a, id) PROVE req'[r].pc = "put"
      BY <1>0, <3>3 DEF StartDeploy, Become, Idle
    <3>4. ASSUME NEW id \in Id, StartRemove(r, a, id)
          PROVE  ThreadFree(a) /\ req'[r].pc = "remove"
      BY <1>0, <3>4 DEF StartRemove, Become, Idle
    <3>6. ASSUME NEW id \in Id, NEW n \in {"label", None}, StartRename(r, a, id, n)
          PROVE  ThreadFree(a) /\ req'[r].pc = "rename"
      BY <1>0, <3>6 DEF StartRename, Become, Idle
    <3>5. ASSUME GetPolicy(r, a) PROVE req'[r].pc \in {"idle", "got"}
      <4>1. CASE live = "unset"
        BY <2>1, <3>5, <4>1 DEF GetPolicy
      <4>2. CASE live # "unset"
        BY <1>0, <3>5, <4>2 DEF GetPolicy, Become, Idle
      <4> QED
        BY <4>1, <4>2
    <3> QED
      <4>1. ASSUME NEW d \in Doc, StartSave(r, a, d) \/ \E n \in {"label", None} : StartKeep(r, a, d, n)
            PROVE  req'[r].pc = "put" \/ (ThreadFree(a) /\ req'[r].pc = "find")
        BY <3>1, <3>2, <4>1
      <4>2. ASSUME NEW id \in Id,
                   \/ StartDeploy(r, a, id) \/ StartRemove(r, a, id)
                   \/ \E n \in {"label", None} : StartRename(r, a, id, n)
            PROVE  req'[r].pc = "put" \/ (ThreadFree(a) /\ req'[r].pc \in {"rename", "remove"})
        BY <3>3, <3>4, <3>6, <4>2
      <4> QED
        BY <1>1, <3>5, <4>1, <4>2 DEF Start
  <2>3. RecordOK(req[r])'
    BY <2>2 DEF RecordOK
  <2>4. req'[r].pc \in OnThread => \A o \in Operator : req[o].pc \notin OnThread
    BY <2>2, FreeMeansNobody DEF OnThread
  <2>5. GoesOn(r)
    BY <2>1 DEF GoesOn, OnThread
  <2> QED
    BY <1>b, <1>s, <2>1, <2>3, <2>4, <2>5, StepOf
<1>2. CASE Push(r)
  <2>1. UNCHANGED <<document, deployed>> /\ req[r].pc \in {"put", "ack"}
    BY <1>2 DEF Push, PutAccepted, PutRejected, PutTimesOut, Acknowledged, dbVars
  <2>2. GoesOn(r)
    BY <2>1 DEF GoesOn, OnThread
  <2>3. CASE PutAccepted(r) \/ PutRejected(r) \/ PutTimesOut(r)
    <3>1. req'[r].pc \in {"ack", "idle"} /\ UNCHANGED owed
      BY <1>f, <1>g, <2>3 DEF PutAccepted, PutRejected, PutTimesOut
    <3>2. RecordOK(req[r])'
      BY <3>1 DEF RecordOK
    <3> QED
      BY <1>b, <1>s, <2>1, <2>2, <3>1, <3>2, StepOf DEF OnThread
  <2>4. CASE Acknowledged(r)
    <3>1. req[r].at \in Instance
      BY <1>0, <2>1 DEF RequestOK
    <3>2. \A o \in Operator : req[o].pc \notin OnThread
      BY <2>4, <3>1, FreeMeansNobody DEF Acknowledged
    <3>3. /\ req'[r].op = req[r].op /\ req'[r].doc = req[r].doc /\ req'[r].pc \in OnThread
          /\ req'[r].pc \in {"find", "mark"} /\ (req'[r].pc = "mark" => req[r].op # "save")
      BY <1>g, <2>4 DEF Acknowledged, OnThread
    <3>4. RecordOK(req[r])'
      BY <3>3 DEF RecordOK
    <3>5. \A o \in owed' : o \in owed \/ Recording(o)'
      BY <2>4, <3>3 DEF Acknowledged, Recording
    <3> QED
      BY <1>b, <1>s, <2>1, <2>2, <3>2, <3>4, <3>5, StepOf
  <2> QED
    BY <1>2, <2>3, <2>4 DEF Push
<1>3. CASE Remember(r)
  <2>0. UNCHANGED owed
    BY <1>3 DEF Remember, CollectRevisions, FindByDigest, MarkDeployed, Insert, ReadBack, Return
  <2>1. CASE CollectRevisions(r)
    <3>1. req[r].pc = "got" /\ req[r].at \in Instance
      BY <1>0, <2>1 DEF CollectRevisions, RequestOK
    <3>2. \A o \in Operator : req[o].pc \notin OnThread
      BY <2>1, <3>1, FreeMeansNobody DEF CollectRevisions
    <3>3. req'[r].pc = "find" /\ UNCHANGED <<document, deployed>>
      BY <1>g, <2>1 DEF CollectRevisions, dbVars
    <3>4. RecordOK(req[r])' /\ GoesOn(r)
      BY <3>1, <3>3 DEF RecordOK, GoesOn, OnThread
    <3> QED
      BY <1>b, <1>s, <2>0, <3>2, <3>3, <3>4, StepOf
  <2>2. CASE FindByDigest(r)
    <3>1. UNCHANGED <<document, deployed>> /\ req[r].pc = "find"
      BY <2>2 DEF FindByDigest, dbVars
    <3>2. ASSUME NEW d \in Id, document[d] = req[r].doc,
                 Become(r, [req[r] EXCEPT !.pc = Found(r), !.id = d])
          PROVE  RecordOK(req[r])' /\ GoesOn(r)
      <4>1. req'[r].pc = Found(r) /\ req'[r].op = req[r].op /\ req'[r].doc = req[r].doc
            /\ req'[r].id = d
        BY <1>0, <3>2 DEF Become, Request
      <4>2. Found(r) \in {"mark", "return"} /\ (req[r].op = "save" => Found(r) = "mark")
        BY DEF Found
      <4> QED
        BY <3>1, <3>2, <4>1, <4>2 DEF RecordOK, GoesOn, OnThread
    <3>3. ASSUME Goto(r, "insert"), ~Stored(req[r].doc) PROVE RecordOK(req[r])' /\ GoesOn(r)
      BY <1>g, <3>1, <3>3 DEF RecordOK, GoesOn, Stored, OnThread
    <3>4. RecordOK(req[r])' /\ GoesOn(r)
      BY <2>2, <3>2, <3>3 DEF FindByDigest
    <3>5. \A o \in Operator \ {r} : req[o].pc \notin OnThread
      BY <1>t, <3>1 DEF OnThread
    <3> QED
      BY <1>b, <1>s, <2>0, <3>1, <3>4, <3>5, StepOf
  <2>3. CASE MarkDeployed(r)
    <3>1. /\ req[r].pc = "mark" /\ req'[r].pc = "return" /\ req'[r].op = req[r].op
          /\ req'[r].doc = req[r].doc /\ document' = document /\ deployed \subseteq deployed'
      BY <1>g, <2>3 DEF MarkDeployed
    <3>2. req[r].op = "save" => WillBeNoted(req[r].doc)
      <4>1. req[r].op = "save" => document[req[r].id] = req[r].doc /\ req[r].doc \in Doc
        BY <1>0, <3>1 DEF RecordOK, RequestOK
      <4> QED
        BY <2>3, <4>1, PolicyAssumption DEF MarkDeployed, WillBeNoted
    <3>3. RecordOK(req[r])' /\ GoesOn(r)
      BY <3>1, <3>2 DEF RecordOK, GoesOn, Noted, WillBeNoted
    <3>4. \A o \in owed' : Remembered(o) => Remembered(o)'
      BY <3>1 DEF Remembered
    <3>5. \A o \in Operator \ {r} : req[o].pc \notin OnThread
      BY <1>t, <3>1 DEF OnThread
    <3> QED
      BY <1>b, <2>0, <3>3, <3>4, <3>5, StepOf
  <2>4. CASE Insert(r)
    <3>1. req[r].pc = "insert" /\ InsertRow(r) /\ req[r].doc \in Doc
      BY <1>0, <2>4 DEF Insert, RecordOK, RequestOK
    <3>2. /\ req'[r].pc = "readback" /\ req'[r].op = req[r].op /\ req'[r].doc = req[r].doc
          /\ deployed \subseteq deployed' /\ (req[r].op = "save" => nextId \in deployed')
          /\ nextId \in Id
      BY <1>g, <2>4, <3>1 DEF Insert, InsertRow
    <3>3. \A d \in Id : document'[d] = IF d = nextId THEN req[r].doc ELSE document[d]
      BY <3>1 DEF InsertRow, TypeOK
    <3>4. RecordOK(req[r])' /\ GoesOn(r)
      BY <3>2, <3>3 DEF RecordOK, GoesOn, Noted, WillBeNoted, OnThread
    <3>5. ASSUME NEW o \in owed', Remembered(o) PROVE Remembered(o)'
      <4>1. PICK d \in deployed : document[d] = o[1]
        BY <3>5 DEF Remembered
      <4>2. d \in Id /\ o[1] \in Doc
        BY <2>0, <4>1 DEF TypeOK
      <4>3. d # nextId
        BY <4>1, <4>2, PolicyAssumption DEF TypeOK, Id
      <4> QED
        BY <3>2, <3>3, <4>1, <4>2, <4>3 DEF Remembered
    <3>6. \A o \in Operator \ {r} : req[o].pc \notin OnThread
      BY <1>t, <3>1 DEF OnThread
    <3> QED
      BY <1>b, <2>0, <3>4, <3>5, <3>6, StepOf
  <2>5. CASE ReadBack(r)
    <3>1. req[r].pc = "readback" /\ UNCHANGED <<document, deployed>>
      BY <2>5 DEF ReadBack, dbVars
    <3>2. req[r].op = "save" => Noted(req[r].doc) /\ WillBeNoted(req[r].doc)
      BY <1>0, <3>1 DEF RecordOK, Noted, WillBeNoted
    <3>3. RecordOK(req[r])'
      BY <1>f, <1>g, <2>5, <3>1, <3>2 DEF ReadBack, RecordOK, Noted, WillBeNoted
    <3>4. GoesOn(r)
      BY <3>2 DEF GoesOn
    <3>5. \A o \in Operator \ {r} : req[o].pc \notin OnThread
      BY <1>t, <3>1 DEF OnThread
    <3> QED
      BY <1>b, <1>s, <2>0, <3>1, <3>3, <3>4, <3>5, StepOf
  <2>6. CASE Return(r)
    <3>1. req[r].pc = "return" /\ UNCHANGED <<document, deployed>> /\ req'[r].pc = "idle"
          /\ RecordOK(req[r])'
      BY <1>f, <2>6 DEF Return, dbVars
    <3>2. GoesOn(r)
      BY <1>0, <3>1 DEF RecordOK, GoesOn, Noted, WillBeNoted
    <3> QED
      BY <1>b, <1>s, <2>0, <3>1, <3>2, StepOf DEF OnThread
  <2> QED
    BY <1>3, <2>1, <2>2, <2>3, <2>4, <2>5, <2>6 DEF Remember
<1>4. CASE Edit(r)
  <2>0. req'[r].pc = "idle" /\ RecordOK(req[r])'
    BY <1>f, <1>4 DEF Edit, Rename, RemoveRevision, Abort
  <2>1. CASE Rename(r)
    <3>1. UNCHANGED <<document, deployed, owed>> /\ req[r].op # "save"
      BY <1>0, <2>1 DEF Rename, RequestOK
    <3> QED
      BY <1>b, <1>s, <2>0, <3>1, StepOf DEF GoesOn, OnThread
  <2>2. CASE RemoveRevision(r)
    <3>1. req[r].pc = "remove" /\ req[r].op # "save" /\ req[r].id \in Id
      BY <1>0, <2>2 DEF RemoveRevision, RequestOK
    <3>2. /\ owed' = {o \in owed : o[1] # document[req[r].id]}
          /\ deployed' = deployed \ {req[r].id}
          /\ \A d \in Id : d # req[r].id => document'[d] = document[d]
      BY <2>2 DEF RemoveRevision, TypeOK
    <3>3. \A o \in owed' : Remembered(o) => Remembered(o)'
      BY <3>2 DEF Remembered, TypeOK
    <3>4. \A o \in Operator \ {r} : req[o].pc \notin OnThread
      BY <1>t, <3>1 DEF OnThread
    <3>5. owed' \subseteq owed /\ GoesOn(r)
      BY <3>1, <3>2 DEF GoesOn
    <3> QED
      BY <1>b, <2>0, <3>3, <3>4, <3>5, StepOf
  <2>3. CASE Abort(r)
    <3>1. UNCHANGED <<document, deployed>> /\ owed' = owed \ {<<req[r].doc, req[r].op>>}
      BY <2>3 DEF Abort, dbVars
    <3>2. GoesOn(r)
      BY <3>1 DEF GoesOn
    <3> QED
      BY <1>b, <1>s, <2>0, <3>1, <3>2, StepOf DEF OnThread
  <2> QED
    BY <1>4, <2>1, <2>2, <2>3 DEF Edit
<1> QED
  BY <1>1, <1>2, <1>3, <1>4

\* With one process every acknowledged push of the editor is a stamped row, or
\* still being recorded, until its document is removed.
THEOREM SavesAreRemembered ==
  ASSUME NEW i, Instance = {i}
  PROVE  Spec => []SavesRemembered
<1>1. Init => Recorded
  BY DEF Init, Recorded, OneOnThread, RecordOK, SavesRemembered, Idle, OnThread
<1>2. TypeOK /\ HonestHistory /\ Recorded /\ [Next]_vars => Recorded'
  <2> SUFFICES ASSUME TypeOK, HonestHistory, Recorded, [Next]_vars PROVE Recorded'
    OBVIOUS
  <2>1. ASSUME UNCHANGED <<document, deployed, req, owed>> PROVE Recorded'
    BY <2>1 DEF Recorded, OneOnThread, RecordOK, SavesRemembered, Recording, Remembered, Noted,
       Stored
  <2>2. CASE (\E d \in Doc : LateArrival(d) \/ OutOfBand(d)) \/ UNCHANGED vars
    BY <2>1, <2>2 DEF LateArrival, OutOfBand, dbVars, vars
  <2> QED
    BY <2>2, RecordedStep DEF Next
<1>3. Recorded => SavesRemembered
  BY DEF Recorded
<1> QED
  BY <1>1, <1>2, <1>3, HonestInit, HonestNext, TypeCorrect, PTL DEF Spec

-----------------------------------------------------------------------------
(* The builder: TextHolds and SectionsShowText say that every row of the   *)
(* model is well formed and spells the text, FieldsHold that what is being *)
(* typed in a field belongs to a row that is there, BaselineHolds that     *)
(* every policy the page compares with has been live.                      *)

RowsOf == NamedSections \cup {"routes"}
RowOK(row) == DOMAIN row = {"name", "values"}
RuleOK(s, row) ==
  /\ DOMAIN row = {"known", "raw"}
  /\ DOMAIN row.known = Known(s)
  /\ "app" \in Known(s) => IsList(row.known.app)

ModelOK(m) ==
  /\ DOMAIN m = Sections
  /\ \A s \in RowsOf : IsList(m[s]) /\ \A i \in DOMAIN m[s] : RowOK(m[s][i])
  /\ \A s \in RuleSections : IsList(m[s]) /\ \A i \in DOMAIN m[s] : RuleOK(s, m[s][i])

TextHolds ==
  /\ session \in Session
  /\ ModelOK(model)
  /\ IsDocument(DocumentOf(value))
  /\ \A text \in loading : IsDocument(DocumentOf(text))

BaselineHolds ==
  /\ DOMAIN pending = {"text", "at"}
  /\ policy \in wasLive /\ savedValue \in wasLive
  /\ pending.at = "accepted" => pending.text \in wasLive

NormalHolds ==
  /\ Normal(DocumentOf(value))
  /\ \A text \in loading : Normal(DocumentOf(text))
  /\ Shown => DocumentOf(value) = Serialize(model, root)

\* A capability editor shows the entry it was given or sent last, or an error.
EditorOK(e) ==
  /\ DOMAIN e = {"rows", "error", "sent"}
  /\ IsList(e.rows)
  /\ Complete(e.rows) => NamesOf(e.rows) = Range(e.sent)
  /\ e.error => ~Complete(e.rows)

CapabilitiesHold(editors, m, shown) ==
  /\ DOMAIN editors = Carriers
  /\ \A s \in Carriers :
       /\ DOMAIN editors[s] = IF shown THEN DOMAIN m[s] ELSE {}
       /\ \A i \in DOMAIN editors[s] :
            EditorOK(editors[s][i]) /\ editors[s][i].sent = m[s][i].known.app

DraftHolds ==
  draft # Null =>
    /\ Shown
    /\ draft.s \in DOMAIN session.tokens
    /\ draft.f \in DOMAIN session.tokens[draft.s]
    /\ draft.i \in DOMAIN model[draft.s]

FieldsHold == CapabilitiesHold(capabilities, model, Shown) /\ DraftHolds

-----------------------------------------------------------------------------
(* Lists and sets of names *)

LEMMA ListIs ==
  ASSUME NEW S, NEW x \in Seq(S)
  PROVE  IsList(x)
  BY SeqOfRange DEF IsList

LEMMA ListHas ==
  ASSUME NEW x, IsList(x)
  PROVE  /\ Len(x) \in Nat
         /\ DOMAIN x = 1 .. Len(x)
         /\ IsFiniteSet(DOMAIN x)
<1>1. x \in Seq(Range(x))
  BY DEF IsList
<1>2. Len(x) \in Nat /\ DOMAIN x = 1 .. Len(x)
  BY <1>1, LenProperties
<1>3. IsFiniteSet(1 .. Len(x))
  BY <1>2, FS_Interval
<1> QED
  BY <1>2, <1>3

\* A function over the places of a list is a list, of the same length.
LEMMA MapOfList ==
  ASSUME NEW x, IsList(x), NEW y, y = [i \in DOMAIN x |-> y[i]]
  PROVE  IsList(y) /\ Len(y) = Len(x)
<1>1. Len(x) \in Nat /\ DOMAIN x = 1 .. Len(x)
  BY ListHas
<1>2. y \in [1 .. Len(x) -> Range(y)]
  BY <1>1 DEF Range
<1>3. y \in Seq(Range(y))
  BY <1>1, <1>2, SeqDef
<1>4. DOMAIN y = 1 .. Len(y) /\ Len(y) \in Nat
  BY <1>3, LenProperties
<1>5. 1 .. Len(y) = 1 .. Len(x)
  BY <1>2, <1>4
<1>6. Len(y) = Len(x)
  BY <1>1, <1>4, <1>5
<1> QED
  BY <1>3, <1>6 DEF IsList

LEMMA AppendIsList ==
  ASSUME NEW x, IsList(x), NEW e
  PROVE  /\ IsList(Append(x, e))
         /\ Len(Append(x, e)) = Len(x) + 1
         /\ DOMAIN Append(x, e) = DOMAIN x \cup {Len(x) + 1}
         /\ \A i \in DOMAIN x : Append(x, e)[i] = x[i]
         /\ Append(x, e)[Len(x) + 1] = e
<1> DEFINE S == Range(x) \cup {e}
<1>1. x \in Seq(S) /\ e \in S
  BY SeqMonotonic DEF IsList
<1>2. Len(x) \in Nat /\ DOMAIN x = 1 .. Len(x)
  BY ListHas
<1>3. Append(x, e) \in Seq(S) /\ Len(Append(x, e)) = Len(x) + 1
  BY <1>1, AppendProperties
<1>4. \A i \in 1 .. Len(x) : Append(x, e)[i] = x[i]
  BY <1>1, AppendProperties
<1>5. Append(x, e)[Len(x) + 1] = e
  BY <1>1, AppendProperties
<1>6. DOMAIN Append(x, e) = 1 .. Len(x) + 1
  BY <1>3, LenProperties
<1>7. 1 .. Len(x) + 1 = (1 .. Len(x)) \cup {Len(x) + 1}
  BY <1>2
<1>8. IsList(Append(x, e))
  BY <1>3, ListIs
<1> QED
  BY <1>2, <1>3, <1>4, <1>5, <1>6, <1>7, <1>8

LEMMA RemoveIsList ==
  ASSUME NEW x, IsList(x), NEW i \in DOMAIN x
  PROVE  /\ IsList(RemoveAt(x, i))
         /\ Len(RemoveAt(x, i)) = Len(x) - 1
         /\ Range(RemoveAt(x, i)) \subseteq Range(x)
<1> DEFINE S == Range(x)
<1>1. x \in Seq(S)
  BY DEF IsList
<1>2. Len(x) \in Nat /\ i \in 1 .. Len(x) /\ DOMAIN x = 1 .. Len(x)
  BY ListHas
<1>3. \A j \in 1 .. Len(x) : x[j] \in S
  BY <1>2 DEF Range
<1>4. SubSeq(x, 1, i - 1) \in Seq(S) /\ Len(SubSeq(x, 1, i - 1)) = i - 1
  <2>1. \A j \in 1 .. i - 1 : x[j] \in S
    BY <1>2, <1>3
  <2>2. i - 1 \in Int /\ (1 <= i - 1 => i - 1 - 1 + 1 = i - 1) /\ (~(1 <= i - 1) => i - 1 = 0)
    BY <1>2
  <2> QED
    BY <2>1, <2>2, SubSeqProperties
<1>5. SubSeq(x, i + 1, Len(x)) \in Seq(S) /\ Len(SubSeq(x, i + 1, Len(x))) = Len(x) - i
  <2>1. \A j \in i + 1 .. Len(x) : x[j] \in S
    BY <1>2, <1>3
  <2>2. i + 1 \in Int /\ Len(x) \in Int
    BY <1>2
  <2>3. SubSeq(x, i + 1, Len(x)) \in Seq(S)
        /\ Len(SubSeq(x, i + 1, Len(x))) = IF i + 1 <= Len(x) THEN Len(x) - (i + 1) + 1 ELSE 0
    BY <2>1, <2>2, SubSeqProperties
  <2> QED
    BY <1>2, <2>3
<1>6. RemoveAt(x, i) \in Seq(S) /\ Len(RemoveAt(x, i)) = i - 1 + (Len(x) - i)
  BY <1>4, <1>5, ConcatProperties DEF RemoveAt
<1>7. Len(RemoveAt(x, i)) = Len(x) - 1
  BY <1>2, <1>6
<1>8. Range(RemoveAt(x, i)) \subseteq S
  BY <1>6, RangeOfSeq
<1> QED
  BY <1>6, <1>7, <1>8, ListIs

LEMMA EmptyIsList == IsList(<< >>) /\ DOMAIN << >> = {} /\ Len(<< >>) = 0
<1>1. << >> \in Seq({}) /\ Len(<< >>) = 0
  BY EmptySeq
<1>2. DOMAIN << >> = {}
  OBVIOUS
<1>3. IsList(<< >>)
  BY <1>1, ListIs
<1> QED
  BY <1>1, <1>2, <1>3

\* SetToSeq lists a finite set, each element once.
LEMMA SetToSeqLists ==
  ASSUME NEW S, IsFiniteSet(S)
  PROVE  /\ IsList(SetToSeq(S))
         /\ Range(SetToSeq(S)) = S
         /\ \A i, j \in DOMAIN SetToSeq(S) : SetToSeq(S)[i] = SetToSeq(S)[j] => i = j
<1> DEFINE n == Cardinality(S)
<1>1. n \in Nat /\ ExistsBijection(1 .. n, S)
  BY FS_CardinalityType
<1>2. \E f \in [1 .. n -> S] : IsInjective(f)
  BY <1>1 DEF ExistsBijection, Bijection, Injection, IsInjective
<1> DEFINE q == SetToSeq(S)
<1>3. q \in [1 .. n -> S] /\ IsInjective(q)
  BY <1>2 DEF SetToSeq
<1> HIDE DEF q
<1>4. q \in Injection(1 .. n, S)
  BY <1>3 DEF Injection, IsInjective
<1>5. Cardinality(1 .. n) = n /\ IsFiniteSet(1 .. n)
  BY <1>1, FS_Interval
<1>6. q \in Surjection(1 .. n, S)
  BY <1>4, <1>5, FS_Injection
<1>7. Range(q) = S
  BY <1>3, <1>6 DEF Surjection, Range
<1>8. q \in Seq(S)
  BY <1>1, <1>3, SeqDef
<1>9. \A i, j \in DOMAIN q : q[i] = q[j] => i = j
  BY <1>3 DEF IsInjective
<1> QED
  BY <1>7, <1>8, <1>9, ListIs DEF q

-----------------------------------------------------------------------------
(* What is written is read back *)

LEMMA NamesAreFinite ==
  ASSUME NEW rows, IsList(rows)
  PROVE  IsFiniteSet(Names(rows))
<1> DEFINE T == {rows[i].name : i \in DOMAIN rows}
           f == [i \in DOMAIN rows |-> rows[i].name]
<1>1. f \in Surjection(DOMAIN rows, T)
  BY DEF Surjection
<1>2. IsFiniteSet(T)
  BY <1>1, ListHas, FS_Surjection
<1>3. Names(rows) \subseteq T
  BY DEF Names
<1> QED
  BY <1>2, <1>3, FS_Subset

LEMMA BuildNamedIs ==
  ASSUME NEW rows
  PROVE  /\ DOMAIN BuildNamed(rows) = Names(rows)
         /\ BuildNamed(rows) = [n \in DOMAIN BuildNamed(rows) |-> BuildNamed(rows)[n]]
         /\ Nameless \notin DOMAIN BuildNamed(rows)
         /\ Names(rows) = {} => BuildNamed(rows) = NoObject
<1>1. DOMAIN BuildNamed(rows) = Names(rows)
  BY DEF BuildNamed
<1>2. BuildNamed(rows) = [n \in DOMAIN BuildNamed(rows) |-> BuildNamed(rows)[n]]
  BY DEF BuildNamed
<1>3. Nameless \notin Names(rows)
  BY DEF Names
<1>4. ASSUME Names(rows) = {} PROVE BuildNamed(rows) = NoObject
  BY <1>4 DEF BuildNamed, NoObject
<1> QED
  BY <1>1, <1>2, <1>3, <1>4

LEMMA ParseNamedIs ==
  ASSUME NEW f, IsFiniteSet(DOMAIN f)
  PROVE  /\ IsList(ParseNamed(f))
         /\ \A i \in DOMAIN ParseNamed(f) : RowOK(ParseNamed(f)[i])
<1> DEFINE names == SetToSeq(DOMAIN f)
           rows == [i \in DOMAIN names |-> [name |-> names[i], values |-> f[names[i]]]]
<1>1. IsList(names)
  BY SetToSeqLists
<1>2. rows = [i \in DOMAIN names |-> rows[i]]
  OBVIOUS
<1>3. ParseNamed(f) = rows
  BY DEF ParseNamed
<1>4. \A i \in DOMAIN rows : RowOK(rows[i])
  BY DEF RowOK
<1> HIDE DEF rows, names
<1>5. IsList(rows)
  BY <1>1, <1>2, MapOfList
<1> QED
  BY <1>3, <1>4, <1>5

\* The rows of an object have its names, and its values at their last row.
LEMMA NamedRoundTrip ==
  ASSUME NEW f, f = [n \in DOMAIN f |-> f[n]], IsFiniteSet(DOMAIN f), Nameless \notin DOMAIN f
  PROVE  Names(ParseNamed(f)) = DOMAIN f /\ BuildNamed(ParseNamed(f)) = f
<1> DEFINE names == SetToSeq(DOMAIN f)
           rows == ParseNamed(f)
<1>1. /\ IsList(names) /\ Range(names) = DOMAIN f
      /\ \A i, j \in DOMAIN names : names[i] = names[j] => i = j
  BY SetToSeqLists
<1>2. DOMAIN names = 1 .. Len(names) /\ Len(names) \in Nat
  BY <1>1, ListHas
<1>3. /\ DOMAIN rows = DOMAIN names
      /\ \A i \in DOMAIN names : rows[i].name = names[i] /\ rows[i].values = f[names[i]]
  BY DEF ParseNamed
<1> HIDE DEF names, rows
<1>4. {rows[i].name : i \in DOMAIN rows} = DOMAIN f
  BY <1>1, <1>3 DEF Range
<1>5. Names(rows) = DOMAIN f
  BY <1>4 DEF Names
<1>6. ASSUME NEW n \in DOMAIN f
      PROVE  rows[LastOf(rows, n)].values = f[n]
  <2>1. PICK i \in DOMAIN names : names[i] = n
    BY <1>1 DEF Range
  <2>2. /\ i \in DOMAIN rows /\ rows[i].name = n
        /\ \A j \in DOMAIN rows : rows[j].name = n => j <= i
    <3>1. i <= i
      BY <1>2
    <3> QED
      BY <1>1, <1>3, <2>1, <3>1
  <2>3. LastOf(rows, n) \in DOMAIN rows /\ rows[LastOf(rows, n)].name = n
    BY <2>2 DEF LastOf
  <2>4. rows[LastOf(rows, n)].values = f[names[LastOf(rows, n)]]
    BY <1>3, <2>3
  <2>5. names[LastOf(rows, n)] = n
    BY <1>3, <2>3
  <2> QED
    BY <2>4, <2>5
<1>7. BuildNamed(rows) = [n \in DOMAIN f |-> rows[LastOf(rows, n)].values]
  BY <1>5 DEF BuildNamed
<1>8. BuildNamed(rows) = f
  BY <1>6, <1>7
<1> QED
  BY <1>5, <1>8 DEF rows

\* The names of a section without rows' names.
LEMMA NoNames == Names(ParseNamed(NoObject)) = {} /\ BuildNamed(ParseNamed(NoObject)) = NoObject
<1>1. /\ NoObject = [n \in DOMAIN NoObject |-> NoObject[n]]
      /\ DOMAIN NoObject = {}
  BY DEF NoObject
<1>2. IsFiniteSet(DOMAIN NoObject)
  BY <1>1, FS_EmptySet
<1> QED
  BY <1>1, <1>2, NamedRoundTrip

LEMMA RowsRoundTrip ==
  ASSUME NEW rows, IsList(rows)
  PROVE  /\ Names(ParseNamed(BuildNamed(rows))) = Names(rows)
         /\ BuildNamed(ParseNamed(BuildNamed(rows))) = BuildNamed(rows)
<1>1. IsFiniteSet(DOMAIN BuildNamed(rows))
  BY BuildNamedIs, NamesAreFinite
<1> QED
  BY <1>1, BuildNamedIs, NamedRoundTrip

LEMMA FieldsOfRules ==
  ASSUME NEW s \in RuleSections
  PROVE  /\ Known(s) = Required(s) \cup Optional(s)
         /\ Required(s) \cap Optional(s) = {}
         /\ "action" \notin Optional(s) /\ "app" \notin Required(s)
<1>1. s = "acls" \/ s = "ssh" \/ s = "nodeAttrs" \/ s = "grants"
  BY DEF RuleSections
<1>2. CASE s = "acls"
  BY <1>2 DEF Known, Required, Optional
<1>3. CASE s = "ssh"
  BY <1>3 DEF Known, Required, Optional
<1>4. CASE s = "nodeAttrs"
  BY <1>4 DEF Known, Required, Optional
<1>5. CASE s = "grants"
  BY <1>5 DEF Known, Required, Optional
<1> QED
  BY <1>1, <1>2, <1>3, <1>4, <1>5

WrittenFields(s, row) ==
  {f \in Optional(s) : row.known[f] # << >> \/ (f # "app" /\ f \in DOMAIN row.raw)}

LEMMA SerializeRuleIs ==
  ASSUME NEW s, NEW row
  PROVE  LET R == SerializeRule(s, row)
             passed == DOMAIN row.raw \ Known(s)
         IN /\ DOMAIN R = Required(s) \cup WrittenFields(s, row) \cup passed
            /\ R = [f \in DOMAIN R |-> R[f]]
            /\ \A f \in DOMAIN R : R[f] = IF f \in passed THEN row.raw[f] ELSE row.known[f]
  BY DEF SerializeRule, WrittenFields

\* A rule that was written is written again as it is.
LEMMA RuleRoundTrip ==
  ASSUME NEW s \in RuleSections, NEW row
  PROVE  SerializeRule(s, ParseRule(s, SerializeRule(s, row))) = SerializeRule(s, row)
<1> DEFINE R == SerializeRule(s, row)
           again == ParseRule(s, R)
           passed == DOMAIN row.raw \ Known(s)
           Q == SerializeRule(s, again)
<1>1. /\ DOMAIN R = Required(s) \cup WrittenFields(s, row) \cup passed
      /\ R = [f \in DOMAIN R |-> R[f]]
      /\ \A f \in DOMAIN R : R[f] = IF f \in passed THEN row.raw[f] ELSE row.known[f]
  BY SerializeRuleIs
<1>2. /\ again.raw = R
      /\ \A f \in Known(s) : f # "action" => again.known[f] = IF f \in DOMAIN R THEN R[f] ELSE << >>
      /\ \A f \in Known(s) : f \in DOMAIN R => again.known[f] = R[f]
  BY DEF ParseRule, Get
<1>3. /\ DOMAIN Q = Required(s) \cup WrittenFields(s, again) \cup (DOMAIN again.raw \ Known(s))
      /\ Q = [f \in DOMAIN Q |-> Q[f]]
      /\ \A f \in DOMAIN Q : Q[f] = IF f \in DOMAIN again.raw \ Known(s) THEN again.raw[f]
                                    ELSE again.known[f]
  BY SerializeRuleIs
<1> HIDE DEF R, again, Q
<1>4. Known(s) = Required(s) \cup Optional(s) /\ Required(s) \cap Optional(s) = {}
      /\ "action" \notin Optional(s)
  BY FieldsOfRules
<1>5. DOMAIN again.raw \ Known(s) = passed
  BY <1>1, <1>2, <1>4 DEF WrittenFields
<1>6. ASSUME NEW f \in Optional(s)
      PROVE  f \in WrittenFields(s, again) <=> f \in WrittenFields(s, row)
  <2>1. f \in Known(s) /\ f # "action" /\ f \notin Required(s) /\ f \notin passed
    BY <1>4
  <2>2. f \in DOMAIN R <=> f \in WrittenFields(s, row)
    BY <1>1, <2>1
  <2>3. f \in DOMAIN R => R[f] = row.known[f] /\ again.known[f] = row.known[f]
    BY <1>1, <1>2, <2>1
  <2>4. f \notin DOMAIN R => again.known[f] = << >>
    BY <1>2, <2>1
  <2>5. f \in WrittenFields(s, row) <=> row.known[f] # << >> \/ (f # "app" /\ f \in DOMAIN row.raw)
    BY DEF WrittenFields
  <2>6. f \in WrittenFields(s, again) <=> again.known[f] # << >> \/ (f # "app" /\ f \in DOMAIN R)
    BY <1>2 DEF WrittenFields
  <2> QED
    BY <2>2, <2>3, <2>4, <2>5, <2>6
<1>7. WrittenFields(s, again) = WrittenFields(s, row)
  BY <1>6 DEF WrittenFields
<1>8. DOMAIN Q = DOMAIN R
  BY <1>1, <1>3, <1>5, <1>7
<1>9. ASSUME NEW f \in DOMAIN R PROVE Q[f] = R[f]
  <2>1. CASE f \in passed
    BY <1>2, <1>3, <1>5, <1>8, <2>1
  <2>2. CASE f \notin passed
    <3>1. f \in Known(s)
      BY <1>1, <1>4, <2>2 DEF WrittenFields
    <3>2. Q[f] = again.known[f]
      BY <1>3, <1>5, <1>8, <2>2
    <3> QED
      BY <1>2, <3>1, <3>2
  <2> QED
    BY <2>1, <2>2
<1>10. Q = R
  BY <1>1, <1>3, <1>8, <1>9
<1> QED
  BY <1>10 DEF Q, R, again

LEMMA RulesRoundTrip ==
  ASSUME NEW s \in RuleSections, NEW rows
  PROVE  SerializeRules(s, ParseRules(s, SerializeRules(s, rows))) = SerializeRules(s, rows)
<1> DEFINE R == SerializeRules(s, rows)
           again == ParseRules(s, R)
<1>1. R = [i \in DOMAIN rows |-> SerializeRule(s, rows[i])]
  BY DEF SerializeRules
<1>2. again = [i \in DOMAIN rows |-> ParseRule(s, SerializeRule(s, rows[i]))]
  BY <1>1 DEF ParseRules
<1>3. SerializeRules(s, again) = [i \in DOMAIN rows |-> SerializeRule(s, ParseRule(s, SerializeRule(s, rows[i])))]
  BY <1>2 DEF SerializeRules
<1>4. \A i \in DOMAIN rows : SerializeRule(s, ParseRule(s, SerializeRule(s, rows[i]))) = SerializeRule(s, rows[i])
  BY RuleRoundTrip
<1> QED
  BY <1>1, <1>3, <1>4

LEMMA ParseRulesIs ==
  ASSUME NEW s \in RuleSections, NEW rules, IsList(rules),
         "app" \in Known(s) => \A i \in DOMAIN rules : IsList(Get(rules[i], "app", << >>))
  PROVE  /\ IsList(ParseRules(s, rules))
         /\ \A i \in DOMAIN ParseRules(s, rules) : RuleOK(s, ParseRules(s, rules)[i])
<1> DEFINE rows == ParseRules(s, rules)
<1>1. rows = [i \in DOMAIN rules |-> ParseRule(s, rules[i])]
  BY DEF ParseRules
<1>2. \A i \in DOMAIN rules : DOMAIN ParseRule(s, rules[i]) = {"known", "raw"}
  BY DEF ParseRule
<1>3. \A i \in DOMAIN rules : DOMAIN ParseRule(s, rules[i]).known = Known(s)
  BY DEF ParseRule
<1>4. \A i \in DOMAIN rules : "app" \in Known(s) =>
        ParseRule(s, rules[i]).known.app = Get(rules[i], "app", << >>)
  BY DEF ParseRule
<1> HIDE DEF rows
<1>5. DOMAIN rows = DOMAIN rules /\ rows = [i \in DOMAIN rules |-> rows[i]]
  BY <1>1
<1>6. IsList(rows)
  BY <1>5, MapOfList
<1>7. ASSUME NEW i \in DOMAIN rows
      PROVE  RuleOK(s, rows[i])
  <2>1. i \in DOMAIN rules /\ rows[i] = ParseRule(s, rules[i])
    BY <1>1, <1>5
  <2> QED
    BY <1>2, <1>3, <1>4, <2>1 DEF RuleOK
<1> QED
  BY <1>6, <1>7 DEF rows

-----------------------------------------------------------------------------
(* What serializePolicy writes at every key *)

AutoOf(m, raw) ==
  Emit(Emit(raw, "routes", BuildNamed(m.routes), Names(m.routes) = {}),
       "exitNode", m.exitNode, m.exitNode = << >>)

LEMMA AutoIs ==
  ASSUME NEW m, NEW raw
  PROVE  LET A == AutoOf(m, raw)
         IN /\ "routes" \in DOMAIN A <=> "routes" \in DOMAIN raw \/ Names(m.routes) # {}
            /\ "routes" \in DOMAIN A => A.routes = BuildNamed(m.routes)
            /\ "exitNode" \in DOMAIN A <=> "exitNode" \in DOMAIN raw \/ m.exitNode # << >>
            /\ "exitNode" \in DOMAIN A => A.exitNode = m.exitNode
            /\ \A k : k \notin {"routes", "exitNode"} =>
                 /\ k \in DOMAIN A <=> k \in DOMAIN raw
                 /\ k \in DOMAIN A => A[k] = raw[k]
            /\ "routes" \in DOMAIN A \/ "exitNode" \in DOMAIN A => A = [k \in DOMAIN A |-> A[k]]
<1> DEFINE none == Names(m.routes) = {}
           B == Emit(raw, "routes", BuildNamed(m.routes), none)
           empty == m.exitNode = << >>
           A == Emit(B, "exitNode", m.exitNode, empty)
<1>2. /\ ~none \/ "routes" \in DOMAIN raw =>
           /\ DOMAIN B = DOMAIN raw \cup {"routes"}
           /\ B = [k \in DOMAIN B |-> B[k]]
           /\ B["routes"] = BuildNamed(m.routes)
           /\ \A k \in DOMAIN raw : k # "routes" => B[k] = raw[k]
      /\ ~(~none \/ "routes" \in DOMAIN raw) => B = raw
  <2>1. ASSUME ~none \/ "routes" \in DOMAIN raw
        PROVE  B = [k \in DOMAIN raw \cup {"routes"} |->
                      IF k = "routes" THEN BuildNamed(m.routes) ELSE raw[k]]
    BY <2>1 DEF Emit
  <2>2. ASSUME ~(~none \/ "routes" \in DOMAIN raw) PROVE B = raw
    BY <2>2 DEF Emit
  <2> HIDE DEF B, none
  <2> QED
    BY <2>1, <2>2
<1>3. /\ ~empty \/ "exitNode" \in DOMAIN B =>
           /\ DOMAIN A = DOMAIN B \cup {"exitNode"}
           /\ A = [k \in DOMAIN A |-> A[k]]
           /\ A["exitNode"] = m.exitNode
           /\ \A k \in DOMAIN B : k # "exitNode" => A[k] = B[k]
      /\ ~(~empty \/ "exitNode" \in DOMAIN B) => A = B
  <2> HIDE DEF B
  <2>1. ASSUME ~empty \/ "exitNode" \in DOMAIN B
        PROVE  A = [k \in DOMAIN B \cup {"exitNode"} |->
                      IF k = "exitNode" THEN m.exitNode ELSE B[k]]
    BY <2>1 DEF Emit
  <2>2. ASSUME ~(~empty \/ "exitNode" \in DOMAIN B) PROVE A = B
    BY <2>2 DEF Emit
  <2> HIDE DEF A, empty
  <2> QED
    BY <2>1, <2>2
<1>4. A = AutoOf(m, raw)
  BY DEF AutoOf
<1> HIDE DEF A, B
<1>5. "routes" \in DOMAIN B <=> "routes" \in DOMAIN raw \/ ~none
  BY <1>2
<1>6. \A k : k # "routes" => (k \in DOMAIN B <=> k \in DOMAIN raw) /\ (k \in DOMAIN B => B[k] = raw[k])
  BY <1>2
<1>7. "routes" \in DOMAIN B => B["routes"] = BuildNamed(m.routes) /\ B = [k \in DOMAIN B |-> B[k]]
  BY <1>2
<1>8. "exitNode" \in DOMAIN A <=> "exitNode" \in DOMAIN B \/ ~empty
  BY <1>3
<1>9. \A k : k # "exitNode" => (k \in DOMAIN A <=> k \in DOMAIN B) /\ (k \in DOMAIN A => A[k] = B[k])
  BY <1>3
<1>10. "exitNode" \in DOMAIN A => A["exitNode"] = m.exitNode /\ A = [k \in DOMAIN A |-> A[k]]
  BY <1>3
<1>11. "routes" \in DOMAIN A => A = [k \in DOMAIN A |-> A[k]]
  BY <1>3, <1>7, <1>9
<1> QED
  BY <1>4, <1>5, <1>6, <1>7, <1>8, <1>9, <1>10, <1>11

LEMMA AutoRoundTrip ==
  ASSUME NEW m, NEW raw, IsList(m.routes), NEW n,
         n.routes = ParseNamed(Get(AutoOf(m, raw), "routes", NoObject)),
         n.exitNode = Get(AutoOf(m, raw), "exitNode", << >>)
  PROVE  AutoOf(n, AutoOf(m, raw)) = AutoOf(m, raw)
<1> DEFINE A == AutoOf(m, raw)
           none == Names(n.routes) = {}
           empty == n.exitNode = << >>
<1>1. /\ "routes" \in DOMAIN A => A.routes = BuildNamed(m.routes)
      /\ "exitNode" \in DOMAIN A => A.exitNode = m.exitNode
      /\ "routes" \in DOMAIN A \/ "exitNode" \in DOMAIN A => A = [k \in DOMAIN A |-> A[k]]
  BY AutoIs
<1>2. /\ n.routes = ParseNamed(Get(A, "routes", NoObject))
      /\ n.exitNode = Get(A, "exitNode", << >>)
  OBVIOUS
<1>3. AutoOf(n, A) = Emit(Emit(A, "routes", BuildNamed(n.routes), none), "exitNode", n.exitNode, empty)
  BY DEF AutoOf
<1> HIDE DEF A
<1>4. Emit(A, "routes", BuildNamed(n.routes), none) = A
  <2>1. CASE "routes" \in DOMAIN A
    <3>1. n.routes = ParseNamed(BuildNamed(m.routes))
      BY <1>1, <1>2, <2>1 DEF Get
    <3>2. BuildNamed(n.routes) = A.routes
      BY <1>1, <2>1, <3>1, RowsRoundTrip
    <3>3. Emit(A, "routes", A.routes, none)
            = [k \in DOMAIN A \cup {"routes"} |-> IF k = "routes" THEN A.routes ELSE A[k]]
      BY <2>1 DEF Emit
    <3>4. @ = [k \in DOMAIN A |-> A[k]]
      BY <2>1
    <3> QED
      BY <1>1, <2>1, <3>2, <3>3, <3>4
  <2>2. CASE "routes" \notin DOMAIN A
    <3>1. n.routes = ParseNamed(NoObject)
      BY <1>2, <2>2 DEF Get
    <3>2. none
      BY <3>1, NoNames
    <3> QED
      BY <2>2, <3>2 DEF Emit
  <2> QED
    BY <2>1, <2>2
<1>5. Emit(A, "exitNode", n.exitNode, empty) = A
  <2>1. CASE "exitNode" \in DOMAIN A
    <3>1. n.exitNode = A.exitNode
      BY <1>2, <2>1 DEF Get
    <3>2. Emit(A, "exitNode", n.exitNode, empty)
            = [k \in DOMAIN A \cup {"exitNode"} |-> IF k = "exitNode" THEN n.exitNode ELSE A[k]]
      BY <2>1 DEF Emit
    <3>3. @ = [k \in DOMAIN A |-> A[k]]
      BY <2>1, <3>1
    <3> QED
      BY <1>1, <2>1, <3>2, <3>3
  <2>2. CASE "exitNode" \notin DOMAIN A
    <3>1. empty
      BY <1>2, <2>2 DEF Get
    <3> QED
      BY <2>2, <3>1 DEF Emit
  <2> QED
    BY <2>1, <2>2
<1>6. AutoOf(n, A) = A
  BY <1>3, <1>4, <1>5
<1> QED
  BY <1>6 DEF A

Raw(object) == Get(object, "autoApprovers", NoObject)

RestOf(m, r) ==
  [k \in DOMAIN r \cup {s \in NamedSections \cup RuleSections :
                          \/ s \in DOMAIN r
                          \/ s \in NamedSections /\ Names(m[s]) # {}
                          \/ s \in RuleSections /\ m[s] # << >>} |->
     IF k \in NamedSections \cup RuleSections
     THEN IF k \in NamedSections THEN BuildNamed(m[k]) ELSE SerializeRules(k, m[k])
     ELSE r[k]]

Sectional == NamedSections \cup RuleSections \cup {"autoApprovers"}

LEMMA Keys ==
  /\ NamedSections \cap RuleSections = {}
  /\ "autoApprovers" \notin NamedSections \cup RuleSections
  /\ {"routes", "exitNode"} \cap (NamedSections \cup RuleSections) = {}
  BY DEF NamedSections, RuleSections

LEMMA SerializeIs ==
  ASSUME NEW m, NEW r
  PROVE  LET D == Serialize(m, r)
             A == AutoOf(m, Raw(r))
         IN /\ D = [k \in DOMAIN D |-> D[k]]
            /\ \A s \in NamedSections :
                 /\ s \in DOMAIN D <=> s \in DOMAIN r \/ Names(m[s]) # {}
                 /\ s \in DOMAIN D => D[s] = BuildNamed(m[s])
            /\ \A s \in RuleSections :
                 /\ s \in DOMAIN D <=> s \in DOMAIN r \/ m[s] # << >>
                 /\ s \in DOMAIN D => D[s] = SerializeRules(s, m[s])
            /\ "autoApprovers" \in DOMAIN D <=> "autoApprovers" \in DOMAIN r \/ DOMAIN A # {}
            /\ "autoApprovers" \in DOMAIN D => D["autoApprovers"] = A
            /\ \A k : k \notin Sectional =>
                 /\ k \in DOMAIN D <=> k \in DOMAIN r
                 /\ k \in DOMAIN D => D[k] = r[k]
<1> DEFINE A == AutoOf(m, Raw(r))
           R == RestOf(m, r)
           none == DOMAIN A = {}
           D == Emit(R, "autoApprovers", A, none)
<1>1. D = Serialize(m, r)
  BY DEF Serialize, RestOf, AutoOf, Raw
<1>2. /\ R = [k \in DOMAIN R |-> R[k]]
      /\ \A k : k \in DOMAIN R <=> \/ k \in DOMAIN r
                                   \/ k \in NamedSections /\ Names(m[k]) # {}
                                   \/ k \in RuleSections /\ m[k] # << >>
  BY DEF RestOf
<1>3. /\ \A s \in NamedSections : s \in DOMAIN R => R[s] = BuildNamed(m[s])
      /\ \A s \in RuleSections : s \in DOMAIN R => R[s] = SerializeRules(s, m[s])
      /\ \A k : k \notin NamedSections \cup RuleSections => (k \in DOMAIN R => R[k] = r[k])
  <2>1. \A k \in DOMAIN R : R[k] = IF k \in NamedSections \cup RuleSections
          THEN IF k \in NamedSections THEN BuildNamed(m[k]) ELSE SerializeRules(k, m[k]) ELSE r[k]
    BY DEF RestOf
  <2> HIDE DEF R
  <2> QED
    BY <2>1, Keys
<1> HIDE DEF R, A
<1>4. ASSUME ~none \/ "autoApprovers" \in DOMAIN R
      PROVE  D = [k \in DOMAIN R \cup {"autoApprovers"} |-> IF k = "autoApprovers" THEN A ELSE R[k]]
  BY <1>4 DEF Emit
<1>5. ASSUME ~(~none \/ "autoApprovers" \in DOMAIN R) PROVE D = R
  BY <1>5 DEF Emit
<1> HIDE DEF D, none
<1>6. D = [k \in DOMAIN D |-> D[k]]
  BY <1>2, <1>4, <1>5
<1>7. \A k : k # "autoApprovers" => (k \in DOMAIN D <=> k \in DOMAIN R) /\ (k \in DOMAIN D => D[k] = R[k])
  BY <1>4, <1>5
<1>8. ("autoApprovers" \in DOMAIN D <=> "autoApprovers" \in DOMAIN R \/ ~none)
      /\ ("autoApprovers" \in DOMAIN D => D["autoApprovers"] = A)
  BY <1>4, <1>5
<1>9. "autoApprovers" \in DOMAIN R <=> "autoApprovers" \in DOMAIN r
  BY <1>2, Keys
<1>10. ASSUME NEW s \in NamedSections
       PROVE  /\ s \in DOMAIN D <=> s \in DOMAIN r \/ Names(m[s]) # {}
              /\ s \in DOMAIN D => D[s] = BuildNamed(m[s])
  <2>1. s # "autoApprovers" /\ s \notin RuleSections
    BY Keys
  <2> QED
    BY <1>2, <1>3, <1>7, <2>1
<1>11. ASSUME NEW s \in RuleSections
       PROVE  /\ s \in DOMAIN D <=> s \in DOMAIN r \/ m[s] # << >>
              /\ s \in DOMAIN D => D[s] = SerializeRules(s, m[s])
  <2>1. s # "autoApprovers" /\ s \notin NamedSections
    BY Keys
  <2> QED
    BY <1>2, <1>3, <1>7, <2>1
<1>12. ASSUME NEW k, k \notin Sectional
       PROVE  (k \in DOMAIN D <=> k \in DOMAIN r) /\ (k \in DOMAIN D => D[k] = r[k])
  <2>1. k # "autoApprovers" /\ k \notin NamedSections /\ k \notin RuleSections
    BY <1>12 DEF Sectional
  <2> QED
    BY <1>2, <1>3, <1>7, <2>1
<1> QED
  BY <1>1, <1>6, <1>8, <1>9, <1>10, <1>11, <1>12 DEF A, none

LEMMA ParseIs ==
  ASSUME NEW d
  PROVE  LET m == Parse(d)
         IN /\ DOMAIN m = Sections
            /\ \A s \in NamedSections : m[s] = ParseNamed(Get(d, s, NoObject))
            /\ \A s \in RuleSections : m[s] = ParseRules(s, Get(d, s, << >>))
            /\ m.routes = ParseNamed(Get(Raw(d), "routes", NoObject))
            /\ m.exitNode = Get(Raw(d), "exitNode", << >>)
<1> DEFINE m == Parse(d)
<1>1. m = [s \in Sections |->
        CASE s \in NamedSections -> ParseNamed(Get(d, s, NoObject))
          [] s \in RuleSections -> ParseRules(s, Get(d, s, << >>))
          [] s = "routes" -> ParseNamed(Get(Raw(d), s, NoObject))
          [] s = "exitNode" -> Get(Raw(d), s, << >>)]
  BY DEF Parse, Raw
<1> HIDE DEF m
<1>2. \A s \in NamedSections : m[s] = ParseNamed(Get(d, s, NoObject))
  <2> TAKE s \in NamedSections
  <2>1. s \in Sections /\ s \notin RuleSections /\ s # "routes" /\ s # "exitNode"
    BY Keys DEF Sections
  <2> QED
    BY <1>1, <2>1
<1>3. \A s \in RuleSections : m[s] = ParseRules(s, Get(d, s, << >>))
  <2> TAKE s \in RuleSections
  <2>1. s \in Sections /\ s \notin NamedSections /\ s # "routes" /\ s # "exitNode"
    BY Keys DEF Sections
  <2> QED
    BY <1>1, <2>1
<1>4. m["routes"] = ParseNamed(Get(Raw(d), "routes", NoObject))
  <2>1. "routes" \in Sections /\ "routes" \notin NamedSections /\ "routes" \notin RuleSections
    BY Keys DEF Sections
  <2> QED
    BY <1>1, <2>1
<1>5. m["exitNode"] = Get(Raw(d), "exitNode", << >>)
  <2>1. "exitNode" \in Sections /\ "exitNode" \notin NamedSections /\ "exitNode" \notin RuleSections
    BY Keys DEF Sections
  <2> QED
    BY <1>1, <2>1
<1> QED
  BY <1>1, <1>2, <1>3, <1>4, <1>5 DEF m

-----------------------------------------------------------------------------
(* Documents and models *)

\* The sections of a text the builder wrote are what its rows say.
LEMMA WrittenSections ==
  ASSUME NEW m, NEW r
  PROVE  LET D == Serialize(m, r)
         IN /\ \A s \in NamedSections : Get(D, s, NoObject) = BuildNamed(m[s])
            /\ \A s \in RuleSections : Get(D, s, << >>) = SerializeRules(s, m[s])
            /\ Get(Raw(D), "routes", NoObject) = BuildNamed(m.routes)
            /\ Get(Raw(D), "exitNode", << >>) = m.exitNode
            /\ "autoApprovers" \in DOMAIN D => Raw(D) = AutoOf(m, Raw(r))
            /\ "autoApprovers" \notin DOMAIN D =>
                 Raw(D) = NoObject /\ DOMAIN AutoOf(m, Raw(r)) = {}
<1> DEFINE D == Serialize(m, r)
           A == AutoOf(m, Raw(r))
<1>1. /\ \A s \in NamedSections :
           /\ s \in DOMAIN D <=> s \in DOMAIN r \/ Names(m[s]) # {}
           /\ s \in DOMAIN D => D[s] = BuildNamed(m[s])
      /\ \A s \in RuleSections :
           /\ s \in DOMAIN D <=> s \in DOMAIN r \/ m[s] # << >>
           /\ s \in DOMAIN D => D[s] = SerializeRules(s, m[s])
      /\ "autoApprovers" \in DOMAIN D <=> "autoApprovers" \in DOMAIN r \/ DOMAIN A # {}
      /\ "autoApprovers" \in DOMAIN D => D["autoApprovers"] = A
  BY SerializeIs
<1>2. /\ "routes" \in DOMAIN A <=> "routes" \in DOMAIN Raw(r) \/ Names(m.routes) # {}
      /\ "routes" \in DOMAIN A => A.routes = BuildNamed(m.routes)
      /\ "exitNode" \in DOMAIN A <=> "exitNode" \in DOMAIN Raw(r) \/ m.exitNode # << >>
      /\ "exitNode" \in DOMAIN A => A.exitNode = m.exitNode
  BY AutoIs
<1> HIDE DEF D, A
<1>3. ASSUME NEW s \in NamedSections PROVE Get(D, s, NoObject) = BuildNamed(m[s])
  <2>1. CASE s \in DOMAIN D
    BY <1>1, <2>1 DEF Get
  <2>2. CASE s \notin DOMAIN D
    <3>1. Names(m[s]) = {}
      BY <1>1, <2>2
    <3> QED
      BY <2>2, <3>1, BuildNamedIs DEF Get
  <2> QED
    BY <2>1, <2>2
<1>4. ASSUME NEW s \in RuleSections PROVE Get(D, s, << >>) = SerializeRules(s, m[s])
  <2>1. CASE s \in DOMAIN D
    BY <1>1, <2>1 DEF Get
  <2>2. CASE s \notin DOMAIN D
    <3>1. m[s] = << >>
      BY <1>1, <2>2
    <3>2. SerializeRules(s, << >>) = << >>
      BY DEF SerializeRules
    <3> QED
      BY <2>2, <3>1, <3>2 DEF Get
  <2> QED
    BY <2>1, <2>2
<1>5. "autoApprovers" \in DOMAIN D => Raw(D) = A
  BY <1>1 DEF Raw, Get
<1>6. "autoApprovers" \notin DOMAIN D => Raw(D) = NoObject /\ DOMAIN A = {}
  BY <1>1 DEF Raw, Get
<1>7. Get(A, "routes", NoObject) = BuildNamed(m.routes)
  <2>1. CASE "routes" \in DOMAIN A
    BY <1>2, <2>1 DEF Get
  <2>2. CASE "routes" \notin DOMAIN A
    <3>1. Names(m.routes) = {}
      BY <1>2, <2>2
    <3> QED
      BY <2>2, <3>1, BuildNamedIs DEF Get
  <2> QED
    BY <2>1, <2>2
<1>8. Get(A, "exitNode", << >>) = m.exitNode
  <2>1. CASE "exitNode" \in DOMAIN A
    BY <1>2, <2>1 DEF Get
  <2>2. CASE "exitNode" \notin DOMAIN A
    BY <1>2, <2>2 DEF Get
  <2> QED
    BY <2>1, <2>2
<1>9. Get(Raw(D), "routes", NoObject) = BuildNamed(m.routes)
      /\ Get(Raw(D), "exitNode", << >>) = m.exitNode
  <2>1. CASE "autoApprovers" \in DOMAIN D
    BY <1>5, <1>7, <1>8, <2>1
  <2>2. CASE "autoApprovers" \notin DOMAIN D
    <3>1. "routes" \notin DOMAIN A /\ "exitNode" \notin DOMAIN A
      BY <1>6, <2>2
    <3>2. "routes" \notin DOMAIN Raw(D) /\ "exitNode" \notin DOMAIN Raw(D)
      BY <1>6, <2>2 DEF NoObject
    <3>3. Get(Raw(D), "routes", NoObject) = Get(A, "routes", NoObject)
          /\ Get(Raw(D), "exitNode", << >>) = Get(A, "exitNode", << >>)
      BY <3>1, <3>2 DEF Get
    <3> QED
      BY <1>7, <1>8, <3>3
  <2> QED
    BY <2>1, <2>2
<1> QED
  BY <1>3, <1>4, <1>5, <1>6, <1>9 DEF D, A

LEMMA ParseIsModel ==
  ASSUME NEW d, IsDocument(d)
  PROVE  ModelOK(Parse(d))
<1> DEFINE m == Parse(d)
<1>1. /\ DOMAIN m = Sections
      /\ \A s \in NamedSections : m[s] = ParseNamed(Get(d, s, NoObject))
      /\ \A s \in RuleSections : m[s] = ParseRules(s, Get(d, s, << >>))
      /\ m["routes"] = ParseNamed(Get(Raw(d), "routes", NoObject))
  BY ParseIs
<1>2. /\ \A s \in NamedSections : IsFiniteSet(DOMAIN Get(d, s, NoObject))
      /\ IsFiniteSet(DOMAIN Get(Raw(d), "routes", NoObject))
      /\ \A s \in RuleSections :
           /\ IsList(Get(d, s, << >>))
           /\ \A i \in DOMAIN Get(d, s, << >>) :
                "app" \in Known(s) => IsList(Get(Get(d, s, << >>)[i], "app", << >>))
  BY DEF IsDocument, Raw
<1> HIDE DEF m
<1>3. ASSUME NEW s \in RowsOf
      PROVE  IsList(m[s]) /\ \A i \in DOMAIN m[s] : RowOK(m[s][i])
  <2>1. CASE s \in NamedSections
    BY <1>1, <1>2, <2>1, ParseNamedIs
  <2>2. CASE s = "routes"
    BY <1>1, <1>2, <2>2, ParseNamedIs
  <2> QED
    BY <2>1, <2>2 DEF RowsOf
<1>4. ASSUME NEW s \in RuleSections
      PROVE  IsList(m[s]) /\ \A i \in DOMAIN m[s] : RuleOK(s, m[s][i])
  <2>1. m[s] = ParseRules(s, Get(d, s, << >>))
    BY <1>1
  <2> QED
    BY <1>2, <2>1, ParseRulesIs
<1> QED
  BY <1>1, <1>3, <1>4 DEF ModelOK, m

LEMMA SerializeIsDocument ==
  ASSUME NEW m, ModelOK(m), NEW r
  PROVE  IsDocument(Serialize(m, r))
<1> DEFINE D == Serialize(m, r)
<1>1. /\ \A s \in NamedSections : Get(D, s, NoObject) = BuildNamed(m[s])
      /\ \A s \in RuleSections : Get(D, s, << >>) = SerializeRules(s, m[s])
      /\ Get(Raw(D), "routes", NoObject) = BuildNamed(m.routes)
  BY WrittenSections
<1> HIDE DEF D
<1>2. ASSUME NEW s \in RowsOf PROVE IsFiniteSet(DOMAIN BuildNamed(m[s]))
  BY BuildNamedIs, NamesAreFinite DEF ModelOK
<1>3. ASSUME NEW s \in RuleSections
      PROVE  /\ IsList(SerializeRules(s, m[s]))
             /\ \A i \in DOMAIN SerializeRules(s, m[s]) :
                  "app" \in Known(s) => IsList(Get(SerializeRules(s, m[s])[i], "app", << >>))
  <2> DEFINE rules == SerializeRules(s, m[s])
  <2>1. /\ IsList(m[s])
        /\ \A i \in DOMAIN m[s] : "app" \in Known(s) => IsList(m[s][i].known.app)
    BY DEF ModelOK, RuleOK
  <2>2. rules = [i \in DOMAIN m[s] |-> SerializeRule(s, m[s][i])]
    BY DEF SerializeRules
  <2> HIDE DEF rules
  <2>3. DOMAIN rules = DOMAIN m[s] /\ rules = [i \in DOMAIN m[s] |-> rules[i]]
    BY <2>2
  <2>4. IsList(rules)
    BY <2>1, <2>3, MapOfList
  <2>5. ASSUME NEW i \in DOMAIN rules, "app" \in Known(s)
        PROVE  IsList(Get(rules[i], "app", << >>))
    <3>1. rules[i] = SerializeRule(s, m[s][i]) /\ i \in DOMAIN m[s]
      BY <2>2, <2>3
    <3>2. CASE "app" \in DOMAIN rules[i]
      <4>1. rules[i]["app"] = m[s][i].known["app"]
        <5> DEFINE row == m[s][i]
                   R == SerializeRule(s, row)
        <5>1. \A f \in DOMAIN R :
                R[f] = IF f \in DOMAIN row.raw \ Known(s) THEN row.raw[f] ELSE row.known[f]
          BY SerializeRuleIs
        <5>2. rules[i] = R
          BY <3>1
        <5> HIDE DEF R, row
        <5>3. R["app"] = row.known["app"]
          BY <2>5, <3>2, <5>1, <5>2
        <5> QED
          BY <5>2, <5>3 DEF row
      <4> QED
        BY <2>1, <2>5, <3>1, <3>2, <4>1 DEF Get
    <3>3. CASE "app" \notin DOMAIN rules[i]
      BY <3>3, EmptyIsList DEF Get
    <3> QED
      BY <3>2, <3>3
  <2> QED
    BY <2>4, <2>5 DEF rules
<1>4. IsFiniteSet(DOMAIN Get(Raw(D), "routes", NoObject))
  BY <1>1, <1>2 DEF RowsOf
<1>5. \A s \in NamedSections : IsFiniteSet(DOMAIN Get(D, s, NoObject))
  BY <1>1, <1>2 DEF RowsOf
<1>6. \A s \in RuleSections :
        /\ IsList(Get(D, s, << >>))
        /\ \A i \in DOMAIN Get(D, s, << >>) :
             "app" \in Known(s) => IsList(Get(Get(D, s, << >>)[i], "app", << >>))
  BY <1>1, <1>3
<1>7. IsDocument(D)
  BY <1>4, <1>5, <1>6 DEF IsDocument, Raw
<1> QED
  BY <1>7 DEF D

\* What the builder writes says what it shows: what TLC checks of every edit
\* in SectionsShowText.
LEMMA SerializeShows ==
  ASSUME NEW m, ModelOK(m), NEW r
  PROVE  LET D == Serialize(m, r)
         IN /\ \A s \in Sections : Written(s, m[s]) = Written(s, Parse(D)[s])
            /\ Passed(r) = Passed(D)
<1> DEFINE D == Serialize(m, r)
           n == Parse(D)
<1>1. /\ \A s \in NamedSections : Get(D, s, NoObject) = BuildNamed(m[s])
      /\ \A s \in RuleSections : Get(D, s, << >>) = SerializeRules(s, m[s])
      /\ Get(Raw(D), "routes", NoObject) = BuildNamed(m["routes"])
      /\ Get(Raw(D), "exitNode", << >>) = m["exitNode"]
  BY WrittenSections
<1>2. /\ \A s \in NamedSections : n[s] = ParseNamed(Get(D, s, NoObject))
      /\ \A s \in RuleSections : n[s] = ParseRules(s, Get(D, s, << >>))
      /\ n["routes"] = ParseNamed(Get(Raw(D), "routes", NoObject))
      /\ n["exitNode"] = Get(Raw(D), "exitNode", << >>)
  BY ParseIs
<1>3. \A k : k \notin Sectional => (k \in DOMAIN D <=> k \in DOMAIN r) /\ (k \in DOMAIN D => D[k] = r[k])
  BY SerializeIs
<1> HIDE DEF D, n
<1>4. ASSUME NEW s \in RowsOf PROVE Written(s, m[s]) = Written(s, n[s])
  <2>1. IsList(m[s])
    BY DEF ModelOK
  <2>2. n[s] = ParseNamed(BuildNamed(m[s]))
    BY <1>1, <1>2 DEF RowsOf
  <2>3. BuildNamed(n[s]) = BuildNamed(m[s])
    BY <2>1, <2>2, RowsRoundTrip
  <2> QED
    BY <2>3 DEF Written, RowsOf
<1>5. ASSUME NEW s \in RuleSections PROVE Written(s, m[s]) = Written(s, n[s])
  <2>1. n[s] = ParseRules(s, SerializeRules(s, m[s]))
    BY <1>1, <1>2
  <2>2. SerializeRules(s, n[s]) = SerializeRules(s, m[s])
    BY <2>1, RulesRoundTrip
  <2>3. s \notin NamedSections \cup {"routes"} /\ s # "exitNode"
    BY Keys
  <2> QED
    BY <2>2, <2>3 DEF Written
<1>6. Written("exitNode", m["exitNode"]) = Written("exitNode", n["exitNode"])
  BY <1>1, <1>2
<1>7. \A s \in Sections : Written(s, m[s]) = Written(s, n[s])
  BY <1>4, <1>5, <1>6 DEF Sections, RowsOf
<1>8. Passed(r) = Passed(D)
  <2>1. Sectional = NamedSections \cup RuleSections \cup {"autoApprovers"}
    BY DEF Sectional
  <2>2. DOMAIN r \ Sectional = DOMAIN D \ Sectional
    BY <1>3
  <2>3. \A k \in DOMAIN D \ Sectional : D[k] = r[k]
    BY <1>3
  <2>4. Passed(r) = [k \in DOMAIN r \ Sectional |-> r[k]] /\ Passed(D) = [k \in DOMAIN D \ Sectional |-> D[k]]
    BY <2>1 DEF Passed
  <2> QED
    BY <2>2, <2>3, <2>4
<1> QED
  BY <1>7, <1>8 DEF D, n

\* A document that was written is written again as it is.
LEMMA SerializeIsNormal ==
  ASSUME NEW m, ModelOK(m), NEW r
  PROVE  Normal(Serialize(m, r))
<1> DEFINE D == Serialize(m, r)
           n == Parse(D)
           E == Serialize(n, D)
           A == AutoOf(m, Raw(r))
           B == AutoOf(n, Raw(D))
<1>1. /\ D = [k \in DOMAIN D |-> D[k]]
      /\ \A s \in NamedSections : s \in DOMAIN D => D[s] = BuildNamed(m[s])
      /\ \A s \in RuleSections : s \in DOMAIN D => D[s] = SerializeRules(s, m[s])
      /\ "autoApprovers" \in DOMAIN D => D["autoApprovers"] = A
  BY SerializeIs
<1>2. /\ \A s \in NamedSections : Get(D, s, NoObject) = BuildNamed(m[s])
      /\ \A s \in RuleSections : Get(D, s, << >>) = SerializeRules(s, m[s])
      /\ Get(Raw(D), "routes", NoObject) = BuildNamed(m.routes)
      /\ Get(Raw(D), "exitNode", << >>) = m.exitNode
      /\ "autoApprovers" \in DOMAIN D => Raw(D) = A
      /\ "autoApprovers" \notin DOMAIN D => Raw(D) = NoObject /\ DOMAIN A = {}
  BY WrittenSections
<1>3. /\ \A s \in NamedSections : n[s] = ParseNamed(Get(D, s, NoObject))
      /\ \A s \in RuleSections : n[s] = ParseRules(s, Get(D, s, << >>))
      /\ n.routes = ParseNamed(Get(Raw(D), "routes", NoObject))
      /\ n.exitNode = Get(Raw(D), "exitNode", << >>)
  BY ParseIs
<1>4. /\ E = [k \in DOMAIN E |-> E[k]]
      /\ \A s \in NamedSections :
           /\ s \in DOMAIN E <=> s \in DOMAIN D \/ Names(n[s]) # {}
           /\ s \in DOMAIN E => E[s] = BuildNamed(n[s])
      /\ \A s \in RuleSections :
           /\ s \in DOMAIN E <=> s \in DOMAIN D \/ n[s] # << >>
           /\ s \in DOMAIN E => E[s] = SerializeRules(s, n[s])
      /\ "autoApprovers" \in DOMAIN E <=> "autoApprovers" \in DOMAIN D \/ DOMAIN B # {}
      /\ "autoApprovers" \in DOMAIN E => E["autoApprovers"] = B
      /\ \A k : k \notin Sectional =>
           /\ k \in DOMAIN E <=> k \in DOMAIN D
           /\ k \in DOMAIN E => E[k] = D[k]
  <2>1. E = Serialize(n, D) /\ B = AutoOf(n, Raw(D))
    OBVIOUS
  <2> HIDE DEF D, n, E, B
  <2> QED
    BY <2>1, SerializeIs
<1>5. /\ "routes" \in DOMAIN B <=> "routes" \in DOMAIN Raw(D) \/ Names(n.routes) # {}
      /\ "exitNode" \in DOMAIN B <=> "exitNode" \in DOMAIN Raw(D) \/ n.exitNode # << >>
      /\ \A k : k \notin {"routes", "exitNode"} => (k \in DOMAIN B <=> k \in DOMAIN Raw(D))
  <2> HIDE DEF D, n
  <2> QED
    BY AutoIs
<1>6. IsList(m.routes) /\ \A s \in NamedSections : IsList(m[s])
  BY DEF ModelOK, RowsOf
<1>7. "autoApprovers" \in DOMAIN D => B = A
  <2>1. ASSUME "autoApprovers" \in DOMAIN D
        PROVE  AutoOf(n, A) = A
    <3>1. /\ n.routes = ParseNamed(Get(A, "routes", NoObject))
          /\ n.exitNode = Get(A, "exitNode", << >>)
      BY <1>2, <1>3, <2>1
    <3> HIDE DEF n
    <3> QED
      BY <1>6, <3>1, AutoRoundTrip
  <2> QED
    BY <1>2, <2>1
<1> HIDE DEF D, n, E, A, B
<1>8. "autoApprovers" \notin DOMAIN D => DOMAIN B = {}
  <2>1. ASSUME "autoApprovers" \notin DOMAIN D PROVE DOMAIN B = {}
    <3>1. Raw(D) = NoObject
      BY <1>2, <2>1
    <3>2. DOMAIN Raw(D) = {}
      BY <3>1 DEF NoObject
    <3>3. n.routes = ParseNamed(NoObject) /\ n.exitNode = << >>
      BY <1>3, <3>1, <3>2 DEF Get
    <3>4. Names(n.routes) = {}
      BY <3>3, NoNames
    <3> QED
      BY <1>5, <3>2, <3>3, <3>4
  <2> QED
    BY <2>1
<1>9. ASSUME NEW s \in NamedSections
      PROVE  (s \in DOMAIN E <=> s \in DOMAIN D) /\ (s \in DOMAIN D => E[s] = D[s])
  <2>1. n[s] = ParseNamed(BuildNamed(m[s]))
    BY <1>2, <1>3
  <2>2. BuildNamed(n[s]) = BuildNamed(m[s])
    BY <1>6, <2>1, RowsRoundTrip
  <2>3. s \notin DOMAIN D => Names(n[s]) = {}
    <3>1. ASSUME s \notin DOMAIN D PROVE Names(n[s]) = {}
      <4>1. n[s] = ParseNamed(NoObject)
        BY <1>3, <3>1 DEF Get
      <4> QED
        BY <4>1, NoNames
    <3> QED
      BY <3>1
  <2> QED
    BY <1>1, <1>4, <2>2, <2>3
<1>10. ASSUME NEW s \in RuleSections
       PROVE  (s \in DOMAIN E <=> s \in DOMAIN D) /\ (s \in DOMAIN D => E[s] = D[s])
  <2>1. n[s] = ParseRules(s, SerializeRules(s, m[s]))
    BY <1>2, <1>3
  <2>2. SerializeRules(s, n[s]) = SerializeRules(s, m[s])
    BY <2>1, RulesRoundTrip
  <2>3. s \notin DOMAIN D => n[s] = << >>
    <3>1. ASSUME s \notin DOMAIN D PROVE n[s] = << >>
      <4>1. n[s] = ParseRules(s, << >>)
        BY <1>3, <3>1 DEF Get
      <4> QED
        BY <4>1 DEF ParseRules
    <3> QED
      BY <3>1
  <2> QED
    BY <1>1, <1>4, <2>2, <2>3
<1>11. ("autoApprovers" \in DOMAIN E <=> "autoApprovers" \in DOMAIN D)
       /\ ("autoApprovers" \in DOMAIN D => E["autoApprovers"] = D["autoApprovers"])
  BY <1>1, <1>4, <1>7, <1>8
<1>12. \A k : (k \in DOMAIN E <=> k \in DOMAIN D) /\ (k \in DOMAIN D => E[k] = D[k])
  <2> TAKE k
  <2>1. CASE k \in NamedSections
    BY <1>9, <2>1
  <2>2. CASE k \in RuleSections
    BY <1>10, <2>2
  <2>3. CASE k = "autoApprovers"
    BY <1>11, <2>3
  <2>4. CASE k \notin Sectional
    BY <1>4, <2>4
  <2> QED
    BY <2>1, <2>2, <2>3, <2>4 DEF Sectional
<1>13. DOMAIN E = DOMAIN D
  BY <1>12
<1>14. E = D
  BY <1>1, <1>4, <1>12, <1>13
<1> QED
  BY <1>14 DEF Normal, D, n, E

-----------------------------------------------------------------------------
(* One edit of the builder: another section is what it was, and of the     *)
(* section's rules, when none comes or goes, one is given one field        *)

RuleEdited(s, before, after) ==
  \/ Len(after) # Len(before)
  \/ \E i, f :
       /\ \A j \in DOMAIN before : j # i => after[j] = before[j]
       /\ i \in DOMAIN before =>
            /\ after[i].raw = before[i].raw
            /\ \A g \in Known(s) : g # f => after[i].known[g] = before[i].known[g]

OneEdit(m, n) ==
  \E s \in Sections :
    /\ \A r \in Sections : r # s => n[r] = m[r]
    /\ s \in RuleSections => RuleEdited(s, m[s], n[s])

Edited(m, n) == ModelOK(n) /\ OneEdit(m, n)

SectionOK(s, x) ==
  /\ s \in RowsOf => IsList(x) /\ \A i \in DOMAIN x : RowOK(x[i])
  /\ s \in RuleSections => IsList(x) /\ \A i \in DOMAIN x : RuleOK(s, x[i])

LEMMA SectionEdited ==
  ASSUME NEW m, ModelOK(m), NEW s \in Sections, NEW x, SectionOK(s, x),
         s \in RuleSections => RuleEdited(s, m[s], x)
  PROVE  Edited(m, [m EXCEPT ![s] = x])
<1> DEFINE n == [m EXCEPT ![s] = x]
<1>1. DOMAIN n = Sections /\ n[s] = x /\ \A r \in Sections : r # s => n[r] = m[r]
  BY DEF ModelOK
<1> HIDE DEF n
<1>2. RowsOf \subseteq Sections /\ RuleSections \subseteq Sections
  BY DEF RowsOf, Sections
<1>3. \A r \in RowsOf : IsList(n[r]) /\ \A i \in DOMAIN n[r] : RowOK(n[r][i])
  BY <1>1, <1>2 DEF ModelOK, SectionOK
<1>4. \A r \in RuleSections : IsList(n[r]) /\ \A i \in DOMAIN n[r] : RuleOK(r, n[r][i])
  BY <1>1, <1>2 DEF ModelOK, SectionOK
<1>5. ModelOK(n)
  BY <1>1, <1>3, <1>4 DEF ModelOK
<1>6. OneEdit(m, n)
  BY <1>1 DEF OneEdit
<1> QED
  BY <1>5, <1>6 DEF Edited, n

LEMMA SectionsSplit ==
  /\ RowsOf \subseteq Sections /\ RuleSections \subseteq Sections /\ "exitNode" \in Sections
  /\ RowsOf \cap RuleSections = {} /\ "exitNode" \notin RowsOf \cup RuleSections
  BY DEF RowsOf, NamedSections, RuleSections, Sections

LEMMA RowAdded ==
  ASSUME NEW m, ModelOK(m), NEW s \in RowsOf, NEW row, RowOK(row)
  PROVE  Edited(m, [m EXCEPT ![s] = Append(@, row)])
<1>1. IsList(m[s]) /\ \A i \in DOMAIN m[s] : RowOK(m[s][i])
  BY DEF ModelOK
<1> DEFINE x == Append(m[s], row)
<1>2. /\ IsList(x) /\ DOMAIN x = DOMAIN m[s] \cup {Len(m[s]) + 1}
      /\ \A i \in DOMAIN m[s] : x[i] = m[s][i]
      /\ x[Len(m[s]) + 1] = row
  BY <1>1, AppendIsList
<1>3. [m EXCEPT ![s] = Append(@, row)] = [m EXCEPT ![s] = x]
  OBVIOUS
<1> HIDE DEF x
<1>4. SectionOK(s, x)
  BY <1>1, <1>2, SectionsSplit DEF SectionOK
<1> QED
  BY <1>3, <1>4, SectionEdited, SectionsSplit

LEMMA RuleAdded ==
  ASSUME NEW m, ModelOK(m), NEW s \in RuleSections, NEW row, RuleOK(s, row)
  PROVE  Edited(m, [m EXCEPT ![s] = Append(@, row)])
<1>1. IsList(m[s]) /\ \A i \in DOMAIN m[s] : RuleOK(s, m[s][i])
  BY DEF ModelOK
<1> DEFINE x == Append(m[s], row)
<1>2. /\ IsList(x) /\ DOMAIN x = DOMAIN m[s] \cup {Len(m[s]) + 1}
      /\ \A i \in DOMAIN m[s] : x[i] = m[s][i]
      /\ x[Len(m[s]) + 1] = row
      /\ Len(x) = Len(m[s]) + 1
  BY <1>1, AppendIsList
<1>3. [m EXCEPT ![s] = Append(@, row)] = [m EXCEPT ![s] = x]
  OBVIOUS
<1> HIDE DEF x
<1>4. SectionOK(s, x)
  BY <1>1, <1>2, SectionsSplit DEF SectionOK
<1>5. Len(m[s]) \in Nat
  BY <1>1, ListHas
<1>6. RuleEdited(s, m[s], x)
  BY <1>2, <1>5 DEF RuleEdited
<1> QED
  BY <1>3, <1>4, <1>6, SectionEdited, SectionsSplit

LEMMA RowRemoved ==
  ASSUME NEW m, ModelOK(m), NEW s \in RowsOf \cup RuleSections, NEW i \in DOMAIN m[s]
  PROVE  Edited(m, [m EXCEPT ![s] = RemoveAt(@, i)])
<1>1. IsList(m[s])
  BY DEF ModelOK
<1> DEFINE x == RemoveAt(m[s], i)
<1>2. /\ IsList(x) /\ Len(x) = Len(m[s]) - 1
      /\ Range(x) \subseteq Range(m[s])
  BY <1>1, RemoveIsList
<1>3. [m EXCEPT ![s] = RemoveAt(@, i)] = [m EXCEPT ![s] = x]
  OBVIOUS
<1> HIDE DEF x
<1>4. \A j \in DOMAIN x : \E k \in DOMAIN m[s] : x[j] = m[s][k]
  BY <1>2 DEF Range
<1>5. SectionOK(s, x)
  <2>1. CASE s \in RowsOf
    <3>1. \A k \in DOMAIN m[s] : RowOK(m[s][k])
      BY <2>1 DEF ModelOK
    <3> QED
      BY <1>2, <1>4, <2>1, <3>1, SectionsSplit DEF SectionOK
  <2>2. CASE s \in RuleSections
    <3>1. \A k \in DOMAIN m[s] : RuleOK(s, m[s][k])
      BY <2>2 DEF ModelOK
    <3> QED
      BY <1>2, <1>4, <2>2, <3>1, SectionsSplit DEF SectionOK
  <2> QED
    BY <2>1, <2>2
<1>6. Len(m[s]) \in Nat
  BY <1>1, ListHas
<1>7. RuleEdited(s, m[s], x)
  BY <1>2, <1>6 DEF RuleEdited
<1> QED
  BY <1>3, <1>5, <1>7, SectionEdited, SectionsSplit

\* A row's name or values.
LEMMA RowPatched ==
  ASSUME NEW m, ModelOK(m), NEW s \in RowsOf, NEW i \in DOMAIN m[s], NEW v
  PROVE  /\ Edited(m, [m EXCEPT ![s][i].name = v])
         /\ Edited(m, [m EXCEPT ![s][i].values = v])
<1>1. IsList(m[s]) /\ (\A j \in DOMAIN m[s] : RowOK(m[s][j])) /\ DOMAIN m = Sections
  BY DEF ModelOK
<1>2. ASSUME NEW row, RowOK(row)
      PROVE  Edited(m, [m EXCEPT ![s] = [m[s] EXCEPT ![i] = row]])
  <2> DEFINE x == [m[s] EXCEPT ![i] = row]
  <2>1. DOMAIN x = DOMAIN m[s] /\ x = [j \in DOMAIN m[s] |-> x[j]]
        /\ \A j \in DOMAIN m[s] : x[j] = row \/ x[j] = m[s][j]
    OBVIOUS
  <2> HIDE DEF x
  <2>2. IsList(x)
    BY <1>1, <2>1, MapOfList
  <2>3. SectionOK(s, x)
    BY <1>1, <1>2, <2>1, <2>2, SectionsSplit DEF SectionOK
  <2>4. Edited(m, [m EXCEPT ![s] = x])
    BY <2>3, SectionEdited, SectionsSplit
  <2> QED
    BY <2>4 DEF x
<1>3. RowOK([m[s][i] EXCEPT !.name = v]) /\ RowOK([m[s][i] EXCEPT !.values = v])
  BY <1>1 DEF RowOK
<1>4. Edited(m, [m EXCEPT ![s] = [m[s] EXCEPT ![i] = [m[s][i] EXCEPT !.name = v]]])
      /\ Edited(m, [m EXCEPT ![s] = [m[s] EXCEPT ![i] = [m[s][i] EXCEPT !.values = v]]])
  BY <1>2, <1>3
<1>5. [m EXCEPT ![s][i].name = v] = [m EXCEPT ![s] = [m[s] EXCEPT ![i] = [m[s][i] EXCEPT !.name = v]]]
  OBVIOUS
<1>6. [m EXCEPT ![s][i].values = v] = [m EXCEPT ![s] = [m[s] EXCEPT ![i] = [m[s][i] EXCEPT !.values = v]]]
  OBVIOUS
<1> QED
  BY <1>4, <1>5, <1>6

\* A field of a rule.
WithField(m, s, i, f, v) == [m EXCEPT ![s][i].known[f] = v]
FieldIsSet(m, s, i, f, v, n) ==
  /\ Edited(m, n)
  /\ \A r \in Sections : r # s => n[r] = m[r]
  /\ DOMAIN n[s] = DOMAIN m[s]
  /\ \A j \in DOMAIN m[s] : j # i => n[s][j] = m[s][j]
  /\ \A g \in Known(s) : n[s][i].known[g] = IF g = f THEN v ELSE m[s][i].known[g]

LEMMA RulePatched ==
  ASSUME NEW m, ModelOK(m), NEW s \in RuleSections, NEW i \in DOMAIN m[s], NEW f, NEW v,
         f = "app" => IsList(v)
  PROVE  FieldIsSet(m, s, i, f, v, WithField(m, s, i, f, v))
<1>1. /\ IsList(m[s]) /\ DOMAIN m = Sections
      /\ \A j \in DOMAIN m[s] : RuleOK(s, m[s][j])
  BY DEF ModelOK
<1> DEFINE row == [m[s][i] EXCEPT !.known[f] = v]
           x == [m[s] EXCEPT ![i] = row]
           n == WithField(m, s, i, f, v)
<1>2. n = [m EXCEPT ![s] = x]
  BY DEF WithField
<1> HIDE DEF n
<1>3. /\ DOMAIN row = {"known", "raw"} /\ row.raw = m[s][i].raw /\ DOMAIN row.known = Known(s)
      /\ \A g \in Known(s) : row.known[g] = IF g = f THEN v ELSE m[s][i].known[g]
  BY <1>1 DEF RuleOK
<1> HIDE DEF row
<1>4. /\ DOMAIN x = DOMAIN m[s] /\ x = [j \in DOMAIN m[s] |-> x[j]]
      /\ \A j \in DOMAIN m[s] : j # i => x[j] = m[s][j]
      /\ x[i] = row
  OBVIOUS
<1>5. n[s] = x /\ \A r \in Sections : r # s => n[r] = m[r]
  BY <1>1, <1>2, SectionsSplit
<1> HIDE DEF x
<1>6. RuleOK(s, row)
  <2>1. "app" \in Known(s) => IsList(m[s][i].known["app"])
    BY <1>1 DEF RuleOK
  <2>2. "app" \in Known(s) => IsList(row.known["app"])
    BY <1>3, <2>1
  <2> QED
    BY <1>3, <2>2 DEF RuleOK
<1>7. IsList(x)
  BY <1>1, <1>4, MapOfList
<1>8. SectionOK(s, x)
  BY <1>1, <1>4, <1>6, <1>7, SectionsSplit DEF SectionOK
<1>9. RuleEdited(s, m[s], x)
  <2>1. /\ \A j \in DOMAIN m[s] : j # i => x[j] = m[s][j]
        /\ x[i].raw = m[s][i].raw
        /\ \A g \in Known(s) : g # f => x[i].known[g] = m[s][i].known[g]
    BY <1>3, <1>4
  <2> HIDE DEF x
  <2>2. \E h, g : /\ \A j \in DOMAIN m[s] : j # h => x[j] = m[s][j]
                  /\ h \in DOMAIN m[s] =>
                       /\ x[h].raw = m[s][h].raw
                       /\ \A k \in Known(s) : k # g => x[h].known[k] = m[s][h].known[k]
    BY ONLY <2>1, Zenon
  <2> QED
    BY ONLY <2>2, Zenon DEF RuleEdited
<1>10. Edited(m, n)
  BY <1>2, <1>8, <1>9, SectionEdited, SectionsSplit
<1>11. \A g \in Known(s) : n[s][i].known[g] = IF g = f THEN v ELSE m[s][i].known[g]
  <2>1. n[s][i] = row
    BY <1>4, <1>5
  <2> QED
    BY <1>3, <2>1
<1>12. DOMAIN n[s] = DOMAIN m[s] /\ \A j \in DOMAIN m[s] : j # i => n[s][j] = m[s][j]
  BY <1>4, <1>5
<1> QED
  BY <1>5, <1>10, <1>11, <1>12 DEF FieldIsSet, n

LEMMA ExitNodeSet ==
  ASSUME NEW m, ModelOK(m), NEW v
  PROVE  Edited(m, [m EXCEPT !.exitNode = v])
<1>1. SectionOK("exitNode", v)
  BY SectionsSplit DEF SectionOK
<1> QED
  BY <1>1, SectionEdited, SectionsSplit

-----------------------------------------------------------------------------
(* One edit of the builder changes one place of the text *)

LEMMA AtMostOne ==
  ASSUME NEW S, NEW x, S \subseteq {x}
  PROVE  Cardinality(S) <= 1
<1>1. S = {} \/ S = {x}
  OBVIOUS
<1>2. Cardinality({}) = 0 /\ Cardinality({x}) = 1
  BY FS_EmptySet, FS_Singleton
<1> QED
  BY <1>1, <1>2

LEMMA SameIsUnchanged ==
  ASSUME NEW x
  PROVE  Changed(x, x) = {} /\ OnePlace(x, x) /\ OnePlaceInRules(x, x)
<1>1. Changed(x, x) = {}
  BY DEF Changed
<1>2. OnePlace(x, x)
  BY <1>1, AtMostOne DEF OnePlace
<1> QED
  BY <1>1, <1>2 DEF OnePlaceInRules

LEMMA RuleFieldPlace ==
  ASSUME NEW s \in RuleSections, NEW before, NEW after, NEW f,
         after.raw = before.raw,
         \A g \in Known(s) : g # f => after.known[g] = before.known[g]
  PROVE  OnePlace(SerializeRule(s, before), SerializeRule(s, after))
<1> DEFINE R == SerializeRule(s, before)
           Q == SerializeRule(s, after)
           passed == DOMAIN before.raw \ Known(s)
<1>1. /\ DOMAIN R = Required(s) \cup WrittenFields(s, before) \cup passed
      /\ \A g \in DOMAIN R : R[g] = IF g \in passed THEN before.raw[g] ELSE before.known[g]
  BY SerializeRuleIs
<1>2. /\ DOMAIN Q = Required(s) \cup WrittenFields(s, after) \cup passed
      /\ \A g \in DOMAIN Q : Q[g] = IF g \in passed THEN before.raw[g] ELSE after.known[g]
  <2>1. /\ DOMAIN Q = Required(s) \cup WrittenFields(s, after) \cup (DOMAIN after.raw \ Known(s))
        /\ \A g \in DOMAIN Q : Q[g] = IF g \in DOMAIN after.raw \ Known(s) THEN after.raw[g]
                                      ELSE after.known[g]
    BY SerializeRuleIs
  <2> HIDE DEF Q
  <2> QED
    BY <2>1
<1> HIDE DEF R, Q, passed
<1>3. \A g : g # f => (g \in WrittenFields(s, after) <=> g \in WrittenFields(s, before))
  <2>1. Optional(s) \subseteq Known(s)
    BY FieldsOfRules
  <2> QED
    BY <2>1 DEF WrittenFields
<1>4. \A g : g # f => (g \in DOMAIN R <=> g \in DOMAIN Q)
  BY <1>1, <1>2, <1>3
<1>5. ASSUME NEW g \in DOMAIN R, g # f PROVE R[g] = Q[g]
  <2>1. g \in passed \/ g \in Known(s)
    BY <1>1, FieldsOfRules DEF WrittenFields
  <2> QED
    BY <1>1, <1>2, <1>4, <1>5, <2>1
<1>6. Changed(R, Q) \subseteq {f}
  BY <1>4, <1>5 DEF Changed
<1>7. OnePlace(R, Q)
  BY <1>6, AtMostOne DEF OnePlace
<1> QED
  BY <1>7 DEF R, Q

LEMMA RulePlace ==
  ASSUME NEW s \in RuleSections, NEW m, ModelOK(m), NEW n, ModelOK(n), RuleEdited(s, m[s], n[s])
  PROVE  OnePlaceInRules(SerializeRules(s, m[s]), SerializeRules(s, n[s]))
<1> DEFINE before == m[s]
           after == n[s]
           R == SerializeRules(s, before)
           Q == SerializeRules(s, after)
<1>1. IsList(before) /\ IsList(after)
  BY DEF ModelOK
<1>2. RuleEdited(s, before, after)
  OBVIOUS
<1> HIDE DEF before, after
<1>3. R = [i \in DOMAIN before |-> SerializeRule(s, before[i])]
      /\ Q = [i \in DOMAIN after |-> SerializeRule(s, after[i])]
  BY DEF SerializeRules
<1> HIDE DEF R, Q
<1>4. DOMAIN R = DOMAIN before /\ R = [i \in DOMAIN before |-> R[i]]
      /\ DOMAIN Q = DOMAIN after /\ Q = [i \in DOMAIN after |-> Q[i]]
  BY <1>3
<1>5. Len(R) = Len(before) /\ Len(Q) = Len(after)
  BY <1>1, <1>4, MapOfList
<1>6. ASSUME Len(R) = Len(Q)
      PROVE  OnePlace(R, Q) /\ \A i \in Changed(R, Q) : OnePlace(R[i], Q[i])
  <2>1. Len(before) = Len(after)
    BY <1>5, <1>6
  <2>2. DOMAIN before = 1 .. Len(before) /\ DOMAIN after = 1 .. Len(after)
    BY <1>1, ListHas
  <2>3. DOMAIN before = DOMAIN after
    BY <2>1, <2>2
  <2>4. PICK i, f :
          /\ \A j \in DOMAIN before : j # i => after[j] = before[j]
          /\ i \in DOMAIN before =>
               /\ after[i].raw = before[i].raw
               /\ \A g \in Known(s) : g # f => after[i].known[g] = before[i].known[g]
    BY <1>2, <2>1 DEF RuleEdited
  <2>5. \A j \in DOMAIN before : j # i => Q[j] = R[j]
    BY <1>3, <2>3, <2>4
  <2>6. Changed(R, Q) \subseteq {i} /\ Changed(R, Q) \subseteq DOMAIN before
    BY <1>4, <2>3, <2>5 DEF Changed
  <2>7. OnePlace(R, Q)
    BY <2>6, AtMostOne DEF OnePlace
  <2>8. ASSUME i \in DOMAIN before PROVE OnePlace(R[i], Q[i])
    <3>1. OnePlace(SerializeRule(s, before[i]), SerializeRule(s, after[i]))
      BY <2>4, <2>8, RuleFieldPlace
    <3> QED
      BY <1>3, <2>3, <2>8, <3>1
  <2> QED
    BY <2>6, <2>7, <2>8
<1>7. OnePlaceInRules(R, Q)
  BY <1>6 DEF OnePlaceInRules
<1> QED
  BY <1>7 DEF R, Q, before, after

LEMMA AutoPlace ==
  ASSUME NEW m, NEW n, NEW raw, m.routes = n.routes \/ m.exitNode = n.exitNode
  PROVE  OnePlace(AutoOf(m, raw), AutoOf(n, raw))
<1> DEFINE A == AutoOf(m, raw)
           B == AutoOf(n, raw)
<1>1. /\ "routes" \in DOMAIN A <=> "routes" \in DOMAIN raw \/ Names(m.routes) # {}
      /\ "routes" \in DOMAIN A => A.routes = BuildNamed(m.routes)
      /\ "exitNode" \in DOMAIN A <=> "exitNode" \in DOMAIN raw \/ m.exitNode # << >>
      /\ "exitNode" \in DOMAIN A => A.exitNode = m.exitNode
      /\ \A k : k \notin {"routes", "exitNode"} =>
           /\ k \in DOMAIN A <=> k \in DOMAIN raw
           /\ k \in DOMAIN A => A[k] = raw[k]
  BY AutoIs
<1>2. /\ "routes" \in DOMAIN B <=> "routes" \in DOMAIN raw \/ Names(n.routes) # {}
      /\ "routes" \in DOMAIN B => B.routes = BuildNamed(n.routes)
      /\ "exitNode" \in DOMAIN B <=> "exitNode" \in DOMAIN raw \/ n.exitNode # << >>
      /\ "exitNode" \in DOMAIN B => B.exitNode = n.exitNode
      /\ \A k : k \notin {"routes", "exitNode"} =>
           /\ k \in DOMAIN B <=> k \in DOMAIN raw
           /\ k \in DOMAIN B => B[k] = raw[k]
  BY AutoIs
<1> HIDE DEF A, B
<1>3. CASE m.routes = n.routes
  <2>1. \A k : k # "exitNode" => (k \in DOMAIN A <=> k \in DOMAIN B) /\ (k \in DOMAIN A => A[k] = B[k])
    <3> TAKE k
    <3>1. CASE k = "routes"
      BY <1>1, <1>2, <1>3, <3>1
    <3>2. CASE k \notin {"routes", "exitNode"}
      BY <1>1, <1>2, <3>2
    <3> QED
      BY <3>1, <3>2
  <2>2. Changed(A, B) \subseteq {"exitNode"}
    BY <2>1 DEF Changed
  <2> QED
    BY <2>2, AtMostOne DEF OnePlace, A, B
<1>4. CASE m.exitNode = n.exitNode
  <2>1. \A k : k # "routes" => (k \in DOMAIN A <=> k \in DOMAIN B) /\ (k \in DOMAIN A => A[k] = B[k])
    <3> TAKE k
    <3>1. CASE k = "exitNode"
      BY <1>1, <1>2, <1>4, <3>1
    <3>2. CASE k \notin {"routes", "exitNode"}
      BY <1>1, <1>2, <3>2
    <3> QED
      BY <3>1, <3>2
  <2>2. Changed(A, B) \subseteq {"routes"}
    BY <2>1 DEF Changed
  <2> QED
    BY <2>2, AtMostOne DEF OnePlace, A, B
<1> QED
  BY <1>3, <1>4

LEMMA EditIsOnePlace ==
  ASSUME NEW m, ModelOK(m), NEW n, Edited(m, n), NEW r
  PROVE  OnePlaceOfText(Serialize(m, r), Serialize(n, r))
<1> DEFINE D == Serialize(m, r)
           E == Serialize(n, r)
           A == AutoOf(m, Raw(r))
           B == AutoOf(n, Raw(r))
<1>1. /\ \A s \in NamedSections :
           /\ s \in DOMAIN D <=> s \in DOMAIN r \/ Names(m[s]) # {}
           /\ s \in DOMAIN D => D[s] = BuildNamed(m[s])
      /\ \A s \in RuleSections :
           /\ s \in DOMAIN D <=> s \in DOMAIN r \/ m[s] # << >>
           /\ s \in DOMAIN D => D[s] = SerializeRules(s, m[s])
      /\ "autoApprovers" \in DOMAIN D <=> "autoApprovers" \in DOMAIN r \/ DOMAIN A # {}
      /\ "autoApprovers" \in DOMAIN D => D["autoApprovers"] = A
      /\ \A k : k \notin Sectional =>
           /\ k \in DOMAIN D <=> k \in DOMAIN r
           /\ k \in DOMAIN D => D[k] = r[k]
  <2> DEFINE F == Serialize(m, r)
             C == AutoOf(m, Raw(r))
  <2>1. \A k \in NamedSections :
          /\ k \in DOMAIN F <=> k \in DOMAIN r \/ Names(m[k]) # {}
          /\ k \in DOMAIN F => F[k] = BuildNamed(m[k])
    BY SerializeIs
  <2>2. \A k \in RuleSections :
          /\ k \in DOMAIN F <=> k \in DOMAIN r \/ m[k] # << >>
          /\ k \in DOMAIN F => F[k] = SerializeRules(k, m[k])
    BY SerializeIs
  <2>3. /\ "autoApprovers" \in DOMAIN F <=> "autoApprovers" \in DOMAIN r \/ DOMAIN C # {}
        /\ "autoApprovers" \in DOMAIN F => F["autoApprovers"] = C
    BY SerializeIs
  <2>4. \A k : k \notin Sectional =>
          /\ k \in DOMAIN F <=> k \in DOMAIN r
          /\ k \in DOMAIN F => F[k] = r[k]
    BY SerializeIs
  <2> QED
    BY <2>1, <2>2, <2>3, <2>4
<1>2. /\ \A s \in NamedSections :
           /\ s \in DOMAIN E <=> s \in DOMAIN r \/ Names(n[s]) # {}
           /\ s \in DOMAIN E => E[s] = BuildNamed(n[s])
      /\ \A s \in RuleSections :
           /\ s \in DOMAIN E <=> s \in DOMAIN r \/ n[s] # << >>
           /\ s \in DOMAIN E => E[s] = SerializeRules(s, n[s])
      /\ "autoApprovers" \in DOMAIN E <=> "autoApprovers" \in DOMAIN r \/ DOMAIN B # {}
      /\ "autoApprovers" \in DOMAIN E => E["autoApprovers"] = B
      /\ \A k : k \notin Sectional =>
           /\ k \in DOMAIN E <=> k \in DOMAIN r
           /\ k \in DOMAIN E => E[k] = r[k]
  BY SerializeIs
<1>3. PICK s \in Sections :
        /\ \A q \in Sections : q # s => n[q] = m[q]
        /\ s \in RuleSections => RuleEdited(s, m[s], n[s])
  BY DEF Edited, OneEdit
<1>4. ModelOK(n)
  BY DEF Edited
<1>5. "routes" \in Sections /\ "exitNode" \in Sections
      /\ NamedSections \subseteq Sections /\ RuleSections \subseteq Sections
  BY DEF Sections
<1>6. m["routes"] = n["routes"] \/ m["exitNode"] = n["exitNode"]
  BY <1>3, <1>5
<1>7. OnePlace(A, B)
  BY <1>6, AutoPlace
<1>8. s \notin {"routes", "exitNode"} => A = B
  <2>1. ASSUME s \notin {"routes", "exitNode"} PROVE m.routes = n.routes /\ m.exitNode = n.exitNode
    BY <1>3, <1>5, <2>1
  <2> QED
    BY <2>1 DEF AutoOf
<1> DEFINE key == IF s \in {"routes", "exitNode"} THEN "autoApprovers" ELSE s
<1> HIDE DEF D, E, A, B
<1>9. \A k : k # key => (k \in DOMAIN D <=> k \in DOMAIN E) /\ (k \in DOMAIN D => D[k] = E[k])
  <2> TAKE k
  <2>1. HAVE k # key
  <2>2. CASE k \in NamedSections
    <3>1. k # s
      BY <2>1, <2>2, Keys
    <3>2. n[k] = m[k]
      BY <1>3, <1>5, <2>2, <3>1
    <3> QED
      BY <1>1, <1>2, <2>2, <3>2
  <2>3. CASE k \in RuleSections
    <3>1. k # s
      BY <2>1, <2>3, Keys
    <3>2. n[k] = m[k]
      BY <1>3, <1>5, <2>3, <3>1
    <3> QED
      BY <1>1, <1>2, <2>3, <3>2
  <2>4. CASE k = "autoApprovers"
    <3>1. A = B
      BY <1>8, <2>1, <2>4
    <3> QED
      BY <1>1, <1>2, <2>4, <3>1
  <2>5. CASE k \notin Sectional
    BY <1>1, <1>2, <2>5
  <2> QED
    BY <2>2, <2>3, <2>4, <2>5 DEF Sectional
<1> HIDE DEF key
<1>10. Changed(D, E) \subseteq {key}
  BY <1>9 DEF Changed
<1>11. OnePlace(D, E)
  BY <1>10, AtMostOne DEF OnePlace
<1>12. ASSUME "autoApprovers" \in DOMAIN D, "autoApprovers" \in DOMAIN E
       PROVE  OnePlace(D["autoApprovers"], E["autoApprovers"])
  BY <1>1, <1>2, <1>7, <1>12
<1>13. ASSUME NEW k \in RuleSections, k \in DOMAIN D, k \in DOMAIN E
       PROVE  OnePlaceInRules(D[k], E[k])
  <2>1. D[k] = SerializeRules(k, m[k]) /\ E[k] = SerializeRules(k, n[k])
    BY <1>1, <1>2, <1>13
  <2>2. CASE k = s
    <3>1. RuleEdited(k, m[k], n[k])
      BY <1>3, <1>13, <2>2
    <3> QED
      BY <1>4, <2>1, <3>1, RulePlace
  <2>3. CASE k # s
    <3>1. n[k] = m[k]
      BY <1>3, <1>5, <1>13, <2>3
    <3> QED
      BY <2>1, <3>1, SameIsUnchanged
  <2> QED
    BY <2>2, <2>3
<1>14. OnePlaceOfText(D, E)
  BY <1>11, <1>12, <1>13 DEF OnePlaceOfText, Both
<1> QED
  BY <1>14 DEF D, E

-----------------------------------------------------------------------------
(* The steps of the workbench *)

Edits == \E n : Edited(model, n) /\ OnModelChange(n)
Types == \E text \in session.typed : OnJsonChange(text)

EditorStep ==
  \/ Edits
  \/ Types
  \/ Save
  \/ Browse
  \/ \E loaded \in session.others : OthersSave(loaded)
  \/ UNCHANGED editorVars

LEMMA PageEdits ==
  ASSUME TextHolds, EditPolicy
  PROVE  Edits \/ Types
<1>1. session \in Session /\ ModelOK(model)
  BY DEF TextHolds
<1>2. /\ DOMAIN session.names \subseteq RowsOf
      /\ DOMAIN session.fields \subseteq RuleSections
      /\ \A r \in DOMAIN session.fields : \A f \in DOMAIN session.fields[r] :
           \A entries \in session.fields[r][f] : IsList(entries)
  BY <1>1, SessionAssumption DEF RowsOf
<1>3. ASSUME NEW s \in Named, EditNamed(s) PROVE Edits
  <2>1. s \in RowsOf
    BY <1>2 DEF Named
  <2>2. CASE AddNamed(s)
    <3>1. RowOK(NewRow(s))
      BY DEF NewRow, RowOK
    <3>2. OnModelChange([model EXCEPT ![s] = Append(@, NewRow(s))])
      BY <2>2 DEF AddNamed, Add
    <3>3. Edited(model, [model EXCEPT ![s] = Append(@, NewRow(s))])
      BY <1>1, <2>1, <3>1, RowAdded
    <3> QED
      BY <3>2, <3>3 DEF Edits
  <2>3. ASSUME NEW i \in DOMAIN model[s], NEW name \in session.names[s], PatchName(s, i, name)
        PROVE  Edits
    <3>1. Edited(model, [model EXCEPT ![s][i].name = name])
      BY <1>1, <2>1, RowPatched
    <3> QED
      BY <2>3, <3>1 DEF PatchName, Edits
  <2>4. ASSUME NEW i \in DOMAIN model[s], NEW values \in session.values[s], PatchValues(s, i, values)
        PROVE  Edits
    <3>1. Edited(model, [model EXCEPT ![s][i].values = values])
      BY <1>1, <2>1, RowPatched
    <3> QED
      BY <2>4, <3>1 DEF PatchValues, Edits
  <2>5. ASSUME NEW i \in DOMAIN model[s], RemoveRow(s, i) PROVE Edits
    <3>1. Edited(model, [model EXCEPT ![s] = RemoveAt(@, i)])
      BY <1>1, <2>1, RowRemoved
    <3> QED
      BY <2>5, <3>1 DEF RemoveRow, Edits
  <2> QED
    BY <1>3, <2>2, <2>3, <2>4, <2>5 DEF EditNamed
<1>4. ASSUME NEW s \in Ruled, EditRules(s) PROVE Edits
  <2>1. s \in RuleSections /\ s \in DOMAIN session.fields
    BY <1>2 DEF Ruled
  <2>2. CASE AddRule(s)
    <3> DEFINE row == ParseRule(s, NoObject)
    <3>1. RuleOK(s, row)
      <4>1. DOMAIN row = {"known", "raw"} /\ DOMAIN row.known = Known(s)
        BY DEF ParseRule
      <4>2. "app" \in Known(s) => row.known["app"] = << >>
        BY DEF ParseRule, Get, NoObject
      <4> QED
        BY <4>1, <4>2, EmptyIsList DEF RuleOK
    <3>2. OnModelChange([model EXCEPT ![s] = Append(@, row)])
      BY <2>2 DEF AddRule, Add
    <3> HIDE DEF row
    <3>3. Edited(model, [model EXCEPT ![s] = Append(@, row)])
      BY <1>1, <2>1, <3>1, RuleAdded
    <3> QED
      BY <3>2, <3>3 DEF Edits
  <2>3. ASSUME NEW i \in DOMAIN model[s], NEW f \in DOMAIN session.fields[s],
               NEW entries \in session.fields[s][f], PatchRule(s, i, f, entries)
        PROVE  Edits
    <3>1. IsList(entries)
      BY <1>2, <2>1
    <3>2. Edited(model, WithField(model, s, i, f, entries))
      BY <1>1, <2>1, <3>1, RulePatched DEF FieldIsSet
    <3>3. OnModelChange(WithField(model, s, i, f, entries))
      BY <2>3 DEF PatchRule, WithField
    <3> QED
      BY <3>2, <3>3 DEF Edits
  <2>4. ASSUME NEW i \in DOMAIN model[s], RemoveRow(s, i) PROVE Edits
    <3>1. Edited(model, [model EXCEPT ![s] = RemoveAt(@, i)])
      BY <1>1, <2>1, RowRemoved
    <3> QED
      BY <2>4, <3>1 DEF RemoveRow, Edits
  <2> QED
    BY <1>4, <2>2, <2>3, <2>4 DEF EditRules
<1>5. ASSUME NEW entries \in session.exitNodes, SetExitNode(entries) PROVE Edits
  <2>1. Edited(model, [model EXCEPT !.exitNode = entries])
    BY <1>1, ExitNodeSet
  <2> QED
    BY <1>5, <2>1 DEF SetExitNode, Edits
<1> QED
  BY <1>3, <1>4, <1>5 DEF EditPolicy, Types

LEMMA EditorSteps ==
  ASSUME TextHolds, EditorNext
  PROVE  EditorStep
  BY PageEdits DEF EditorNext, EditorStep

\* A token goes to a field of a rule that is not its capabilities, or to the
\* values of a row: no row comes or goes, and the capabilities stay.
SameCapabilities(m, n) ==
  \A s \in Carriers :
    /\ DOMAIN n[s] = DOMAIN m[s]
    /\ \A i \in DOMAIN m[s] : n[s][i].known.app = m[s][i].known.app

LEMMA CarriersAre ==
  /\ Carriers \subseteq RuleSections /\ Carriers \subseteq Sections
  /\ \A s \in Carriers : "app" \in Known(s)
  BY DEF Carriers, RuleSections, Sections, Known, Optional

LEMMA TokensPatched ==
  ASSUME TextHolds, NEW s \in DOMAIN session.tokens, NEW f \in DOMAIN session.tokens[s],
         NEW i \in DOMAIN model[s], NEW tokens, PatchTokens(s, i, f, tokens)
  PROVE  \E n : Edited(model, n) /\ OnModelChange(n) /\ SameCapabilities(model, n)
<1>1. session \in Session /\ ModelOK(model)
  BY DEF TextHolds
<1>2. \/ s \in RuleSections /\ f \in Known(s) /\ f # "app"
      \/ s \in RowsOf /\ f = "values"
  BY <1>1, TokensAssumption DEF RowsOf
<1>3. "values" \notin Known(s) \/ s \notin RuleSections
  <2>1. ASSUME s \in RuleSections PROVE "values" \notin Known(s)
    <3>1. s = "acls" \/ s = "ssh" \/ s = "nodeAttrs" \/ s = "grants"
      BY <2>1 DEF RuleSections
    <3>2. CASE s = "acls"
      BY <3>2 DEF Known, Required, Optional
    <3>3. CASE s = "ssh"
      BY <3>3 DEF Known, Required, Optional
    <3>4. CASE s = "nodeAttrs"
      BY <3>4 DEF Known, Required, Optional
    <3>5. CASE s = "grants"
      BY <3>5 DEF Known, Required, Optional
    <3> QED
      BY <3>1, <3>2, <3>3, <3>4, <3>5
  <2> QED
    BY <2>1
<1>4. CASE s \in RuleSections /\ f \in Known(s) /\ f # "app"
  <2> DEFINE n == WithField(model, s, i, f, tokens)
  <2>1. /\ Edited(model, n)
        /\ \A r \in Sections : r # s => n[r] = model[r]
        /\ DOMAIN n[s] = DOMAIN model[s]
        /\ \A j \in DOMAIN model[s] : j # i => n[s][j] = model[s][j]
        /\ \A g \in Known(s) : n[s][i].known[g] = IF g = f THEN tokens ELSE model[s][i].known[g]
    <3>1. FieldIsSet(model, s, i, f, tokens, n)
      BY <1>1, <1>4, RulePatched
    <3> HIDE DEF n
    <3> QED
      BY <3>1 DEF FieldIsSet
  <2>2. OnModelChange(n)
    BY <1>3, <1>4 DEF PatchTokens, PatchRule, WithField
  <2> HIDE DEF n
  <2>3. ASSUME NEW c \in Carriers
        PROVE  /\ DOMAIN n[c] = DOMAIN model[c]
               /\ \A j \in DOMAIN model[c] : n[c][j].known["app"] = model[c][j].known["app"]
    <3>1. CASE c = s
      BY <1>4, <2>1, <3>1, CarriersAre
    <3>2. CASE c # s
      BY <2>1, <3>2, CarriersAre
    <3> QED
      BY <3>1, <3>2
  <2>4. SameCapabilities(model, n)
    BY <2>3 DEF SameCapabilities
  <2> QED
    BY <2>1, <2>2, <2>4
<1>5. CASE s \in RowsOf /\ f = "values"
  <2> DEFINE n == [model EXCEPT ![s][i].values = tokens]
  <2>1. Edited(model, n) /\ \A c \in RuleSections : n[c] = model[c]
    <3>1. ModelOK(model) /\ s \in RowsOf
      BY <1>1, <1>5
    <3>2. Edited(model, n)
      BY <3>1, RowPatched
    <3>3. \A c \in RuleSections : n[c] = model[c]
      BY <1>1, <3>1, SectionsSplit DEF ModelOK
    <3> QED
      BY <3>2, <3>3
  <2>2. OnModelChange(n)
    BY <1>5 DEF PatchTokens, PatchValues
  <2> HIDE DEF n
  <2>3. SameCapabilities(model, n)
    BY <2>1, CarriersAre DEF SameCapabilities
  <2> QED
    BY <2>1, <2>2, <2>3
<1> QED
  BY <1>2, <1>4, <1>5

-----------------------------------------------------------------------------
(* The steps of the fields *)

LEMMA EditKeepsPlace ==
  ASSUME NEW n, OnModelChange(n)
  PROVE  /\ model' = n /\ session' = session
         /\ Shown /\ Shown'
         /\ value' = TextOf(Serialize(n, root)) /\ root' = root /\ loading' = loading
  BY DEF OnModelChange, Shown

LEMMA EditorSame ==
  ASSUME UNCHANGED editorVars
  PROVE  /\ model' = model /\ session' = session /\ (Shown' <=> Shown)
         /\ value' = value /\ root' = root /\ loading' = loading
  BY DEF editorVars, workbench, Shown

LEMMA MountedOK ==
  ASSUME NEW app, IsList(app)
  PROVE  EditorOK(Mounted(app)) /\ Mounted(app).sent = app
<1> DEFINE rows == toRows(app)
<1>1. rows = [k \in DOMAIN app |-> [name |-> app[k], valid |-> TRUE]]
  BY DEF toRows
<1>2. rows = [k \in DOMAIN app |-> rows[k]] /\ DOMAIN rows = DOMAIN app
      /\ \A k \in DOMAIN app : rows[k].name = app[k]
  BY <1>1
<1>3. DOMAIN Mounted(app) = {"rows", "error", "sent"} /\ Mounted(app).rows = rows
      /\ Mounted(app).error = FALSE /\ Mounted(app).sent = app
  BY DEF Mounted
<1> HIDE DEF rows
<1>4. IsList(rows)
  BY <1>2, MapOfList
<1>5. NamesOf(rows) = Range(app)
  BY <1>2 DEF NamesOf, Range
<1> QED
  BY <1>3, <1>4, <1>5 DEF EditorOK

\* The names of a list of rows, as the keys of what is sent.
LEMMA SentNames ==
  ASSUME NEW rows, IsList(rows)
  PROVE  IsList(fromRows(rows)) /\ Range(fromRows(rows)) = NamesOf(rows)
<1> DEFINE f == [k \in DOMAIN rows |-> rows[k].name]
<1>1. f \in Surjection(DOMAIN rows, NamesOf(rows))
  BY DEF Surjection, NamesOf
<1>2. IsFiniteSet(NamesOf(rows))
  BY <1>1, ListHas, FS_Surjection
<1> QED
  BY <1>2, SetToSeqLists DEF fromRows

LEMMA FollowHolds ==
  ASSUME ModelOK(model'), FieldsHold, session' = session, Follow
  PROVE  FieldsHold'
<1> DEFINE next == model'
           app(s, i) == next[s][i].known.app
<1>1. \A s \in Carriers : \A i \in DOMAIN next[s] : IsList(app(s, i))
  BY CarriersAre DEF ModelOK, RuleOK
<1>2. CapabilitiesHold(capabilities, model, Shown)
  BY DEF FieldsHold
<1>3. /\ DOMAIN capabilities' = Carriers
      /\ \A s \in Carriers : capabilities'[s] = IF Shown' THEN EditorsOf(s, next[s]) ELSE << >>
  BY DEF Follow
<1>4. ASSUME NEW s \in Carriers, Shown'
      PROVE  /\ DOMAIN capabilities'[s] = DOMAIN next[s]
             /\ \A i \in DOMAIN next[s] :
                  EditorOK(capabilities'[s][i]) /\ capabilities'[s][i].sent = app(s, i)
  <2>1. capabilities'[s] = [i \in DOMAIN next[s] |->
          IF i \in DOMAIN capabilities[s] THEN Resync(capabilities[s][i], app(s, i))
          ELSE Mounted(app(s, i))]
    BY <1>3, <1>4 DEF EditorsOf
  <2>2. ASSUME NEW i \in DOMAIN next[s]
        PROVE  EditorOK(capabilities'[s][i]) /\ capabilities'[s][i].sent = app(s, i)
    <3>1. EditorOK(Mounted(app(s, i))) /\ Mounted(app(s, i)).sent = app(s, i)
      BY <1>1, MountedOK
    <3>2. CASE i \notin DOMAIN capabilities[s]
      <4>1. capabilities'[s][i] = Mounted(app(s, i))
        BY <2>1, <3>2
      <4> QED
        BY <3>1, <4>1
    <3>3. CASE i \in DOMAIN capabilities[s]
      <4> DEFINE e == capabilities[s][i]
      <4>1. EditorOK(e)
        BY <1>2, <3>3 DEF CapabilitiesHold
      <4>2. capabilities'[s][i] = Resync(e, app(s, i))
        BY <2>1, <3>3
      <4>3. \/ Resync(e, app(s, i)) = e /\ app(s, i) = e.sent
            \/ Resync(e, app(s, i)) = Mounted(app(s, i))
        BY DEF Resync
      <4> HIDE DEF e, app, next
      <4> QED
        BY <3>1, <4>1, <4>2, <4>3
    <3> QED
      BY <3>2, <3>3
  <2> QED
    BY <2>1, <2>2
<1>5. ASSUME NEW s \in Carriers, ~Shown' PROVE DOMAIN capabilities'[s] = {}
  BY <1>3, <1>5
<1>6. CapabilitiesHold(capabilities', next, Shown')
  BY <1>3, <1>4, <1>5 DEF CapabilitiesHold
<1>7. DraftHolds'
  <2>1. draft' = draft \/ draft' = Null
    BY DEF Follow
  <2>2. draft' # Null => draft # Null /\ draft' = draft /\ Shown' /\ draft.i \in DOMAIN next[draft.s]
    BY DEF Follow
  <2>3. draft # Null => draft.s \in DOMAIN session.tokens /\ draft.f \in DOMAIN session.tokens[draft.s]
    BY DEF FieldsHold, DraftHolds
  <2> HIDE DEF next
  <2> QED
    BY <2>1, <2>2, <2>3 DEF DraftHolds, next
<1> QED
  BY <1>6, <1>7 DEF FieldsHold

\* Rows that were edited: the model's entry follows complete ones.
LEMMA CommitRowsHolds ==
  ASSUME TextHolds, FieldsHold, draft = Null, NEW s \in Carriers, NEW i \in DOMAIN capabilities[s],
         NEW next, IsList(next), CommitRows(s, i, next)
  PROVE  (Edits \/ UNCHANGED editorVars) /\ FieldsHold'
<1> DEFINE e == capabilities[s][i]
           E == IF Complete(next) THEN [rows |-> next, error |-> FALSE, sent |-> fromRows(next)]
                ELSE [e EXCEPT !.rows = next, !.error = TRUE]
<1>1. /\ CapabilitiesHold(capabilities, model, Shown)
      /\ ModelOK(model)
  BY DEF FieldsHold, TextHolds
<1>2. /\ EditorOK(e) /\ e.sent = model[s][i].known.app
      /\ DOMAIN capabilities = Carriers
      /\ Shown /\ i \in DOMAIN model[s] /\ DOMAIN capabilities[s] = DOMAIN model[s]
  BY <1>1 DEF CapabilitiesHold
<1>3. capabilities' = [capabilities EXCEPT ![s][i] = E]
  BY DEF CommitRows
<1>4. draft' = Null
  BY DEF CommitRows
<1>5. /\ DOMAIN capabilities' = Carriers
      /\ \A c \in Carriers : DOMAIN capabilities'[c] = DOMAIN capabilities[c]
      /\ \A c \in Carriers : \A j \in DOMAIN capabilities[c] :
           (c # s \/ j # i) => capabilities'[c][j] = capabilities[c][j]
      /\ capabilities'[s][i] = E
  <2> HIDE DEF E, e
  <2> QED
    BY <1>2, <1>3
<1>6. CASE Complete(next)
  <2> DEFINE v == fromRows(next)
             n == WithField(model, s, i, "app", v)
  <2>1. IsList(v) /\ Range(v) = NamesOf(next)
    BY SentNames
  <2>2. OnModelChange(n)
    BY <1>6 DEF CommitRows, PatchRule, WithField
  <2>3. FieldIsSet(model, s, i, "app", v, n)
    BY <1>1, <1>2, <2>1, CarriersAre, RulePatched
  <2>4. EditorOK(E) /\ E.sent = v
    <3>1. E = [rows |-> next, error |-> FALSE, sent |-> v]
      BY <1>6
    <3> HIDE DEF E, v
    <3> QED
      BY <2>1, <3>1 DEF EditorOK
  <2> HIDE DEF n, v, E, e
  <2>5. model' = n /\ Shown'
    BY <2>2, EditKeepsPlace
  <2>6. Edits
    BY <2>2, <2>3 DEF Edits, FieldIsSet
  <2>7. ASSUME NEW c \in Carriers
        PROVE  /\ DOMAIN capabilities'[c] = DOMAIN n[c]
               /\ \A j \in DOMAIN capabilities'[c] :
                    EditorOK(capabilities'[c][j]) /\ capabilities'[c][j].sent = n[c][j].known["app"]
    <3>1. CASE c # s
      <4>1. n[c] = model[c]
        BY <2>3, <3>1, CarriersAre DEF FieldIsSet
      <4>2. \A j \in DOMAIN capabilities[c] : capabilities'[c][j] = capabilities[c][j]
        BY <1>5, <3>1
      <4>3. DOMAIN capabilities'[c] = DOMAIN capabilities[c]
        BY <1>5
      <4> QED
        BY <1>1, <1>2, <4>1, <4>2, <4>3 DEF CapabilitiesHold
    <3>2. CASE c = s
      <4>1. DOMAIN capabilities'[s] = DOMAIN model[s] /\ DOMAIN n[s] = DOMAIN model[s]
        BY <1>2, <1>5, <2>3 DEF FieldIsSet
      <4>2. ASSUME NEW j \in DOMAIN model[s], j # i
            PROVE  EditorOK(capabilities'[s][j]) /\ capabilities'[s][j].sent = n[s][j].known["app"]
        <5>1. capabilities'[s][j] = capabilities[s][j] /\ n[s][j] = model[s][j]
          BY <1>2, <1>5, <2>3, <4>2 DEF FieldIsSet
        <5>2. EditorOK(capabilities[s][j]) /\ capabilities[s][j].sent = model[s][j].known["app"]
          BY <1>1, <1>2 DEF CapabilitiesHold
        <5> QED
          BY <5>1, <5>2
      <4>3. EditorOK(capabilities'[s][i]) /\ capabilities'[s][i].sent = n[s][i].known["app"]
        <5>1. n[s][i].known["app"] = v
          BY <2>3, CarriersAre DEF FieldIsSet
        <5> QED
          BY <1>5, <2>4, <5>1
      <4> QED
        BY <3>2, <4>1, <4>2, <4>3
    <3> QED
      BY <3>1, <3>2
  <2>8. CapabilitiesHold(capabilities', n, Shown')
    BY <1>5, <2>5, <2>7 DEF CapabilitiesHold
  <2> QED
    BY <1>4, <2>5, <2>6, <2>8 DEF FieldsHold, DraftHolds
<1>7. CASE ~Complete(next)
  <2>1. UNCHANGED editorVars
    BY <1>7 DEF CommitRows
  <2>2. EditorOK(E) /\ E.sent = e.sent
    <3>1. E = [e EXCEPT !.rows = next, !.error = TRUE]
      BY <1>7
    <3>2. DOMAIN e = {"rows", "error", "sent"}
      BY <1>2 DEF EditorOK
    <3> HIDE DEF E, e
    <3>3. DOMAIN E = {"rows", "error", "sent"} /\ E.rows = next /\ E.sent = e.sent
      BY <3>1, <3>2
    <3> QED
      BY <1>7, <3>3 DEF EditorOK
  <2> HIDE DEF E
  <2>3. model' = model /\ (Shown' <=> Shown)
    BY <2>1, EditorSame
  <2>4. CapabilitiesHold(capabilities', model, Shown)
    <3>1. \A c \in Carriers : \A j \in DOMAIN capabilities[c] :
            EditorOK(capabilities'[c][j]) /\ capabilities'[c][j].sent = capabilities[c][j].sent
      BY <1>1, <1>5, <2>2 DEF CapabilitiesHold
    <3> QED
      BY <1>1, <1>5, <3>1 DEF CapabilitiesHold
  <2>5. CapabilitiesHold(capabilities', model', Shown')
    BY <1>2, <2>3, <2>4 DEF CapabilitiesHold
  <2> QED
    BY <1>4, <2>1, <2>5 DEF FieldsHold, DraftHolds
<1> QED
  BY <1>6, <1>7

LEMMA AddCapabilityHolds ==
  ASSUME TextHolds, FieldsHold, draft = Null, NEW s \in Carriers, NEW i \in DOMAIN capabilities[s],
         AddCapability(s, i)
  PROVE  UNCHANGED editorVars /\ FieldsHold'
<1> DEFINE e == capabilities[s][i]
           E == [e EXCEPT !.rows = Append(@, BlankRow)]
<1>1. CapabilitiesHold(capabilities, model, Shown)
  BY DEF FieldsHold
<1>2. EditorOK(e) /\ DOMAIN capabilities = Carriers
  BY <1>1 DEF CapabilitiesHold
<1>3. /\ capabilities' = [capabilities EXCEPT ![s][i] = E]
      /\ draft' = Null /\ UNCHANGED editorVars
  BY DEF AddCapability
<1>4. DOMAIN E = {"rows", "error", "sent"} /\ E.rows = Append(e.rows, BlankRow) /\ E.sent = e.sent
  BY <1>2 DEF EditorOK
<1>5. /\ DOMAIN capabilities' = Carriers
      /\ \A c \in Carriers : DOMAIN capabilities'[c] = DOMAIN capabilities[c]
      /\ \A c \in Carriers : \A j \in DOMAIN capabilities[c] :
           (c # s \/ j # i) => capabilities'[c][j] = capabilities[c][j]
      /\ capabilities'[s][i] = E
  <2> HIDE DEF E, e
  <2> QED
    BY <1>2, <1>3
<1>6. EditorOK(E)
  <2> DEFINE rows == Append(e.rows, BlankRow)
  <2>1. IsList(e.rows)
    BY <1>2 DEF EditorOK
  <2>2. /\ IsList(rows) /\ Len(e.rows) + 1 \in DOMAIN rows /\ rows[Len(e.rows) + 1] = BlankRow
    <3> HIDE DEF e
    <3>1. IsList(rows) /\ DOMAIN rows = DOMAIN e.rows \cup {Len(e.rows) + 1}
          /\ rows[Len(e.rows) + 1] = BlankRow
      BY <2>1, AppendIsList
    <3> QED
      BY <3>1
  <2>3. BlankRow.name = Nameless
    BY DEF BlankRow
  <2>4. ~Complete(rows)
    BY <2>2, <2>3 DEF Complete
  <2> HIDE DEF rows, E, e
  <2>5. E.rows = rows
    BY <1>4 DEF rows
  <2> QED
    BY <1>4, <2>2, <2>4, <2>5 DEF EditorOK
<1> HIDE DEF E
<1>7. \A c \in Carriers : \A j \in DOMAIN capabilities[c] :
        EditorOK(capabilities'[c][j]) /\ capabilities'[c][j].sent = capabilities[c][j].sent
  BY <1>1, <1>4, <1>5, <1>6 DEF CapabilitiesHold
<1>8. CapabilitiesHold(capabilities', model, Shown)
  BY <1>1, <1>5, <1>7 DEF CapabilitiesHold
<1>9. model' = model /\ (Shown' <=> Shown)
  BY <1>3, EditorSame
<1>10. CapabilitiesHold(capabilities', model', Shown')
  BY <1>8, <1>9 DEF CapabilitiesHold
<1> QED
  BY <1>3, <1>10 DEF FieldsHold, DraftHolds

LEMMA EditCapabilityHolds ==
  ASSUME TextHolds, FieldsHold, draft = Null, NEW s \in Carriers, NEW i \in DOMAIN capabilities[s],
         EditCapability(s, i)
  PROVE  (Edits \/ UNCHANGED editorVars) /\ FieldsHold'
<1> DEFINE rows == capabilities[s][i].rows
<1>1. IsList(rows)
  BY DEF FieldsHold, CapabilitiesHold, EditorOK
<1>2. ASSUME NEW k \in DOMAIN rows, NEW row, CommitRows(s, i, [rows EXCEPT ![k] = row])
      PROVE  (Edits \/ UNCHANGED editorVars) /\ FieldsHold'
  <2> DEFINE next == [rows EXCEPT ![k] = row]
  <2> HIDE DEF rows
  <2>1. next = [j \in DOMAIN rows |-> next[j]]
    OBVIOUS
  <2>2. IsList(next)
    BY <1>1, <2>1, MapOfList
  <2> QED
    BY <1>2, <2>2, CommitRowsHolds
<1>3. ASSUME NEW k \in DOMAIN rows, NEW name \in session.capabilities,
             CommitRows(s, i, [rows EXCEPT ![k].name = name])
      PROVE  (Edits \/ UNCHANGED editorVars) /\ FieldsHold'
  <2>1. [rows EXCEPT ![k].name = name] = [rows EXCEPT ![k] = [rows[k] EXCEPT !.name = name]]
    OBVIOUS
  <2>2. CommitRows(s, i, [rows EXCEPT ![k] = [rows[k] EXCEPT !.name = name]])
    BY <1>3, <2>1
  <2> QED
    BY <1>2, <2>2
<1>4. ASSUME NEW k \in DOMAIN rows, CommitRows(s, i, [rows EXCEPT ![k].valid = ~@])
      PROVE  (Edits \/ UNCHANGED editorVars) /\ FieldsHold'
  <2>1. [rows EXCEPT ![k].valid = ~@] = [rows EXCEPT ![k] = [rows[k] EXCEPT !.valid = ~@]]
    OBVIOUS
  <2>2. CommitRows(s, i, [rows EXCEPT ![k] = [rows[k] EXCEPT !.valid = ~@]])
    BY <1>4, <2>1
  <2> QED
    BY <1>2, <2>2
<1>5. ASSUME NEW k \in DOMAIN rows, CommitRows(s, i, RemoveAt(rows, k))
      PROVE  (Edits \/ UNCHANGED editorVars) /\ FieldsHold'
  <2>1. IsList(RemoveAt(rows, k))
    BY <1>1, <1>5, RemoveIsList
  <2> QED
    BY <1>5, <2>1, CommitRowsHolds
<1>6. AddCapability(s, i) => (Edits \/ UNCHANGED editorVars) /\ FieldsHold'
  BY AddCapabilityHolds
<1> QED
  BY <1>3, <1>4, <1>5, <1>6 DEF EditCapability

\* A token typed, erased or sent: no capability editor is touched.
LEMMA TokenHolds ==
  ASSUME TextHolds, FieldsHold, NEW n, Edited(model, n), OnModelChange(n), SameCapabilities(model, n),
         draft' = Null, UNCHANGED capabilities
  PROVE  Edits /\ FieldsHold'
<1>1. Edits
  BY DEF Edits
<1>2. model' = n /\ Shown /\ Shown'
  BY EditKeepsPlace
<1>3. CapabilitiesHold(capabilities, model, Shown)
  BY DEF FieldsHold
<1>4. CapabilitiesHold(capabilities', n, Shown')
  <2>1. capabilities' = capabilities
    OBVIOUS
  <2>2. \A s \in Carriers : DOMAIN capabilities[s] = DOMAIN model[s]
    BY <1>2, <1>3 DEF CapabilitiesHold
  <2>3. \A s \in Carriers : DOMAIN n[s] = DOMAIN model[s]
    BY DEF SameCapabilities
  <2>4. \A s \in Carriers : \A i \in DOMAIN model[s] : n[s][i].known.app = model[s][i].known.app
    BY DEF SameCapabilities
  <2>5. \A s \in Carriers : \A i \in DOMAIN capabilities[s] :
          EditorOK(capabilities[s][i]) /\ capabilities[s][i].sent = n[s][i].known.app
    BY <1>3, <2>2, <2>4 DEF CapabilitiesHold
  <2> QED
    BY <1>2, <1>3, <2>1, <2>2, <2>3, <2>5 DEF CapabilitiesHold
<1> QED
  BY <1>1, <1>2, <1>4 DEF FieldsHold, DraftHolds

LEMMA FieldEditHolds ==
  ASSUME TextHolds, FieldsHold, FieldEdit
  PROVE  EditorStep /\ FieldsHold'
<1>1. ASSUME NEW s \in Carriers \cap Ruled, NEW i \in DOMAIN capabilities[s],
             draft = Null, EditCapability(s, i)
      PROVE  EditorStep /\ FieldsHold'
  BY <1>1, EditCapabilityHolds DEF EditorStep
<1>2. ASSUME UNCHANGED <<editorVars, capabilities>>, DraftHolds'
      PROVE  EditorStep /\ FieldsHold'
  <2>1. model' = model /\ (Shown' <=> Shown)
    BY <1>2, EditorSame
  <2>2. CapabilitiesHold(capabilities', model', Shown')
    BY <1>2, <2>1 DEF FieldsHold, CapabilitiesHold
  <2> QED
    BY <1>2, <2>2 DEF EditorStep, FieldsHold
<1>3. ASSUME NEW s \in DOMAIN session.tokens, NEW f \in DOMAIN session.tokens[s],
             NEW i \in DOMAIN model[s], draft = Null, TypeToken(s, i, f)
      PROVE  EditorStep /\ FieldsHold'
  <2>1. UNCHANGED <<editorVars, capabilities>> /\ Shown
    BY <1>3 DEF TypeToken
  <2>2. model' = model /\ session' = session /\ (Shown' <=> Shown)
    BY <2>1, EditorSame
  <2>3. PICK token : draft' = [s |-> s, i |-> i, f |-> f, token |-> token]
    BY <1>3 DEF TypeToken
  <2>4. draft'.s = s /\ draft'.i = i /\ draft'.f = f
    BY <2>3
  <2>5. DraftHolds'
    BY <2>1, <2>2, <2>4 DEF DraftHolds
  <2> QED
    BY <1>2, <2>1, <2>5
<1>4. ASSUME NEW s \in DOMAIN session.tokens, NEW f \in DOMAIN session.tokens[s],
             NEW i \in DOMAIN model[s], draft = Null, RemoveToken(s, i, f)
      PROVE  EditorStep /\ FieldsHold'
  <2>1. PICK tokens : PatchTokens(s, i, f, tokens)
    BY <1>4 DEF RemoveToken
  <2>2. PICK n : Edited(model, n) /\ OnModelChange(n) /\ SameCapabilities(model, n)
    BY <2>1, TokensPatched
  <2>3. draft' = Null /\ UNCHANGED capabilities
    BY <1>4 DEF RemoveToken, fieldVars
  <2> QED
    BY <2>2, <2>3, TokenHolds DEF EditorStep
<1>5. CASE EraseToken
  <2>1. UNCHANGED <<editorVars, capabilities>> /\ draft' = Null
    BY <1>5 DEF EraseToken
  <2> QED
    BY <1>2, <2>1 DEF DraftHolds
<1>6. ASSUME NEW token, draft # Null, commit(token)
      PROVE  EditorStep /\ FieldsHold'
  <2>1. /\ draft.s \in DOMAIN session.tokens
        /\ draft.f \in DOMAIN session.tokens[draft.s]
        /\ draft.i \in DOMAIN model[draft.s]
    BY <1>6 DEF FieldsHold, DraftHolds
  <2>2. PICK tokens : PatchTokens(draft.s, draft.i, draft.f, tokens)
    BY <1>6 DEF commit
  <2>3. PICK n : Edited(model, n) /\ OnModelChange(n) /\ SameCapabilities(model, n)
    BY <2>1, <2>2, TokensPatched
  <2>4. draft' = Null /\ UNCHANGED capabilities
    BY <1>6 DEF commit
  <2> QED
    BY <2>3, <2>4, TokenHolds DEF EditorStep
<1>7. CASE CommitToken
  BY <1>6, <1>7 DEF CommitToken
<1>8. CASE PickSuggestion
  BY <1>6, <1>8 DEF PickSuggestion
<1> QED
  BY <1>1, <1>3, <1>4, <1>5, <1>7, <1>8 DEF FieldEdit

-----------------------------------------------------------------------------
(* What the steps of the workbench keep *)

LEMMA BrowseSteps ==
  ASSUME Browse
  PROVE  /\ session' = session
         /\ \/ UNCHANGED <<value, model, root, loading>> /\ tab' # "visual"
            \/ /\ UNCHANGED <<value, loading>>
               /\ model' = Parse(DocumentOf(value)) /\ root' = DocumentOf(value)
            \/ \E loaded \in loading :
                 /\ value' = loaded /\ loading' = loading \ {loaded}
                 /\ model' = Parse(DocumentOf(loaded)) /\ root' = DocumentOf(loaded)
            \/ \E loaded \in session.stored :
                 /\ UNCHANGED <<value, model, root, tab, parseError>>
                 /\ loading' \subseteq loading \cup {loaded}
            \/ UNCHANGED <<value, model, root, tab, parseError, loading>>
<1>1. ASSUME NEW next \in Tab, SelectTab(next)
      PROVE  /\ session' = session
             /\ \/ UNCHANGED <<value, model, root>> /\ tab' # "visual" /\ loading' = loading
                \/ /\ UNCHANGED <<value, loading>>
                   /\ model' = Parse(DocumentOf(value)) /\ root' = DocumentOf(value)
  <2>1. CASE next = "visual"
    BY <1>1, <2>1 DEF SelectTab, Show
  <2>2. CASE next # "visual"
    BY <1>1, <2>2 DEF SelectTab
  <2> QED
    BY <2>1, <2>2
<1>2. ASSUME NEW loaded \in session.stored, LoadRevision(loaded)
      PROVE  /\ session' = session
             /\ UNCHANGED <<value, model, root, tab, parseError>>
             /\ loading' \subseteq loading \cup {loaded}
  BY <1>2 DEF LoadRevision
<1>3. ASSUME NEW loaded \in session.stored, RevisionArrives(loaded)
      PROVE  /\ session' = session
             /\ loaded \in loading
             /\ value' = loaded /\ loading' = loading \ {loaded}
             /\ model' = Parse(DocumentOf(loaded)) /\ root' = DocumentOf(loaded)
  BY <1>3 DEF RevisionArrives, Show
<1>4. ASSUME NEW loaded \in session.stored, RevisionLost(loaded)
      PROVE  /\ session' = session
             /\ UNCHANGED <<value, model, root, tab, parseError>>
             /\ loading' \subseteq loading \cup {loaded}
  BY <1>4 DEF RevisionLost
<1>5. ASSUME NEW query \in session.questions, Ask(query)
      PROVE  session' = session /\ UNCHANGED <<value, model, root, tab, parseError, loading>>
  BY <1>5 DEF Ask
<1> QED
  BY <1>1, <1>2, <1>3, <1>4, <1>5 DEF Browse

LEMMA SaveSteps ==
  ASSUME Save
  PROVE  UNCHANGED <<session, value, model, root, tab, parseError, loading>>
  BY DEF Save, Commit, Accepted, SaveSucceeds, SaveFails, Rerender

LEMMA OthersSteps ==
  ASSUME NEW loaded, OthersSave(loaded)
  PROVE  UNCHANGED <<session, value, model, root, tab, parseError, loading>>
  BY DEF OthersSave, workbench

LEMMA TypeSteps ==
  ASSUME Types
  PROVE  /\ UNCHANGED <<session, model, root, tab, parseError, loading>>
         /\ tab = "json" /\ \E text \in session.typed : value' = text
  BY DEF Types, OnJsonChange

LEMMA SameSteps ==
  ASSUME UNCHANGED editorVars
  PROVE  UNCHANGED <<session, value, model, root, tab, parseError, loading>>
  BY DEF editorVars, workbench

\* The steps by what they do to the text and to what the builder shows.
StepOfText ==
  /\ session' = session
  /\ \/ \E n : /\ Edited(model, n)
               /\ Shown /\ model' = n /\ root' = root
               /\ value' = TextOf(Serialize(n, root)) /\ loading' = loading
     \/ /\ UNCHANGED <<model, root, tab, loading>> /\ tab = "json"
        /\ \E text \in session.typed : value' = text
     \/ UNCHANGED <<value, model, root, loading>> /\ tab' # "visual"
     \/ /\ UNCHANGED <<value, loading>>
        /\ model' = Parse(DocumentOf(value)) /\ root' = DocumentOf(value)
     \/ \E loaded \in loading :
          /\ value' = loaded /\ loading' = loading \ {loaded}
          /\ model' = Parse(DocumentOf(loaded)) /\ root' = DocumentOf(loaded)
     \/ /\ UNCHANGED <<value, model, root, tab, parseError>>
        /\ \E loaded \in session.stored : loading' \subseteq loading \cup {loaded}
     \/ UNCHANGED <<value, model, root, tab, parseError, loading>>

LEMMA StepsOfText ==
  ASSUME EditorStep
  PROVE  StepOfText
<1>1. CASE Edits
  BY <1>1, EditKeepsPlace DEF Edits, StepOfText
<1>2. CASE Types
  BY <1>2, TypeSteps DEF StepOfText
<1>3. CASE Save
  BY <1>3, SaveSteps DEF StepOfText
<1>4. CASE Browse
  BY <1>4, BrowseSteps DEF StepOfText
<1>5. ASSUME NEW loaded, OthersSave(loaded) PROVE StepOfText
  BY <1>5, OthersSteps DEF StepOfText
<1>6. CASE UNCHANGED editorVars
  BY <1>6, SameSteps DEF StepOfText
<1> QED
  BY <1>1, <1>2, <1>3, <1>4, <1>5, <1>6 DEF EditorStep

LEMMA TextIs ==
  ASSUME NEW d
  PROVE  DocumentOf(TextOf(d)) = d
  BY DEF DocumentOf, TextOf, Text

LEMMA SessionTexts ==
  ASSUME TextHolds, NEW text \in session.typed \cup session.stored
  PROVE  IsDocument(DocumentOf(text))
  BY SessionAssumption DEF TextHolds

LEMMA TextStep ==
  ASSUME TextHolds, StepOfText
  PROVE  TextHolds'
<1>1. /\ session \in Session /\ ModelOK(model) /\ IsDocument(DocumentOf(value))
      /\ \A text \in loading : IsDocument(DocumentOf(text))
  BY DEF TextHolds
<1>2. session' \in Session
  BY <1>1 DEF StepOfText
<1>3. SUFFICES /\ ModelOK(model') /\ IsDocument(DocumentOf(value'))
               /\ \A text \in loading' : IsDocument(DocumentOf(text))
  BY <1>2, <1>3 DEF TextHolds
<1>4. ASSUME NEW n, Edited(model, n), model' = n, value' = TextOf(Serialize(n, root)),
             loading' = loading
      PROVE  /\ ModelOK(model') /\ IsDocument(DocumentOf(value'))
             /\ \A text \in loading' : IsDocument(DocumentOf(text))
  <2>1. ModelOK(n)
    BY <1>4 DEF Edited
  <2>2. IsDocument(Serialize(n, root))
    BY <2>1, SerializeIsDocument
  <2>3. DocumentOf(value') = Serialize(n, root)
    BY <1>4, TextIs
  <2> QED
    BY <1>1, <1>4, <2>1, <2>2, <2>3
<1>5. ASSUME NEW text \in session.typed, UNCHANGED <<model, loading>>, value' = text
      PROVE  /\ ModelOK(model') /\ IsDocument(DocumentOf(value'))
             /\ \A t \in loading' : IsDocument(DocumentOf(t))
  <2>1. IsDocument(DocumentOf(text))
    BY SessionTexts
  <2> QED
    BY <1>1, <1>5, <2>1
<1>6. ASSUME UNCHANGED <<value, loading>>, model' = Parse(DocumentOf(value))
      PROVE  /\ ModelOK(model') /\ IsDocument(DocumentOf(value'))
             /\ \A text \in loading' : IsDocument(DocumentOf(text))
  <2>1. ModelOK(Parse(DocumentOf(value)))
    BY <1>1, ParseIsModel
  <2> QED
    BY <1>1, <1>6, <2>1
<1>7. ASSUME NEW loaded \in loading, value' = loaded, loading' = loading \ {loaded},
             model' = Parse(DocumentOf(loaded))
      PROVE  /\ ModelOK(model') /\ IsDocument(DocumentOf(value'))
             /\ \A text \in loading' : IsDocument(DocumentOf(text))
  <2>1. ModelOK(Parse(DocumentOf(loaded)))
    BY <1>1, ParseIsModel
  <2> QED
    BY <1>1, <1>7, <2>1
<1>8. ASSUME UNCHANGED <<value, model>>, NEW loaded \in session.stored,
             loading' \subseteq loading \cup {loaded}
      PROVE  /\ ModelOK(model') /\ IsDocument(DocumentOf(value'))
             /\ \A text \in loading' : IsDocument(DocumentOf(text))
  <2>1. IsDocument(DocumentOf(loaded))
    BY SessionTexts
  <2> QED
    BY <1>1, <1>8, <2>1
<1>9. ASSUME UNCHANGED <<value, model, loading>>
      PROVE  /\ ModelOK(model') /\ IsDocument(DocumentOf(value'))
             /\ \A text \in loading' : IsDocument(DocumentOf(text))
  BY <1>1, <1>9
<1> QED
  BY <1>4, <1>5, <1>6, <1>7, <1>8, <1>9 DEF StepOfText

LEMMA SectionsStep ==
  ASSUME TextHolds, SectionsShowText, StepOfText
  PROVE  SectionsShowText'
<1> DEFINE Shows(m, r, d) ==
             /\ \A s \in Sections : Written(s, m[s]) = Written(s, Parse(d)[s])
             /\ Passed(r) = Passed(d)
<1>1. SectionsShowText <=> (Shown => Shows(model, root, DocumentOf(value)))
  BY DEF SectionsShowText, Shown
<1>2. SectionsShowText' <=> (Shown' => Shows(model', root', DocumentOf(value')))
  BY DEF SectionsShowText, Shown
<1>3. SUFFICES ASSUME Shown' PROVE Shows(model', root', DocumentOf(value'))
  BY <1>2
<1>4. \A d : Shows(Parse(d), d, d)
  OBVIOUS
<1>5. ASSUME NEW n, Edited(model, n)
      PROVE  Shows(n, root, Serialize(n, root))
  <2>1. ModelOK(n)
    BY <1>5 DEF Edited
  <2> QED
    BY <2>1, SerializeShows
<1> HIDE DEF Shows
<1>6. ASSUME NEW n, Edited(model, n), model' = n, root' = root,
             value' = TextOf(Serialize(n, root))
      PROVE  Shows(model', root', DocumentOf(value'))
  BY <1>5, <1>6, TextIs
<1>7. ASSUME tab' = tab, tab = "json" PROVE FALSE
  BY <1>3, <1>7 DEF Shown
<1>8. ASSUME tab' # "visual" PROVE FALSE
  BY <1>3, <1>8 DEF Shown
<1>9. ASSUME value' = value, model' = Parse(DocumentOf(value)), root' = DocumentOf(value)
      PROVE  Shows(model', root', DocumentOf(value'))
  BY <1>4, <1>9
<1>10. ASSUME NEW loaded, value' = loaded, model' = Parse(DocumentOf(loaded)),
              root' = DocumentOf(loaded)
       PROVE  Shows(model', root', DocumentOf(value'))
  BY <1>4, <1>10
<1>11. ASSUME UNCHANGED <<value, model, root, tab, parseError>>
       PROVE  Shows(model', root', DocumentOf(value'))
  <2>1. Shown
    BY <1>3, <1>11 DEF Shown
  <2> QED
    BY <1>1, <1>11, <2>1
<1> QED
  BY <1>6, <1>7, <1>8, <1>9, <1>10, <1>11 DEF StepOfText

LEMMA NormalStep ==
  ASSUME NormalDocuments, TextHolds, NormalHolds, StepOfText
  PROVE  NormalHolds'
<1>1. /\ Normal(DocumentOf(value)) /\ (Shown => DocumentOf(value) = Serialize(model, root))
      /\ \A text \in loading : Normal(DocumentOf(text))
  BY DEF NormalHolds
<1>2. \A text \in session.typed \cup session.stored : Normal(DocumentOf(text))
  BY DEF TextHolds, NormalDocuments
<1> DEFINE Goal == /\ Normal(DocumentOf(value'))
                   /\ \A text \in loading' : Normal(DocumentOf(text))
                   /\ Shown' => DocumentOf(value') = Serialize(model', root')
<1>3. SUFFICES Goal
  BY <1>3 DEF NormalHolds
<1>4. ASSUME NEW n, Edited(model, n), model' = n, root' = root,
             value' = TextOf(Serialize(n, root)), loading' = loading
      PROVE  Goal
  <2>1. ModelOK(n)
    BY <1>4 DEF Edited
  <2>2. Normal(Serialize(n, root))
    BY <2>1, SerializeIsNormal
  <2>3. DocumentOf(value') = Serialize(n, root)
    BY <1>4, TextIs
  <2> QED
    BY <1>1, <1>4, <2>2, <2>3
<1>5. ASSUME NEW text \in session.typed, UNCHANGED <<tab, loading>>, tab = "json", value' = text
      PROVE  Goal
  <2>1. ~Shown'
    BY <1>5 DEF Shown
  <2> QED
    BY <1>1, <1>2, <1>5, <2>1
<1>6. ASSUME UNCHANGED <<value, loading>>, tab' # "visual" PROVE Goal
  <2>1. ~Shown'
    BY <1>6 DEF Shown
  <2> QED
    BY <1>1, <1>6, <2>1
<1>7. ASSUME UNCHANGED <<value, loading>>, model' = Parse(DocumentOf(value)), root' = DocumentOf(value)
      PROVE  Goal
  BY <1>1, <1>7 DEF Normal
<1>8. ASSUME NEW loaded \in loading, value' = loaded, loading' = loading \ {loaded},
             model' = Parse(DocumentOf(loaded)), root' = DocumentOf(loaded)
      PROVE  Goal
  BY <1>1, <1>8 DEF Normal
<1>9. ASSUME UNCHANGED <<value, model, root, tab, parseError>>, NEW loaded \in session.stored,
             loading' \subseteq loading \cup {loaded}
      PROVE  Goal
  <2>1. Shown' <=> Shown
    BY <1>9 DEF Shown
  <2> QED
    BY <1>1, <1>2, <1>9, <2>1
<1>10. ASSUME UNCHANGED <<value, model, root, tab, parseError, loading>> PROVE Goal
  <2>1. Shown' <=> Shown
    BY <1>10 DEF Shown
  <2> QED
    BY <1>1, <1>10, <2>1
<1> HIDE DEF Goal
<1> QED
  BY <1>4, <1>5, <1>6, <1>7, <1>8, <1>9, <1>10 DEF StepOfText

LEMMA UntouchedStep ==
  ASSUME TextHolds, NormalHolds, StepOfText,
         tab = "visual", tab' = "visual", loading' = loading
  PROVE  OnePlaceOfText(DocumentOf(value), DocumentOf(value'))
<1>1. value' = value => OnePlaceOfText(DocumentOf(value), DocumentOf(value'))
  BY SameIsUnchanged DEF OnePlaceOfText
<1>2. ASSUME NEW n, Edited(model, n), Shown, value' = TextOf(Serialize(n, root))
      PROVE  OnePlaceOfText(DocumentOf(value), DocumentOf(value'))
  <2>1. DocumentOf(value) = Serialize(model, root) /\ DocumentOf(value') = Serialize(n, root)
    BY <1>2, TextIs DEF NormalHolds
  <2>2. ModelOK(model)
    BY DEF TextHolds
  <2> QED
    BY <1>2, <2>1, <2>2, EditIsOnePlace
<1>3. ASSUME NEW loaded \in loading, loading' = loading \ {loaded} PROVE FALSE
  BY <1>3
<1> QED
  BY <1>1, <1>2, <1>3 DEF StepOfText

LEMMA BaselineStep ==
  ASSUME BaselineHolds, EditorStep
  PROVE  BaselineHolds'
<1>1. /\ DOMAIN pending = {"text", "at"} /\ policy \in wasLive /\ savedValue \in wasLive
      /\ pending.at = "accepted" => pending.text \in wasLive
  BY DEF BaselineHolds
<1>2. ASSUME UNCHANGED <<policy, savedValue, pending, wasLive>> PROVE BaselineHolds'
  BY <1>1, <1>2 DEF BaselineHolds
<1>3. CASE Edits
  BY <1>2, <1>3 DEF Edits, OnModelChange
<1>4. CASE Types
  BY <1>2, <1>4 DEF Types, OnJsonChange
<1>5. CASE Browse
  <2>1. UNCHANGED <<policy, savedValue, pending, wasLive>>
    BY <1>5 DEF Browse, SelectTab, LoadRevision, RevisionArrives, RevisionLost, Ask
  <2> QED
    BY <1>2, <2>1
<1>6. ASSUME NEW loaded, OthersSave(loaded) PROVE BaselineHolds'
  BY <1>1, <1>6 DEF OthersSave, Live, workbench, BaselineHolds
<1>7. CASE UNCHANGED editorVars
  BY <1>2, <1>7 DEF editorVars, workbench
<1>8. CASE Commit
  <2>1. DOMAIN pending' = {"text", "at"} /\ pending'.at = "sent" /\ UNCHANGED <<policy, savedValue, wasLive>>
    BY <1>8 DEF Commit
  <2> QED
    BY <1>1, <2>1 DEF BaselineHolds
<1>9. CASE Accepted
  <2>1. /\ policy' = pending.text /\ wasLive' = wasLive \cup {pending.text}
        /\ pending' = [pending EXCEPT !.at = "accepted"] /\ savedValue' = savedValue
    BY <1>9 DEF Accepted, Live
  <2>2. DOMAIN pending' = {"text", "at"} /\ pending'.text = pending.text
    BY <1>1, <2>1
  <2> QED
    BY <1>1, <2>1, <2>2 DEF BaselineHolds
<1>10. CASE SaveSucceeds
  <2>1. /\ DOMAIN pending' = {"text", "at"}
        /\ savedValue' = pending.text /\ pending'.at = "idle" /\ UNCHANGED <<policy, wasLive>>
        /\ pending.at = "accepted"
    BY <1>10 DEF SaveSucceeds, NoSave
  <2> QED
    BY <1>1, <2>1 DEF BaselineHolds
<1>11. CASE SaveFails
  <2>1. DOMAIN pending' = {"text", "at"} /\ pending'.at = "idle" /\ UNCHANGED <<policy, savedValue, wasLive>>
    BY <1>11 DEF SaveFails, NoSave
  <2> QED
    BY <1>1, <2>1 DEF BaselineHolds
<1>12. CASE Rerender
  <2>1. (savedValue' = policy \/ savedValue' = savedValue) /\ UNCHANGED <<policy, pending, wasLive>>
    BY <1>12 DEF Rerender
  <2> QED
    BY <1>1, <2>1 DEF BaselineHolds
<1> QED
  BY <1>3, <1>4, <1>5, <1>6, <1>7, <1>8, <1>9, <1>10, <1>11, <1>12 DEF EditorStep, Save

-----------------------------------------------------------------------------
(* The theorems *)

BuilderInvariant == TextHolds /\ SectionsShowText /\ FieldsHold /\ BaselineHolds

builderVars == <<editorVars, fieldVars>>

LEMMA BuilderStart ==
  ASSUME BuilderInit
  PROVE  BuilderInvariant
<1>1. /\ session \in Session /\ policy \in session.documents
      /\ value = policy /\ savedValue = policy /\ wasLive = {policy}
      /\ model = Parse(DocumentOf(value)) /\ root = DocumentOf(value)
      /\ pending = NoSave /\ loading = {} /\ draft = Null
  BY DEF BuilderInit, EditorInit
<1>2. IsDocument(DocumentOf(value))
  BY <1>1, SessionAssumption
<1>3. ModelOK(model)
  BY <1>1, <1>2, ParseIsModel
<1>4. TextHolds
  BY <1>1, <1>2, <1>3 DEF TextHolds
<1>5. SectionsShowText
  BY <1>1 DEF SectionsShowText
<1>6. BaselineHolds
  BY <1>1 DEF BaselineHolds, NoSave
<1>7. CapabilitiesHold(capabilities, model, Shown)
  <2>1. capabilities = [s \in Carriers |->
         [i \in IF Shown THEN DOMAIN model[s] ELSE {} |-> Mounted(model[s][i].known.app)]]
    BY DEF BuilderInit
  <2>2. ASSUME NEW s \in Carriers
        PROVE  /\ DOMAIN capabilities[s] = IF Shown THEN DOMAIN model[s] ELSE {}
               /\ \A i \in DOMAIN capabilities[s] : capabilities[s][i] = Mounted(model[s][i].known.app)
    BY <2>1
  <2>3. ASSUME NEW s \in Carriers, NEW i \in DOMAIN capabilities[s]
        PROVE  EditorOK(capabilities[s][i]) /\ capabilities[s][i].sent = model[s][i].known.app
    <3>1. IsList(model[s][i].known.app)
      BY <1>3, <2>2, CarriersAre DEF ModelOK, RuleOK
    <3> QED
      BY <2>2, <3>1, MountedOK
  <2>4. DOMAIN capabilities = Carriers
    BY <2>1
  <2> QED
    BY <1>1, <2>2, <2>3, <2>4 DEF CapabilitiesHold
<1> QED
  BY <1>1, <1>4, <1>5, <1>6, <1>7 DEF BuilderInvariant, FieldsHold, DraftHolds

\* What a step does to the text, and to the fields over it.
LEMMA BuilderSteps ==
  ASSUME TextHolds, FieldsHold, [BuilderNext]_builderVars
  PROVE  EditorStep /\ FieldsHold'
<1>1. ASSUME EditorNext, Follow PROVE EditorStep /\ FieldsHold'
  <2>1. EditorStep
    BY <1>1, EditorSteps
  <2>2. StepOfText
    BY <2>1, StepsOfText
  <2>3. TextHolds'
    BY <2>2, TextStep
  <2>4. ModelOK(model') /\ session' = session
    BY <2>2, <2>3 DEF TextHolds, StepOfText
  <2> QED
    BY <1>1, <2>1, <2>4, FollowHolds
<1>2. CASE draft = Null /\ EditorNext /\ Follow
  BY <1>1, <1>2
<1>3. CASE draft # Null /\ Unprompted /\ Follow
  <2>1. EditorNext
    BY <1>3 DEF Unprompted, EditorNext, Browse
  <2> QED
    BY <1>1, <1>3, <2>1
<1>4. CASE FieldEdit
  BY <1>4, FieldEditHolds
<1>5. CASE UNCHANGED builderVars
  <2>1. UNCHANGED editorVars /\ UNCHANGED <<capabilities, draft>>
    BY <1>5 DEF builderVars, fieldVars
  <2>2. model' = model /\ session' = session /\ (Shown' <=> Shown)
    BY <2>1, EditorSame
  <2>3. CapabilitiesHold(capabilities', model', Shown')
    BY <2>1, <2>2 DEF FieldsHold, CapabilitiesHold
  <2>4. DraftHolds'
    BY <2>1, <2>2 DEF FieldsHold, DraftHolds
  <2> QED
    BY <2>1, <2>3, <2>4 DEF FieldsHold, EditorStep
<1> QED
  BY <1>2, <1>3, <1>4, <1>5 DEF BuilderNext

LEMMA BuilderStays ==
  ASSUME BuilderInvariant, [BuilderNext]_builderVars
  PROVE  BuilderInvariant'
<1>1. TextHolds /\ SectionsShowText /\ FieldsHold /\ BaselineHolds
  BY DEF BuilderInvariant
<1>2. EditorStep /\ FieldsHold'
  BY <1>1, BuilderSteps
<1>3. StepOfText
  BY <1>2, StepsOfText
<1>4. TextHolds' /\ SectionsShowText'
  BY <1>1, <1>3, TextStep, SectionsStep
<1>5. BaselineHolds'
  BY <1>1, <1>2, BaselineStep
<1> QED
  BY <1>2, <1>4, <1>5 DEF BuilderInvariant

\* The text is a document, the sections of the builder show it, the fields
\* belong to its rows and the baseline was Headscale's, in every state.
THEOREM BuilderInvariance == BuilderSpec => []BuilderInvariant
<1>1. BuilderInit => BuilderInvariant
  BY BuilderStart
<1>2. BuilderInvariant /\ [BuilderNext]_<<editorVars, fieldVars>> => BuilderInvariant'
  BY BuilderStays DEF builderVars
<1> QED
  BY <1>1, <1>2, PTL DEF BuilderSpec

\* What the page compares the editor with was Headscale's policy, whatever was
\* typed while a save was under way and whoever else wrote one.
THEOREM BaselinesWereLive == BuilderSpec => []BaselineWasLive
<1>1. BuilderInvariant => BaselineWasLive
  BY DEF BuilderInvariant, BaselineHolds, BaselineWasLive
<1> QED
  BY <1>1, BuilderInvariance, PTL

\* The rows and the fields of the builder say what the text says, for any
\* documents, any edits and any revisions that arrive.
THEOREM BuilderIsTheText == BuilderSpec => []BuilderShowsText
<1>1. FieldsHold => RowsShowEntry
  <2>1. ASSUME CapabilitiesHold(capabilities, model, Shown), NEW s \in Carriers, Shown
        PROVE  /\ DOMAIN capabilities[s] = DOMAIN model[s]
               /\ \A i \in DOMAIN model[s] :
                    /\ Complete(capabilities[s][i].rows) =>
                         NamesOf(capabilities[s][i].rows) = Range(model[s][i].known.app)
                    /\ capabilities[s][i].error => ~Complete(capabilities[s][i].rows)
    BY <2>1 DEF CapabilitiesHold, EditorOK
  <2> QED
    BY <2>1 DEF FieldsHold, RowsShowEntry
<1>2. BuilderInvariant => BuilderShowsText
  BY <1>1 DEF BuilderInvariant, BuilderShowsText
<1> QED
  BY <1>2, BuilderInvariance, PTL

\* One edit in the builder changes one place of the text, when the documents
\* are ones the builder writes as they are.
THEOREM UntouchedDoSurvive ==
  ASSUME NormalDocuments
  PROVE  BuilderSpec => UntouchedSurvive
<1>1. BuilderInit => NormalHolds
  <2>1. ASSUME BuilderInit PROVE NormalHolds
    <3>1. /\ session \in Session /\ value \in session.documents /\ loading = {}
          /\ model = Parse(DocumentOf(value)) /\ root = DocumentOf(value)
      BY <2>1 DEF BuilderInit, EditorInit
    <3>2. Normal(DocumentOf(value))
      BY <3>1 DEF NormalDocuments
    <3> QED
      BY <3>1, <3>2 DEF NormalHolds, Normal
  <2> QED
    BY <2>1
<1>2. BuilderInvariant /\ NormalHolds /\ [BuilderNext]_<<editorVars, fieldVars>> => NormalHolds'
  <2>1. ASSUME BuilderInvariant, NormalHolds, [BuilderNext]_builderVars PROVE NormalHolds'
    <3>1. TextHolds /\ FieldsHold
      BY <2>1 DEF BuilderInvariant
    <3>2. StepOfText
      BY <2>1, <3>1, BuilderSteps, StepsOfText
    <3> QED
      BY <2>1, <3>1, <3>2, NormalStep
  <2> QED
    BY <2>1 DEF builderVars
<1>3. BuilderInvariant /\ NormalHolds /\ [BuilderNext]_<<editorVars, fieldVars>> =>
        [tab = "visual" /\ tab' = "visual" /\ loading' = loading =>
           OnePlaceOfText(DocumentOf(value), DocumentOf(value'))]_editorVars
  <2>1. ASSUME BuilderInvariant, NormalHolds, [BuilderNext]_builderVars,
               tab = "visual", tab' = "visual", loading' = loading
        PROVE  OnePlaceOfText(DocumentOf(value), DocumentOf(value'))
    <3>1. TextHolds /\ FieldsHold
      BY <2>1 DEF BuilderInvariant
    <3>2. StepOfText
      BY <2>1, <3>1, BuilderSteps, StepsOfText
    <3> QED
      BY <2>1, <3>1, <3>2, UntouchedStep
  <2> QED
    BY <2>1 DEF builderVars
<1> QED
  BY <1>1, <1>2, <1>3, BuilderInvariance, PTL DEF BuilderSpec, UntouchedSurvive

-----------------------------------------------------------------------------
(* What the linter says of tokens *)

LEMMA RowsOfObject ==
  ASSUME NEW f, IsFiniteSet(DOMAIN f)
  PROVE  LET rows == ParseNamed(f)
         IN /\ DOMAIN rows = 1 .. Len(rows) /\ Len(rows) \in Nat
            /\ {rows[i].name : i \in DOMAIN rows} = DOMAIN f
            /\ \A i \in DOMAIN rows : rows[i].values = f[rows[i].name]
            /\ \A i, j \in DOMAIN rows : rows[i].name = rows[j].name => i = j
<1> DEFINE names == SetToSeq(DOMAIN f)
           rows == ParseNamed(f)
<1>1. /\ IsList(names) /\ Range(names) = DOMAIN f
      /\ \A i, j \in DOMAIN names : names[i] = names[j] => i = j
  BY SetToSeqLists
<1>2. Len(names) \in Nat /\ DOMAIN names = 1 .. Len(names)
  BY <1>1, ListHas
<1>3. rows = [i \in 1 .. Len(names) |-> [name |-> names[i], values |-> f[names[i]]]]
  BY <1>2 DEF ParseNamed
<1> HIDE DEF names, rows
<1>4. DOMAIN rows = 1 .. Len(rows) /\ Len(rows) \in Nat
  <2> DEFINE T == Range(rows)
  <2>1. rows \in Seq(T)
    BY <1>2, <1>3, SeqDef DEF Range
  <2> QED
    BY <2>1, LenProperties
<1>5. \A i \in DOMAIN rows : rows[i].name = names[i] /\ rows[i].values = f[rows[i].name]
  BY <1>3
<1>6. {rows[i].name : i \in DOMAIN rows} = DOMAIN f
  <2>1. DOMAIN rows = DOMAIN names /\ \A i \in DOMAIN rows : rows[i].name = names[i]
    BY <1>2, <1>3, <1>5
  <2>2. DOMAIN f = {names[i] : i \in DOMAIN names}
    BY <1>1 DEF Range
  <2> QED
    BY <2>1, <2>2
<1>7. \A i, j \in DOMAIN rows : rows[i].name = rows[j].name => i = j
  BY <1>1, <1>2, <1>3, <1>5
<1> QED
  BY <1>4, <1>5, <1>6, <1>7 DEF rows

\* A name is declared where its row is.
LEMMA DeclarationIs ==
  ASSUME NEW f, IsFiniteSet(DOMAIN f), NEW name
  PROVE  LET at == Declaration(ParseNamed(f), name)
         IN /\ name \notin DOMAIN f => at = 0
            /\ name \in DOMAIN f => at # 0 /\ ParseNamed(f)[at].values = f[name]
<1> DEFINE rows == ParseNamed(f)
           I == {i \in 1 .. Len(rows) : rows[i].name = name}
           at == Declaration(rows, name)
<1>1. /\ DOMAIN rows = 1 .. Len(rows) /\ Len(rows) \in Nat
      /\ {rows[i].name : i \in DOMAIN rows} = DOMAIN f
      /\ \A i \in DOMAIN rows : rows[i].values = f[rows[i].name]
      /\ \A i, j \in DOMAIN rows : rows[i].name = rows[j].name => i = j
  BY RowsOfObject
<1>2. at = IF I # {} THEN Min(I) ELSE 0
  BY DEF Declaration, SelectInSeq
<1> HIDE DEF rows, at
<1>3. ASSUME name \notin DOMAIN f PROVE I = {}
  BY <1>1, <1>3
<1>4. ASSUME name \in DOMAIN f PROVE at \in I
  <2>1. I # {} /\ I \subseteq 1 .. Len(rows)
    BY <1>1, <1>4
  <2>2. \E i \in I : \A j \in I : i <= j
    <3>1. PICK i \in I : TRUE
      BY <2>1
    <3>2. \A j \in I : j = i
      BY <1>1, <3>1
    <3>3. i <= i
      BY <1>1, <3>1
    <3> QED
      BY <3>1, <3>2, <3>3
  <2> QED
    BY <1>2, <2>1, <2>2 DEF Min
<1>5. ASSUME name \in DOMAIN f PROVE at # 0 /\ rows[at].values = f[name]
  BY <1>1, <1>4, <1>5
<1> QED
  BY <1>2, <1>3, <1>5 DEF rows, at

LEMMA ParsedNames ==
  ASSUME NEW d, IsDocument(d)
  PROVE  LET m == Parse(d)
             groups == Get(d, "groups", NoObject)
         IN /\ Aliases(m) = DOMAIN Get(d, "hosts", NoObject) \ {Nameless}
            /\ \A g : g \notin DOMAIN groups <=> Declaration(m.groups, g) = 0
            /\ \A g \in DOMAIN groups : Members(m, g) = Entries(Get(groups, g, << >>))
<1> DEFINE m == Parse(d)
           groups == Get(d, "groups", NoObject)
           hosts == Get(d, "hosts", NoObject)
<1>1. m.groups = ParseNamed(groups) /\ m.hosts = ParseNamed(hosts)
  BY ParseIs DEF NamedSections
<1>2. IsFiniteSet(DOMAIN groups) /\ IsFiniteSet(DOMAIN hosts)
  BY DEF IsDocument, NamedSections
<1> HIDE DEF m, groups, hosts
<1>3. Aliases(m) = DOMAIN hosts \ {Nameless}
  <2>1. {ParseNamed(hosts)[i].name : i \in DOMAIN ParseNamed(hosts)} = DOMAIN hosts
    BY <1>2, RowsOfObject
  <2> QED
    BY <1>1, <2>1 DEF Aliases
<1>4. \A g : g \notin DOMAIN groups <=> Declaration(m.groups, g) = 0
  BY <1>1, <1>2, DeclarationIs
<1>5. \A g \in DOMAIN groups : Members(m, g) = Entries(Get(groups, g, << >>))
  BY <1>1, <1>2, DeclarationIs DEF Members, Get
<1> QED
  BY <1>3, <1>4, <1>5 DEF m, groups, hosts

LEMMA VerdictIs ==
  ASSUME NEW covered \in BOOLEAN, NEW uncovered \in BOOLEAN, Verdicts(covered, uncovered) = "uncovered"
  PROVE  ~covered /\ uncovered
  BY DEF Verdicts

\* No node with one tag that t may stand for is one the target may stand for.
LEMMA UncoveredIsApart ==
  ASSUME NEW d, IsDocument(d), GroupsApart(d), NEW node \in Nodes, \A x, y \in node.tags : x = y,
         NEW t, NEW target, TargetCovers(Parse(d), t, target) = "uncovered",
         MayBe(d, t, node), MayBe(d, target, node)
  PROVE  FALSE
<1> DEFINE m == Parse(d)
           kind == Classify(t, Aliases(m))
           groups == Get(d, "groups", NoObject)
           alias == t \in DOMAIN Get(d, "hosts", NoObject) \ {Nameless}
<1>1. \/ node.user \in UsersOf(Token) /\ node.tags = {}
      \/ node.user = Null /\ node.tags # {}
  <2>1. CASE node \in [user : UsersOf(Token), tags : {{}}]
    BY <2>1
  <2>2. CASE node \in [user : {Null}, tags : (SUBSET Tags) \ {{}}]
    BY <2>2
  <2> QED
    BY <2>1, <2>2 DEF Nodes
<1>2. \A S : Null \notin UsersOf(S)
  BY LintAssumption DEF UsersOf
<1>3. Aliases(m) = DOMAIN Get(d, "hosts", NoObject) \ {Nameless}
  BY ParsedNames
<1>4. /\ kind = "user" => FormOf(t) = "user" /\ ~alias
      /\ kind = "group" <=> FormOf(t) = "group"
      /\ kind = "tag" <=> FormOf(t) = "tag"
  BY <1>3 DEF Classify
<1>5. /\ kind = "user" => node.user \in UsersOf({t}) /\ node.tags = {}
      /\ kind = "group" => node.user \in GroupUsers(d, t) /\ node.tags = {}
      /\ kind = "tag" => t \in node.tags
  <2>1. kind = "user" => node.user \in UsersOf({t})
    BY <1>4, LintAssumption DEF MayBe
  <2>2. kind = "group" => node.user \in GroupUsers(d, t)
    BY <1>4, LintAssumption DEF MayBe
  <2>3. kind = "tag" => t \in node.tags
    BY <1>4, LintAssumption DEF MayBe
  <2>4. \A S : node.user \in UsersOf(S) => node.tags = {}
    BY <1>1, <1>2
  <2>5. node.user \in GroupUsers(d, t) => node.tags = {}
    BY <2>4 DEF GroupUsers
  <2> QED
    BY <2>1, <2>2, <2>3, <2>4, <2>5
<1>6. target \notin {t, "*"}
  <2>1. CASE target = t
    BY <2>1 DEF TargetCovers
  <2>2. CASE target = "*" /\ target # t
    BY <2>2, LintAssumption DEF TargetCovers
  <2> QED
    BY <2>1, <2>2
<1>7. CASE target = "autogroup:member"
  BY <1>5, <1>6, <1>7, LintAssumption DEF TargetCovers, MayBe, Verdicts
<1>8. CASE target = "autogroup:tagged"
  BY <1>5, <1>6, <1>8, LintAssumption DEF TargetCovers, MayBe, Verdicts
<1>9. CASE FormOf(target) = "group" /\ target \notin {"autogroup:member", "autogroup:tagged"}
  <2>1. node.user \in GroupUsers(d, target)
    BY <1>9 DEF MayBe
  <2>2. /\ Declaration(m.groups, target) # 0 /\ kind \in {"user", "group"}
        /\ kind = "user" => ~ \E x \in Members(m, target) : NamesUser(x, t)
    BY <1>6, <1>9, LintAssumption DEF TargetCovers, Verdicts
  <2>3. target \in DOMAIN groups /\ Members(m, target) = Entries(Get(groups, target, << >>))
    BY <2>2, ParsedNames
  <2>4. CASE kind = "user"
    <3>1. t \in DOMAIN Bare /\ node.user = Bare[t]
      BY <1>5, <2>4 DEF UsersOf
    <3>2. PICK x \in DOMAIN Bare \cap Entries(Get(groups, target, << >>)) : node.user = Bare[x]
      BY <2>1 DEF GroupUsers, UsersOf
    <3> QED
      BY <2>2, <2>3, <2>4, <3>1, <3>2 DEF NamesUser
  <2>5. CASE kind = "group"
    <3>1. node.user \in GroupUsers(d, t) \cap GroupUsers(d, target)
      BY <1>5, <2>1, <2>5
    <3>2. t \notin DOMAIN groups
      BY <1>6, <2>3, <3>1 DEF GroupsApart
    <3>3. Get(groups, t, << >>) = << >>
      BY <3>2 DEF Get
    <3>4. GroupUsers(d, t) = {}
      BY <3>3, EmptyIsList DEF GroupUsers, UsersOf, Entries
    <3> QED
      BY <3>1, <3>4
  <2> QED
    BY <2>2, <2>4, <2>5
<1>10. CASE FormOf(target) = "tag" /\ target \notin {"autogroup:member", "autogroup:tagged"}
  <2>1. target \in node.tags
    BY <1>10 DEF MayBe
  <2>2. kind = "tag"
    BY <1>6, <1>10, LintAssumption DEF TargetCovers, Verdicts
  <2> QED
    BY <1>5, <1>6, <2>1, <2>2
<1> QED
  BY <1>6, <1>7, <1>8, <1>9, <1>10, LintAssumption DEF TargetCovers

LEMMA ThreeVerdicts ==
  ASSUME NEW m, NEW t, NEW target
  PROVE  TargetCovers(m, t, target) \in {"covered", "uncovered", "unknown"}
<1>1. \A c, u : Verdicts(c, u) \in {"covered", "uncovered", "unknown"}
  BY DEF Verdicts
<1> QED
  BY <1>1 DEF TargetCovers

LEMMA UncoveredByAll ==
  ASSUME NEW m, NEW tokens, NEW targets, ProvablyUncovered(m, tokens, targets),
         NEW t \in tokens, NEW target \in targets
  PROVE  TargetCovers(m, t, target) = "uncovered"
<1> DEFINE verdicts == {TargetCovers(m, t, x) : x \in targets}
<1>1. Verdicts("covered" \in verdicts, "unknown" \notin verdicts) = "uncovered"
  BY DEF ProvablyUncovered, CoveredByAny
<1>2. "covered" \notin verdicts /\ "unknown" \notin verdicts
  BY <1>1 DEF Verdicts
<1> QED
  BY <1>2, ThreeVerdicts

LEMMA ParsedFields ==
  ASSUME NEW d, NEW s \in RuleSections, NEW f \in Known(s) \ {"action"}
  PROVE  /\ DOMAIN Parse(d)[s] = DOMAIN Get(d, s, << >>)
         /\ \A i \in DOMAIN Parse(d)[s] :
              Parse(d)[s][i].known[f] = Get(Get(d, s, << >>)[i], f, << >>)
<1> DEFINE rules == Get(d, s, << >>)
<1>1. Parse(d)[s] = ParseRules(s, rules)
  BY ParseIs
<1> HIDE DEF rules
<1>2. ParseRules(s, rules) = [i \in DOMAIN rules |-> ParseRule(s, rules[i])]
  BY DEF ParseRules
<1>3. \A rule : ParseRule(s, rule).known[f] = Get(rule, f, << >>)
  BY DEF ParseRule
<1> QED
  BY <1>1, <1>2, <1>3 DEF rules

\* The attributed targets of the model are those of the document.
LEMMA TargetsOfDocument ==
  ASSUME NEW d, NEW node, NEW attr, Has(d, node, attr)
  PROVE  \E target \in Targets(Parse(d), attr) : MayBe(d, target, node)
<1> DEFINE rules == Get(d, "nodeAttrs", << >>)
           rows == Parse(d).nodeAttrs
<1>1. "nodeAttrs" \in RuleSections /\ {"attr", "target"} \subseteq Known("nodeAttrs") \ {"action"}
  BY DEF RuleSections, Known, Required, Optional
<1>2. /\ DOMAIN rows = DOMAIN rules
      /\ \A i \in DOMAIN rows : /\ rows[i].known.attr = Get(rules[i], "attr", << >>)
                                /\ rows[i].known.target = Get(rules[i], "target", << >>)
  BY <1>1, ParsedFields
<1>3. PICK i \in DOMAIN rules : /\ attr \in Entries(Get(rules[i], "attr", << >>))
                                /\ \E t \in Entries(Get(rules[i], "target", << >>)) : MayBe(d, t, node)
  BY DEF Has, Entries
<1> HIDE DEF rules, rows
<1>4. rows[i] \in {r \in Entries(rows) : attr \in Entries(r.known.attr)}
  BY <1>2, <1>3 DEF Entries
<1>5. Entries(rows[i].known.target) \subseteq Targets(Parse(d), attr)
  BY <1>4 DEF Targets, rows
<1> QED
  BY <1>2, <1>3, <1>5

LEMMA OtherFindings ==
  ASSUME NEW m, NEW known, NEW w \in RefFindings(m, known) \cup GrantFindings(m)
  PROVE  w.code \notin {"drive-access-missing", "drive-share-missing"}
<1>1. CASE w \in RefFindings(m, known)
  <2>1. PICK site, t : w \in RefFinding(m, known, site, t)
    BY <1>1 DEF RefFindings
  <2>2. w.code \in {"autogroup-placement", "nested-group", "undeclared-group", "undeclared-tag",
                    "unknown-user"}
    BY <2>1 DEF RefFinding, Finding
  <2> QED
    BY <2>2
<1>2. CASE w \in GrantFindings(m)
  <2>1. PICK code, place, token : /\ w = Finding(code, place, token)
                                  /\ code \in {"grant-dst-ports", "grant-no-capability"}
    BY <1>2 DEF GrantFindings
  <2>2. \A c, p, t : Finding(c, p, t).code = c
    BY DEF Finding
  <2>3. w.code \in {"grant-dst-ports", "grant-no-capability"}
    BY <2>1, <2>2
  <2> QED
    BY <2>3
<1> QED
  BY <1>1, <1>2

\* A Taildrive warning is about a grant with a side none of whose tokens is covered.
LEMMA DriveFindingIs ==
  ASSUME NEW m, NEW w \in DriveFindings(m)
  PROVE  /\ w.code = "drive-access-missing" =>
              /\ w.place[2] \in DOMAIN m.grants
              /\ ProvablyUncovered(m, Entries(m.grants[w.place[2]].known.src),
                                   Targets(m, "drive:access"))
         /\ w.code = "drive-share-missing" =>
              /\ w.place[2] \in DOMAIN m.grants
              /\ ProvablyUncovered(m, {Whole(e) : e \in Entries(m.grants[w.place[2]].known.dst)},
                                   Targets(m, "drive:share"))
<1> DEFINE lacks(i, f, attr) ==
             LET list == m.grants[i].known[f]
                 tokens == IF f = "dst" THEN {Whole(e) : e \in Entries(list)} ELSE Entries(list)
             IN ProvablyUncovered(m, tokens, Targets(m, attr))
           unused == UNION {{Finding("drive-attr-unused", <<"nodeAttrs", i, "attr">>, attr) :
                      attr \in Entries(m.nodeAttrs[i].known.attr) \cap {"drive:share", "drive:access"}}
                      : i \in IF {i \in DOMAIN m.grants : SharesDrive(m.grants[i])} = {}
                              THEN DOMAIN m.nodeAttrs ELSE {}}
<1>1. \/ \E i \in DOMAIN m.grants : lacks(i, "dst", "drive:share")
                                      /\ w = Finding("drive-share-missing", <<"grants", i, "dst">>, Null)
      \/ \E i \in DOMAIN m.grants : lacks(i, "src", "drive:access")
                                      /\ w = Finding("drive-access-missing", <<"grants", i, "src">>, Null)
      \/ w \in unused
  BY DEF DriveFindings
<1>2. CASE \E i \in DOMAIN m.grants : lacks(i, "dst", "drive:share")
                                      /\ w = Finding("drive-share-missing", <<"grants", i, "dst">>, Null)
  BY <1>2 DEF Finding
<1>3. CASE \E i \in DOMAIN m.grants : lacks(i, "src", "drive:access")
                                      /\ w = Finding("drive-access-missing", <<"grants", i, "src">>, Null)
  BY <1>3 DEF Finding
<1>4. CASE w \in unused
  BY <1>4 DEF Finding
<1> QED
  BY <1>1, <1>2, <1>3, <1>4

\* No node that a warned side stands for has the attribute.
LEMMA WarnedLack ==
  ASSUME NEW d, IsDocument(d), GroupsApart(d), NEW node \in Nodes, \A x, y \in node.tags : x = y,
         NEW tokens, NEW attr, ProvablyUncovered(Parse(d), tokens, Targets(Parse(d), attr)),
         NEW t \in tokens, MayBe(d, t, node)
  PROVE  ~Has(d, node, attr)
<1>1. ASSUME Has(d, node, attr) PROVE FALSE
  <2>1. PICK target \in Targets(Parse(d), attr) : MayBe(d, target, node)
    BY <1>1, TargetsOfDocument
  <2>2. TargetCovers(Parse(d), t, target) = "uncovered"
    BY UncoveredByAll
  <2> QED
    BY <2>1, <2>2, UncoveredIsApart
<1> QED
  BY <1>1

LEMMA WarningsOfDocument ==
  ASSUME IsDocument(DocumentOf(value))
  PROVE  DriveWarningsAreEarned
<1> DEFINE d == DocumentOf(value)
           m == Parse(d)
<1>1. /\ DOMAIN m.grants = DOMAIN Get(d, "grants", << >>)
      /\ \A i \in DOMAIN m.grants :
           /\ m.grants[i].known.src = Get(Get(d, "grants", << >>)[i], "src", << >>)
           /\ m.grants[i].known.dst = Get(Get(d, "grants", << >>)[i], "dst", << >>)
  <2>1. "grants" \in RuleSections /\ {"src", "dst"} \subseteq Known("grants") \ {"action"}
    BY DEF RuleSections, Known, Required, Optional
  <2> QED
    BY <2>1, ParsedFields
<1> SUFFICES ASSUME NEW w \in LintFindings, NEW node \in Nodes, GroupsApart(d),
                    \A t, u \in node.tags : t = u
             PROVE  LET grant == d.grants[w.place[2]]
                    IN /\ w.code = "drive-access-missing" =>
                            ~ \E t \in Entries(Get(grant, "src", << >>)) :
                                MayBe(d, t, node) /\ Has(d, node, "drive:access")
                       /\ w.code = "drive-share-missing" =>
                            ~ \E e \in Entries(Get(grant, "dst", << >>)) :
                                MayBe(d, Whole(e), node) /\ Has(d, node, "drive:share")
  BY DEF DriveWarningsAreEarned
<1>2. ASSUME w.code \in {"drive-access-missing", "drive-share-missing"} PROVE w \in DriveFindings(m)
  BY <1>2, OtherFindings DEF LintFindings, LintPolicy
<1>3. ASSUME NEW i \in DOMAIN m.grants
      PROVE  /\ m.grants[i].known.src = Get(d.grants[i], "src", << >>)
             /\ m.grants[i].known.dst = Get(d.grants[i], "dst", << >>)
  <2>1. DOMAIN << >> = {}
    BY EmptyIsList
  <2>2. Get(d, "grants", << >>) = d.grants
    BY <1>1, <1>3, <2>1 DEF Get
  <2> QED
    BY <1>1, <1>3, <2>2
<1> DEFINE i == w.place[2]
<1>4. ASSUME w.code = "drive-access-missing",
             NEW t \in Entries(Get(d.grants[i], "src", << >>)), MayBe(d, t, node)
      PROVE  ~Has(d, node, "drive:access")
  <2>1. i \in DOMAIN m.grants /\ ProvablyUncovered(m, Entries(m.grants[i].known.src),
                                                   Targets(m, "drive:access"))
    BY <1>2, <1>4, DriveFindingIs
  <2> HIDE DEF i, m, d
  <2>2. t \in Entries(m.grants[i].known.src)
    BY <1>3, <1>4, <2>1
  <2> QED
    BY <1>4, <2>1, <2>2, WarnedLack DEF m, d
<1>5. ASSUME w.code = "drive-share-missing",
             NEW e \in Entries(Get(d.grants[i], "dst", << >>)), MayBe(d, Whole(e), node)
      PROVE  ~Has(d, node, "drive:share")
  <2> DEFINE tokens == {Whole(x) : x \in Entries(m.grants[i].known.dst)}
  <2>1. i \in DOMAIN m.grants /\ ProvablyUncovered(m, tokens, Targets(m, "drive:share"))
    BY <1>2, <1>5, DriveFindingIs
  <2> HIDE DEF i, m, d
  <2>2. Whole(e) \in tokens
    BY <1>3, <1>5, <2>1
  <2> HIDE DEF tokens
  <2> QED
    BY <1>5, <2>1, <2>2, WarnedLack DEF m, d
<1> QED
  BY <1>4, <1>5

\* A Taildrive grant is called without effect only when no node could use it, in
\* every text the editor comes to hold (provablyUncovered of lib/policy/lint.ts).
THEOREM WarningsAreEarned == BuilderSpec => []DriveWarningsAreEarned
<1>1. BuilderInvariant => DriveWarningsAreEarned
  BY WarningsOfDocument DEF BuilderInvariant, TextHolds
<1> QED
  BY <1>1, BuilderInvariance, PTL

-----------------------------------------------------------------------------
(* What a token leads to *)

\* Where a graph goes on from a token.
After(u, next) == IF u \in DOMAIN next THEN next[u] ELSE {}

\* The tokens met have the token among them and what each of them leads to.
LEMMA ReachHolds ==
  ASSUME NEW t, NEW next
  PROVE  /\ t \in Reach(t, next)
         /\ \A u \in Reach(t, next) : After(u, next) \subseteq Reach(t, next)
<1> DEFINE names == DOMAIN next
           closed == {S \in SUBSET names : \A u \in S : next[u] \cap names \subseteq S}
           met == {u \in names : \A S \in closed : t \in S \/ t \notin names => u \in S}
<1>1. Reach(t, next) = {t} \cup UNION {next[u] : u \in met}
  BY DEF Reach
<1>2. \A u \in names : u = t => u \in met
  OBVIOUS
<1>3. ASSUME NEW u \in met, NEW v \in next[u], v \in names PROVE v \in met
  <2>1. ASSUME NEW S \in closed, t \in S \/ t \notin names PROVE v \in S
    BY <1>3, <2>1
  <2> QED
    BY <1>3, <2>1
<1> HIDE DEF closed, met
<1>4. ASSUME NEW u \in Reach(t, next), u \in names PROVE u \in met
  BY <1>1, <1>2, <1>3, <1>4
<1> QED
  BY <1>1, <1>4 DEF After

\* They are the fewest of which that is true.
LEMMA ReachLeast ==
  ASSUME NEW t, NEW next, NEW S, t \in S, \A u \in S : After(u, next) \subseteq S
  PROVE  Reach(t, next) \subseteq S
<1> DEFINE names == DOMAIN next
           closed == {T \in SUBSET names : \A u \in T : next[u] \cap names \subseteq T}
           met == {u \in names : \A T \in closed : t \in T \/ t \notin names => u \in T}
<1>1. Reach(t, next) = {t} \cup UNION {next[u] : u \in met}
  BY DEF Reach
<1>2. S \cap names \in closed
  BY DEF After
<1>3. met \subseteq S
  BY <1>2
<1> HIDE DEF met
<1>4. \A u \in met : next[u] \subseteq S
  <2>1. met \subseteq names
    BY DEF met
  <2> QED
    BY <1>3, <2>1 DEF After
<1> QED
  BY <1>1, <1>4

LEMMA ReachSame ==
  ASSUME NEW t, NEW f, NEW g, \A u : After(u, f) = After(u, g)
  PROVE  Reach(t, f) = Reach(t, g)
<1>1. Reach(t, f) \subseteq Reach(t, g)
  <2>1. t \in Reach(t, g) /\ \A u \in Reach(t, g) : After(u, f) \subseteq Reach(t, g)
    BY ReachHolds
  <2> QED
    BY <2>1, ReachLeast
<1>2. Reach(t, g) \subseteq Reach(t, f)
  <2>1. t \in Reach(t, f) /\ \A u \in Reach(t, f) : After(u, g) \subseteq Reach(t, f)
    BY ReachHolds
  <2> QED
    BY <2>1, ReachLeast
<1> QED
  BY <1>1, <1>2

\* What the rows of a parsed policy lead on to is what the document says.
LEMMA OnwardIs ==
  ASSUME NEW d, IsDocument(d), NEW t
  PROVE  /\ t \in GroupsOf(d) => Onward(t, Parse(d)) = d.groups[t]
         /\ t \in AliasesOf(d) =>
              Onward(t, Parse(d)) = IF d.hosts[t] = Nameless THEN << >> ELSE <<d.hosts[t]>>
         /\ t \notin GroupsOf(d) \cup AliasesOf(d) /\ t # Nameless => Onward(t, Parse(d)) = << >>
<1> DEFINE m == Parse(d)
           groups == Get(d, "groups", NoObject)
           hosts == Get(d, "hosts", NoObject)
           kind == Classify(t, Aliases(m))
           cidr == m.hosts[Declaration(m.hosts, t)].values
<1>1. m.groups = ParseNamed(groups) /\ m.hosts = ParseNamed(hosts)
  BY ParseIs DEF NamedSections
<1>2. IsFiniteSet(DOMAIN groups) /\ IsFiniteSet(DOMAIN hosts)
  BY DEF IsDocument, NamedSections
<1>3. Aliases(m) = DOMAIN hosts \ {Nameless}
  BY ParsedNames
<1>4. /\ t \notin DOMAIN groups => Declaration(m.groups, t) = 0
      /\ t \in DOMAIN groups =>
           Declaration(m.groups, t) # 0 /\ m.groups[Declaration(m.groups, t)].values = groups[t]
  BY <1>1, <1>2, DeclarationIs
<1>5. t \in DOMAIN hosts => cidr = hosts[t]
  BY <1>1, <1>2, DeclarationIs
<1>6. Onward(t, m) =
        CASE kind = "group" /\ Declaration(m.groups, t) # 0 ->
               m.groups[Declaration(m.groups, t)].values
          [] kind = "host" /\ cidr # Nameless -> <<cidr>>
          [] OTHER -> << >>
  BY DEF Onward
<1>7. kind = "group" <=> FormOf(t) = "group"
  BY FormAssumption DEF Classify, FormOf
<1>8. kind = "host" <=> t \in AliasesOf(d)
  BY <1>3, FormAssumption DEF Classify, AliasesOf, FormOf
<1>9. t \in AliasesOf(d) => t \in DOMAIN hosts /\ d.hosts[t] = hosts[t] /\ FormOf(t) # "group"
  <2>1. NoObject = << >> /\ DOMAIN << >> = {}
    BY DEF NoObject
  <2>2. t \in DOMAIN hosts => d.hosts = hosts
    BY <2>1 DEF Get
  <2> QED
    BY <2>2 DEF AliasesOf
<1>10. t \in GroupsOf(d) => t \in DOMAIN groups /\ d.groups[t] = groups[t] /\ FormOf(t) = "group"
  <2>1. NoObject = << >> /\ DOMAIN << >> = {}
    BY DEF NoObject
  <2>2. t \in DOMAIN groups => d.groups = groups
    BY <2>1 DEF Get
  <2> QED
    BY <2>2 DEF GroupsOf
<1>11. t \notin GroupsOf(d) /\ t # Nameless /\ FormOf(t) = "group" => t \notin DOMAIN groups
  BY DEF GroupsOf
<1> HIDE DEF m, groups, hosts, kind, cidr
<1>12. ASSUME t \in GroupsOf(d) PROVE Onward(t, m) = d.groups[t]
  BY <1>4, <1>6, <1>7, <1>10, <1>12
<1>13. ASSUME t \in AliasesOf(d)
       PROVE  Onward(t, m) = IF d.hosts[t] = Nameless THEN << >> ELSE <<d.hosts[t]>>
  BY <1>5, <1>6, <1>7, <1>8, <1>9, <1>13
<1>14. ASSUME t \notin GroupsOf(d) \cup AliasesOf(d), t # Nameless PROVE Onward(t, m) = << >>
  BY <1>4, <1>6, <1>7, <1>8, <1>11, <1>14
<1> QED
  BY <1>12, <1>13, <1>14 DEF m

LEMMA EntriesOfFew ==
  ASSUME NEW x
  PROVE  Entries(<<x>>) = {x} /\ Entries(<< >>) = {}
  BY DEF Entries

LEMMA LinksAreWritten ==
  ASSUME NEW d, IsDocument(d), NEW t
  PROVE  /\ After(t, Links(Parse(d))) = After(t, LinksOf(d))
         /\ t # Nameless => After(t, LinksOf(d)) = Entries(Onward(t, Parse(d)))
<1> DEFINE m == Parse(d)
           names == Names(m.groups) \cup Aliases(m)
<1>1. names = (DOMAIN Get(d, "groups", NoObject) \cup DOMAIN Get(d, "hosts", NoObject)) \ {Nameless}
  <2> DEFINE groups == Get(d, "groups", NoObject)
  <2>1. m.groups = ParseNamed(groups) /\ IsFiniteSet(DOMAIN groups)
    BY ParseIs DEF NamedSections, IsDocument
  <2>2. {m.groups[i].name : i \in DOMAIN m.groups} = DOMAIN groups
    <3>1. {ParseNamed(groups)[i].name : i \in DOMAIN ParseNamed(groups)} = DOMAIN groups
      BY <2>1, RowsOfObject
    <3> QED
      BY <2>1, <3>1
  <2>3. Aliases(m) = DOMAIN Get(d, "hosts", NoObject) \ {Nameless}
    BY ParsedNames
  <2>4. Names(m.groups) = DOMAIN groups \ {Nameless}
    BY <2>2 DEF Names
  <2> HIDE DEF m
  <2> QED
    BY <2>3, <2>4
<1>2. After(t, Links(m)) = IF t \in names THEN Entries(Onward(t, m)) ELSE {}
  BY DEF After, Links
<1>3. After(t, LinksOf(d)) = IF t \in GroupsOf(d) THEN Entries(d.groups[t])
                             ELSE IF t \in AliasesOf(d) THEN {d.hosts[t]} \ {Nameless} ELSE {}
  BY DEF After, LinksOf
<1>4. GroupsOf(d) \cup AliasesOf(d) \subseteq names
  BY <1>1 DEF GroupsOf, AliasesOf
<1>5. Nameless \notin names
  BY <1>1
<1> HIDE DEF m, names
<1>6. ASSUME t # Nameless PROVE After(t, LinksOf(d)) = Entries(Onward(t, m))
  <2>1. CASE t \in GroupsOf(d)
    BY <1>3, <2>1, OnwardIs DEF m
  <2>2. CASE t \in AliasesOf(d) /\ t \notin GroupsOf(d)
    <3>1. Onward(t, m) = IF d.hosts[t] = Nameless THEN << >> ELSE <<d.hosts[t]>>
      BY <2>2, OnwardIs DEF m
    <3>2. After(t, LinksOf(d)) = {d.hosts[t]} \ {Nameless}
      BY <1>3, <2>2
    <3>3. CASE d.hosts[t] = Nameless
      BY <3>1, <3>2, <3>3, EntriesOfFew
    <3>4. CASE d.hosts[t] # Nameless
      BY <3>1, <3>2, <3>4, EntriesOfFew
    <3> QED
      BY <3>3, <3>4
  <2>3. CASE t \notin GroupsOf(d) \cup AliasesOf(d)
    BY <1>3, <1>6, <2>3, OnwardIs, EntriesOfFew DEF m
  <2> QED
    BY <2>1, <2>2, <2>3
<1>7. CASE t \in names
  BY <1>2, <1>5, <1>6, <1>7 DEF m
<1>8. CASE t \notin names
  BY <1>2, <1>3, <1>4, <1>6, <1>8 DEF m
<1> QED
  BY <1>6, <1>7, <1>8 DEF m

-----------------------------------------------------------------------------
(* What a selector means *)

\* What each of some tokens says, merged; aliases say nothing.
Saying(tokens) == MergeAll({Leaf(u, {}) : u \in tokens})

LEMMA LeafOf ==
  ASSUME NEW d, IsDocument(d), NEW t
  PROVE  Leaf(t, Aliases(Parse(d))) = IF t \in AliasesOf(d) THEN Nothing ELSE Leaf(t, {})
<1> DEFINE A == Aliases(Parse(d))
<1>1. A = DOMAIN Get(d, "hosts", NoObject) \ {Nameless}
  BY ParsedNames
<1>2. FormOf(t) \in {"wildcard", "group", "tag", "autogroup", "cidr", "v6", "user", "word"}
  BY FormAssumption DEF FormOf
<1>3. CASE t \in AliasesOf(d)
  <2>1. Classify(t, A) = "host"
    BY <1>1, <1>2, <1>3 DEF Classify, AliasesOf
  <2> HIDE DEF A
  <2>2. Leaf(t, A) = Nothing
    BY <2>1 DEF Leaf
  <2> QED
    BY <1>3, <2>2 DEF A
<1>4. CASE t \notin AliasesOf(d)
  <2>1. Classify(t, A) = FormOf(t) /\ Classify(t, {}) = FormOf(t)
    BY <1>1, <1>2, <1>4 DEF Classify, AliasesOf
  <2> HIDE DEF A
  <2>2. Leaf(t, A) = Leaf(t, {})
    BY <2>1 DEF Leaf
  <2> QED
    BY <1>4, <2>2 DEF A
<1> QED
  BY <1>3, <1>4

LEMMA MeaningIs ==
  ASSUME NEW d, IsDocument(d), NEW t
  PROVE  Meaning(t, Parse(d)) = Saying(Closure(d, t))
<1> DEFINE m == Parse(d)
           all == Reach(t, LinksOf(d)) \ {Nameless}
           parts == {Leaf(u, Aliases(m)) : u \in all}
           told == {Leaf(u, {}) : u \in Closure(d, t)}
<1>1. Reach(t, Links(m)) = Reach(t, LinksOf(d))
  <2>1. \A u : After(u, Links(m)) = After(u, LinksOf(d))
    BY LinksAreWritten
  <2> QED
    BY <2>1, ReachSame
<1>2. Meaning(t, m) = MergeAll(parts)
  BY <1>1 DEF Meaning
<1>3. Closure(d, t) = all \ AliasesOf(d)
  BY DEF Closure
<1>4. \A u : Leaf(u, Aliases(m)) = IF u \in AliasesOf(d) THEN Nothing ELSE Leaf(u, {})
  BY LeafOf
<1> HIDE DEF m, all
<1>5. told \subseteq parts
  BY <1>3, <1>4
<1>6. parts \subseteq told \cup {Nothing}
  BY <1>3, <1>4
<1> HIDE DEF parts, told
<1>7. ~Nothing.wildcard /\ Nothing.atoms = {} /\ Nothing.nets = {} /\ Nothing.notes = {}
  BY DEF Nothing
<1>8. (\E x \in parts : x.wildcard) <=> (\E x \in told : x.wildcard)
  BY <1>5, <1>6, <1>7
<1>9. UNION {x.atoms : x \in parts} = UNION {x.atoms : x \in told}
  BY <1>5, <1>6, <1>7
<1>10. UNION {x.nets : x \in parts} = UNION {x.nets : x \in told}
  BY <1>5, <1>6, <1>7
<1>11. UNION {x.notes : x \in parts} = UNION {x.notes : x \in told}
  BY <1>5, <1>6, <1>7
<1>12. MergeAll(parts) = MergeAll(told)
  BY <1>8, <1>9, <1>10, <1>11 DEF MergeAll
<1> QED
  BY <1>2, <1>12 DEF Saying, m, told

\* What a token of each form says.
LEMMA SaysIs ==
  ASSUME NEW t
  PROVE  LET x == Leaf(t, {})
         IN /\ x.wildcard <=> FormOf(t) = "wildcard"
            /\ x.atoms = IF FormOf(t) \in {"group", "tag"} \/ t = Internet THEN {<<"is", t>>}
                         ELSE IF FormOf(t) \in {"v6", "word"} THEN {<<"lit", t>>}
                         ELSE IF FormOf(t) = "user" THEN {<<"u", Lower[t]>>} ELSE {}
            /\ x.nets = IF FormOf(t) = "cidr" THEN {ParseIpv4Range(t)} ELSE {}
            /\ x.notes = IF FormOf(t) \in {"v6", "autogroup"} THEN {t} ELSE {}
<1>1. FormOf(t) \in {"wildcard", "group", "tag", "autogroup", "cidr", "v6", "user", "word"}
  BY FormAssumption DEF FormOf
<1>2. Classify(t, {}) = FormOf(t)
  BY DEF Classify
<1>3. t = Internet => FormOf(t) = "autogroup"
  BY EvalAssumption
<1>4. CASE FormOf(t) = "wildcard"
  BY <1>2, <1>3, <1>4 DEF Leaf, Nothing
<1>5. CASE FormOf(t) \in {"group", "tag"}
  BY <1>2, <1>3, <1>5 DEF Leaf, Nothing, Atom
<1>6. CASE FormOf(t) = "cidr"
  BY <1>2, <1>3, <1>6 DEF Leaf, Nothing
<1>7. CASE FormOf(t) = "v6"
  BY <1>2, <1>3, <1>7 DEF Leaf, Nothing, Atom, Caveat
<1>8. CASE FormOf(t) = "autogroup"
  BY <1>2, <1>3, <1>8 DEF Leaf, Nothing, Atom, Caveat
<1>9. CASE FormOf(t) = "user"
  BY <1>2, <1>3, <1>9 DEF Leaf, Nothing, Atom
<1>10. CASE FormOf(t) = "word"
  BY <1>2, <1>3, <1>10 DEF Leaf, Nothing, Atom
<1> QED
  BY <1>1, <1>4, <1>5, <1>6, <1>7, <1>8, <1>9, <1>10

-----------------------------------------------------------------------------
(* Addresses *)

\* Two ranges overlap when some address is in both.
LEMMA OverlapIs ==
  ASSUME NEW a, FormOf(a) = "cidr", NEW b, FormOf(b) = "cidr"
  PROVE  Ipv4RangesOverlap(ParseIpv4Range(a), ParseIpv4Range(b))
           <=> \E address \in Address : Within(address, a) /\ Within(address, b)
<1> DEFINE m == Net[a].bits
           n == Net[b].bits
           few == IF m <= n THEN m ELSE n
<1>1. /\ m \in 0 .. Width /\ n \in 0 .. Width /\ Width \in Nat
      /\ Net[a].addr \in Address /\ Net[b].addr \in Address
  BY EvalAssumption DEF FormOf
<1>2. ParseIpv4Range(a).bits = m /\ ParseIpv4Range(b).bits = n
  BY DEF ParseIpv4Range
<1>3. /\ Masked(ParseIpv4Range(a).base, few) = Masked(Net[a].addr, few)
      /\ Masked(ParseIpv4Range(b).base, few) = Masked(Net[b].addr, few)
  BY <1>1 DEF ParseIpv4Range, Masked
<1>4. Ipv4RangesOverlap(ParseIpv4Range(a), ParseIpv4Range(b))
        <=> Masked(Net[a].addr, few) = Masked(Net[b].addr, few)
  BY <1>2, <1>3 DEF Ipv4RangesOverlap
<1>5. Masked(Net[a].addr, few) = Masked(Net[b].addr, few)
        <=> \A i \in 1 .. few : Net[a].addr[i] = Net[b].addr[i]
  <2>1. ASSUME Masked(Net[a].addr, few) = Masked(Net[b].addr, few), NEW i \in 1 .. few
        PROVE  Net[a].addr[i] = Net[b].addr[i]
    <3>1. i \in 1 .. Width /\ i <= few
      BY <1>1
    <3>2. Masked(Net[a].addr, few)[i] = Net[a].addr[i] /\ Masked(Net[b].addr, few)[i] = Net[b].addr[i]
      BY <3>1 DEF Masked
    <3> QED
      BY <2>1, <3>2
  <2>2. ASSUME \A i \in 1 .. few : Net[a].addr[i] = Net[b].addr[i]
        PROVE  Masked(Net[a].addr, few) = Masked(Net[b].addr, few)
    BY <1>1, <2>2 DEF Masked
  <2> QED
    BY <2>1, <2>2
<1>6. ASSUME NEW address, Within(address, a), Within(address, b), NEW i \in 1 .. few
      PROVE  Net[a].addr[i] = Net[b].addr[i]
  BY <1>1, <1>6 DEF Within
<1>7. ASSUME \A i \in 1 .. few : Net[a].addr[i] = Net[b].addr[i]
      PROVE  \E address \in Address : Within(address, a) /\ Within(address, b)
  <2>1. CASE m <= n
    <3>1. Within(Net[b].addr, a) /\ Within(Net[b].addr, b)
      BY <1>1, <1>7, <2>1 DEF Within
    <3> QED
      BY <1>1, <3>1
  <2>2. CASE ~(m <= n)
    <3>1. Within(Net[a].addr, a) /\ Within(Net[a].addr, b)
      BY <1>1, <1>7, <2>2 DEF Within
    <3> QED
      BY <1>1, <3>1
  <2> QED
    BY <2>1, <2>2
<1> QED
  BY <1>4, <1>5, <1>6, <1>7

-----------------------------------------------------------------------------
(* What covers what *)

\* Two tokens share an atom or an address when the reference calls them the same.
LEMMA SameIs ==
  ASSUME NEW a, FormOf(a) # "wildcard", NEW b, FormOf(b) # "wildcard"
  PROVE  LET x == Leaf(a, {})
             y == Leaf(b, {})
         IN Same(a, b) <=> \/ x.atoms \cap y.atoms # {}
                           \/ \E p \in x.nets, q \in y.nets : Ipv4RangesOverlap(p, q)
<1> DEFINE x == Leaf(a, {})
           y == Leaf(b, {})
           form(t) == FormOf(t)
<1>1. /\ form(a) \in {"group", "tag", "autogroup", "cidr", "v6", "user", "word"}
      /\ form(b) \in {"group", "tag", "autogroup", "cidr", "v6", "user", "word"}
  BY FormAssumption DEF FormOf
<1>2. (a = Internet => form(a) = "autogroup") /\ (b = Internet => form(b) = "autogroup")
  BY EvalAssumption
<1>3. /\ x.atoms = IF form(a) \in {"group", "tag"} \/ a = Internet THEN {<<"is", a>>}
                   ELSE IF form(a) \in {"v6", "word"} THEN {<<"lit", a>>}
                   ELSE IF form(a) = "user" THEN {<<"u", Lower[a]>>} ELSE {}
      /\ x.nets = IF form(a) = "cidr" THEN {ParseIpv4Range(a)} ELSE {}
  BY SaysIs
<1>4. /\ y.atoms = IF form(b) \in {"group", "tag"} \/ b = Internet THEN {<<"is", b>>}
                   ELSE IF form(b) \in {"v6", "word"} THEN {<<"lit", b>>}
                   ELSE IF form(b) = "user" THEN {<<"u", Lower[b]>>} ELSE {}
      /\ y.nets = IF form(b) = "cidr" THEN {ParseIpv4Range(b)} ELSE {}
  BY SaysIs
<1>5. \A k, l, u, v : <<k, u>> = <<l, v>> <=> k = l /\ u = v
  OBVIOUS
<1> HIDE DEF x, y, form
<1>6. x.atoms \cap y.atoms # {}
        <=> \/ a = b /\ (form(a) \in {"group", "tag", "v6", "word"} \/ a = Internet)
            \/ form(a) = "user" /\ form(b) = "user" /\ Lower[a] = Lower[b]
  <2> DEFINE named(t) == form(t) \in {"group", "tag"} \/ t = Internet
             written(t) == form(t) \in {"v6", "word"}
             person(t) == form(t) = "user"
             speaks(t) == named(t) \/ written(t) \/ person(t)
             atom(t) == IF named(t) THEN <<"is", t>>
                        ELSE IF written(t) THEN <<"lit", t>> ELSE <<"u", Lower[t]>>
  <2>1. x.atoms = IF speaks(a) THEN {atom(a)} ELSE {}
    BY <1>3
  <2>2. y.atoms = IF speaks(b) THEN {atom(b)} ELSE {}
    BY <1>4
  <2>3. /\ ~(named(a) /\ written(a)) /\ ~(named(a) /\ person(a)) /\ ~(written(a) /\ person(a))
        /\ ~(named(b) /\ written(b)) /\ ~(named(b) /\ person(b)) /\ ~(written(b) /\ person(b))
    BY <1>2
  <2>4. a = b => (named(a) <=> named(b)) /\ (written(a) <=> written(b))
    OBVIOUS
  <2>5. named(a) \/ written(a) <=> form(a) \in {"group", "tag", "v6", "word"} \/ a = Internet
    OBVIOUS
  <2>6. x.atoms \cap y.atoms # {} <=> speaks(a) /\ speaks(b) /\ atom(a) = atom(b)
    <3> HIDE DEF speaks, atom
    <3> QED
      BY <2>1, <2>2
  <2>7. ASSUME speaks(a), speaks(b)
        PROVE  atom(a) = atom(b)
                 <=> \/ a = b /\ (named(a) \/ written(a))
                     \/ person(a) /\ person(b) /\ Lower[a] = Lower[b]
    <3>1. "is" # "lit" /\ "is" # "u" /\ "lit" # "u"
      OBVIOUS
    <3> HIDE DEF named, written, person
    <3>2. CASE named(a)
      BY <1>5, <2>3, <2>4, <2>7, <3>1, <3>2
    <3>3. CASE written(a)
      BY <1>5, <2>3, <2>4, <2>7, <3>1, <3>3
    <3>4. CASE person(a)
      BY <1>5, <2>3, <2>4, <2>7, <3>1, <3>4
    <3> QED
      BY <2>7, <3>2, <3>3, <3>4
  <2>8. a = b /\ (named(a) \/ written(a)) => speaks(a) /\ speaks(b)
    OBVIOUS
  <2>9. person(a) /\ person(b) => speaks(a) /\ speaks(b)
    OBVIOUS
  <2> HIDE DEF named, written, speaks, atom
  <2> QED
    BY <2>5, <2>6, <2>7, <2>8, <2>9
<1>7. (\E p \in x.nets, q \in y.nets : Ipv4RangesOverlap(p, q))
        <=> /\ form(a) = "cidr" /\ form(b) = "cidr"
            /\ \E address \in Address : Within(address, a) /\ Within(address, b)
  <2>1. (\E p \in x.nets, q \in y.nets : Ipv4RangesOverlap(p, q))
          <=> /\ form(a) = "cidr" /\ form(b) = "cidr"
              /\ Ipv4RangesOverlap(ParseIpv4Range(a), ParseIpv4Range(b))
    BY <1>3, <1>4
  <2> QED
    BY <2>1, OverlapIs DEF form
<1>8. a = b /\ form(a) = "cidr" => \E address \in Address : Within(address, a) /\ Within(address, b)
  <2>1. form(a) = "cidr" => Net[a].addr \in Address
    BY EvalAssumption DEF form, FormOf
  <2> QED
    BY <2>1 DEF Within
<1>9. Same(a, b) <=> \/ a = b /\ (form(a) = "autogroup" => a = Internet)
                     \/ form(a) = "user" /\ form(b) = "user" /\ Lower[a] = Lower[b]
                     \/ /\ form(a) = "cidr" /\ form(b) = "cidr"
                        /\ \E address \in Address : Within(address, a) /\ Within(address, b)
  BY DEF Same, form
<1> DEFINE overlap == \E address \in Address : Within(address, a) /\ Within(address, b)
<1> HIDE DEF overlap
<1>10. Same(a, b) <=> \/ a = b /\ (form(a) = "autogroup" => a = Internet)
                      \/ form(a) = "user" /\ form(b) = "user" /\ Lower[a] = Lower[b]
                      \/ form(a) = "cidr" /\ form(b) = "cidr" /\ overlap
  BY <1>9 DEF overlap
<1>11. (\E p \in x.nets, q \in y.nets : Ipv4RangesOverlap(p, q))
         <=> form(a) = "cidr" /\ form(b) = "cidr" /\ overlap
  BY <1>7 DEF overlap
<1>12. a = b /\ form(a) = "cidr" => overlap
  BY <1>8 DEF overlap
<1>13. form(a) = "user" /\ a = b => form(b) = "user" /\ Lower[a] = Lower[b]
  OBVIOUS
<1>14. Same(a, b) <=> \/ x.atoms \cap y.atoms # {}
                      \/ \E p \in x.nets, q \in y.nets : Ipv4RangesOverlap(p, q)
  BY <1>1, <1>2, <1>6, <1>10, <1>11, <1>12, <1>13
<1> QED
  BY <1>14 DEF x, y

LEMMA SayingIs ==
  ASSUME NEW T
  PROVE  LET x == Saying(T)
         IN /\ x.wildcard <=> \E a \in T : Leaf(a, {}).wildcard
            /\ \A p : p \in x.atoms <=> \E a \in T : p \in Leaf(a, {}).atoms
            /\ \A p : p \in x.nets <=> \E a \in T : p \in Leaf(a, {}).nets
            /\ \A p : p \in x.notes <=> \E a \in T : p \in Leaf(a, {}).notes
<1> DEFINE parts == {Leaf(u, {}) : u \in T}
<1>1. /\ Saying(T).wildcard <=> \E x \in parts : x.wildcard
      /\ Saying(T).atoms = UNION {x.atoms : x \in parts}
      /\ Saying(T).nets = UNION {x.nets : x \in parts}
      /\ Saying(T).notes = UNION {x.notes : x \in parts}
  <2> DEFINE all == parts
  <2>1. Saying(T) = MergeAll(all)
    BY DEF Saying
  <2> HIDE DEF all
  <2>2. /\ MergeAll(all).wildcard <=> \E x \in all : x.wildcard
        /\ MergeAll(all).atoms = UNION {x.atoms : x \in all}
        /\ MergeAll(all).nets = UNION {x.nets : x \in all}
        /\ MergeAll(all).notes = UNION {x.notes : x \in all}
    BY DEF MergeAll
  <2> QED
    BY <2>1, <2>2 DEF all
<1> QED
  BY <1>1

\* The evaluator finds what two tokens have in common: some token that both
\* stand for, or an address.
LEMMA CoversIs ==
  ASSUME NEW d, IsDocument(d), NEW t, NEW u
  PROVE  Covers(Meaning(t, Parse(d)), Meaning(u, Parse(d))) <=> Meet(d, t, u, FALSE)
<1> DEFINE T == Closure(d, t)
           U == Closure(d, u)
           x == Saying(T)
           y == Saying(U)
           wild == \E a \in T \cup U : FormOf(a) = "wildcard"
           share == \/ x.atoms \cap y.atoms # {}
                    \/ \E p \in x.nets, q \in y.nets : Ipv4RangesOverlap(p, q)
           same == \E a \in T, b \in U : Same(a, b)
<1>1. Covers(Meaning(t, Parse(d)), Meaning(u, Parse(d))) <=> x.wildcard \/ y.wildcard \/ share
  BY MeaningIs DEF Covers
<1>2. Meet(d, t, u, FALSE) <=> wild \/ same
  BY DEF Meet
<1>3. x.wildcard \/ y.wildcard <=> wild
  <2>1. \A a : Leaf(a, {}).wildcard <=> FormOf(a) = "wildcard"
    BY SaysIs
  <2>2. x.wildcard <=> \E a \in T : Leaf(a, {}).wildcard
    BY SayingIs
  <2>3. y.wildcard <=> \E a \in U : Leaf(a, {}).wildcard
    BY SayingIs
  <2> HIDE DEF T, U, x, y
  <2> QED
    BY <2>1, <2>2, <2>3
<1>4. ASSUME ~wild PROVE share <=> same
  <2>1. \A a \in T, b \in U :
          Same(a, b) <=> \/ Leaf(a, {}).atoms \cap Leaf(b, {}).atoms # {}
                         \/ \E p \in Leaf(a, {}).nets, q \in Leaf(b, {}).nets : Ipv4RangesOverlap(p, q)
    BY <1>4, SameIs
  <2>2. /\ \A p : p \in x.atoms <=> \E a \in T : p \in Leaf(a, {}).atoms
        /\ \A p : p \in x.nets <=> \E a \in T : p \in Leaf(a, {}).nets
        /\ \A p : p \in y.atoms <=> \E a \in U : p \in Leaf(a, {}).atoms
        /\ \A p : p \in y.nets <=> \E a \in U : p \in Leaf(a, {}).nets
    BY SayingIs
  <2> HIDE DEF T, U, x, y
  <2>3. x.atoms \cap y.atoms # {} <=> \E a \in T, b \in U : Leaf(a, {}).atoms \cap Leaf(b, {}).atoms # {}
    BY <2>2
  <2>4. (\E p \in x.nets, q \in y.nets : Ipv4RangesOverlap(p, q))
          <=> \E a \in T, b \in U :
                \E p \in Leaf(a, {}).nets, q \in Leaf(b, {}).nets : Ipv4RangesOverlap(p, q)
    BY <2>2
  <2> QED
    BY <2>1, <2>3, <2>4
<1> HIDE DEF T, U, x, y, wild, share, same
<1> QED
  BY <1>1, <1>2, <1>3, <1>4

\* A token has been read without a caveat.
Clear(d, t) == Meaning(t, Parse(d)).notes = {}

\* Then nothing it stands for is beyond the evaluator.
LEMMA ClearIs ==
  ASSUME NEW d, IsDocument(d), NEW t, Clear(d, t), NEW u, Clear(d, u)
  PROVE  Meet(d, t, u, TRUE) <=> Meet(d, t, u, FALSE)
<1> DEFINE T == Closure(d, t)
           U == Closure(d, u)
<1>1. \A a : FormOf(a) \in {"v6", "autogroup"} => a \in Leaf(a, {}).notes
  BY SaysIs
<1>2. \A a \in T : FormOf(a) \notin {"v6", "autogroup"}
  <2>1. Saying(T).notes = {}
    BY MeaningIs DEF Clear
  <2> QED
    BY <1>1, <2>1, SayingIs
<1>3. \A a \in U : FormOf(a) \notin {"v6", "autogroup"}
  <2>1. Saying(U).notes = {}
    BY MeaningIs DEF Clear
  <2> QED
    BY <1>1, <2>1, SayingIs
<1>4. \A a, b : Opaque(a, b) => FormOf(a) \in {"v6", "autogroup"}
  BY EvalAssumption DEF Opaque
<1>5. \A a \in T, b \in U : ~Opaque(a, b) /\ ~Opaque(b, a)
  BY <1>2, <1>3, <1>4
<1> QED
  BY <1>5 DEF Meet

-----------------------------------------------------------------------------
(* The verdict *)

\* A rule is read as its fields say.
LEMMA FieldsOfRule ==
  ASSUME NEW s \in {"acls", "grants"}, NEW r
  PROVE  LET row == ParseRule(s, r)
         IN /\ row.raw = r
            /\ row.known.src = Get(r, "src", << >>)
            /\ row.known.dst = Get(r, "dst", << >>)
            /\ s = "acls" => row.known.action = Get(r, "action", <<"accept">>)
            /\ s = "grants" => row.known.ip = Get(r, "ip", << >>)
<1>1. {"src", "dst"} \subseteq Known(s)
  BY DEF Known, Required, Optional
<1>2. s = "acls" => "action" \in Known(s)
  BY DEF Known, Required, Optional
<1>3. s = "grants" => "ip" \in Known(s)
  BY DEF Known, Required, Optional
<1> QED
  BY <1>1, <1>2, <1>3 DEF ParseRule

\* The evaluator's protocols and ports are the reference's.
LEMMA ProtoIs ==
  ASSUME NEW p, NEW q
  PROVE  ProtoOk(p, q) <=> SameProtocol(p, q)
<1>1. Null \notin {"1", "6", "17"}
  BY EvalAssumption
<1> DEFINE n == NormalizeProto(p)
           w == NormalizeProto(q)
<1>2. ASSUME NEW x
      PROVE  /\ x \in AnyProtocol => NormalizeProto(x) = Null
             /\ x \notin AnyProtocol =>
                  \/ x = "tcp" /\ NormalizeProto(x) = "6"
                  \/ x = "udp" /\ NormalizeProto(x) = "17"
                  \/ x = "icmp" /\ NormalizeProto(x) = "1"
                  \/ x \notin {"tcp", "udp", "icmp"} /\ NormalizeProto(x) = x
  BY DEF NormalizeProto, AnyProtocol, ProtoAliases
<1>3. CASE p \in AnyProtocol \/ q \in AnyProtocol
  BY <1>2, <1>3 DEF ProtoOk, SameProtocol
<1>4. CASE p \notin AnyProtocol /\ q \notin AnyProtocol
  <2>1. ProtoOk(p, q) <=> n = w
    BY <1>1, <1>2, <1>4 DEF ProtoOk, AnyProtocol
  <2>2. SameProtocol(p, q) <=> p = q \/ \E S \in Spellings : {p, q} \subseteq S
    BY <1>4 DEF SameProtocol
  <2>3. (\E S \in Spellings : {p, q} \subseteq S) <=>
          \/ p \in {"tcp", "6"} /\ q \in {"tcp", "6"}
          \/ p \in {"udp", "17"} /\ q \in {"udp", "17"}
          \/ p \in {"icmp", "1"} /\ q \in {"icmp", "1"}
    BY DEF Spellings
  <2> QED
    BY <1>2, <1>4, <2>1, <2>2, <2>3
<1> QED
  BY <1>3, <1>4

LEMMA PortsAre ==
  ASSUME NEW ports, NEW port
  PROVE  PortMatches(ports, port) <=> Open(ports, port)
BY DEF PortMatches, Open

\* An ACL rule admits what the reference says it does, and what it leaves out
\* without a caveat it leaves out for good.
LEMMA TryAcl ==
  ASSUME NEW d, IsDocument(d), NEW r, NEW query
  PROVE  LET try == Try(ParseRule("acls", r), Parse(d), query, FALSE)
         IN /\ try.allows <=> AclAllows(d, r, query, FALSE)
            /\ ~try.allows /\ try.notes = {} /\ Clear(d, query.src) /\ Clear(d, query.dst) =>
                 ~AclAllows(d, r, query, TRUE)
<1> DEFINE row == ParseRule("acls", r)
           m == Parse(d)
           try == Try(row, m, query, FALSE)
           src == Get(r, "src", << >>)
           dst == Get(r, "dst", << >>)
           from == {k \in DOMAIN src : Meet(d, query.src, src[k], FALSE)}
           to == {k \in DOMAIN dst : /\ Meet(d, query.dst, dst[k].host, FALSE)
                                     /\ PortMatches(dst[k].ports, query.port)}
           accepts == Get(r, "action", <<"accept">>) = <<"accept">>
           proto == ProtoOk(Get(r, "proto", Null), query.protocol)
           goesOn == from # {} /\ proto
           seen == {src[k] : k \in Upto(src, from)}
                     \cup IF goesOn THEN {dst[k].host : k \in Upto(dst, to)} ELSE {}
<1>1. row.raw = r /\ row.known.src = src /\ row.known.dst = dst
      /\ row.known.action = Get(r, "action", <<"accept">>)
  BY FieldsOfRule
<1>2. {k \in DOMAIN src : Covers(Meaning(query.src, m), Meaning(src[k], m))} = from
  BY CoversIs
<1>3. {k \in DOMAIN dst : /\ Covers(Meaning(query.dst, m), Meaning(dst[k].host, m))
                          /\ FALSE \/ PortMatches(dst[k].ports, query.port)} = to
  BY CoversIs
<1>4. try = IF ~accepts THEN [allows |-> FALSE, notes |-> {}]
            ELSE [allows |-> goesOn /\ to # {}, notes |-> UNION {Meaning(t, m).notes : t \in seen}]
  <2> HIDE DEF row, m
  <2> DEFINE f == {k \in DOMAIN src : Covers(Meaning(query.src, m), Meaning(src[k], m))}
             g == {k \in DOMAIN dst : /\ Covers(Meaning(query.dst, m), Meaning(dst[k].host, m))
                                      /\ FALSE \/ PortMatches(dst[k].ports, query.port)}
             on == f # {} /\ (FALSE \/ proto)
             heard == {src[k] : k \in Upto(src, f)}
                        \cup IF on THEN {dst[k].host : k \in Upto(dst, g)} ELSE {}
  <2>1. try = IF ~accepts THEN [allows |-> FALSE, notes |-> {}]
              ELSE [allows |-> on /\ g # {} /\ TRUE, notes |-> UNION {Meaning(t, m).notes : t \in heard}]
    BY <1>1 DEF Try, Protocol
  <2>2. f = from /\ g = to
    BY <1>2, <1>3
  <2> HIDE DEF f, g
  <2>3. (on <=> goesOn) /\ heard = seen
    BY <2>2
  <2> HIDE DEF on, heard, goesOn, seen, to
  <2> QED
    BY <2>1, <2>2, <2>3
<1>5. AclAllows(d, r, query, FALSE) <=> accepts /\ goesOn /\ to # {}
  <2>1. (\E x \in Some(r, "src") : Meet(d, query.src, x, FALSE)) <=> from # {}
    BY DEF Some, Entries
  <2>2. (\E x \in Some(r, "dst") : /\ Meet(d, query.dst, x.host, FALSE)
                                   /\ Open(x.ports, query.port)) <=> to # {}
    BY PortsAre DEF Some, Entries
  <2> HIDE DEF from, to
  <2> QED
    BY <2>1, <2>2, ProtoIs DEF AclAllows
<1>6. ASSUME ~try.allows, try.notes = {}, Clear(d, query.src), Clear(d, query.dst),
             AclAllows(d, r, query, TRUE)
      PROVE  FALSE
  <2>1. accepts /\ proto
    BY <1>6, ProtoIs DEF AclAllows
  <2>2. PICK i \in DOMAIN src : Meet(d, query.src, src[i], TRUE)
    BY <1>6 DEF AclAllows, Some, Entries
  <2>3. PICK j \in DOMAIN dst : /\ Meet(d, query.dst, dst[j].host, TRUE)
                                /\ PortMatches(dst[j].ports, query.port)
    BY <1>6, PortsAre DEF AclAllows, Some, Entries
  <2>4. \A t \in seen : Clear(d, t)
    <3> HIDE DEF seen, goesOn, to, try, accepts
    <3>1. try.notes = UNION {Meaning(t, m).notes : t \in seen}
      BY <1>4, <2>1
    <3> QED
      BY <1>6, <3>1 DEF Clear
  <2>5. from # {}
    <3>1. SUFFICES ASSUME from = {} PROVE FALSE
      OBVIOUS
    <3>2. src[i] \in seen
      BY <3>1 DEF Upto
    <3>3. Meet(d, query.src, src[i], FALSE)
      BY <1>6, <2>2, <2>4, <3>2, ClearIs
    <3> QED
      BY <3>1, <3>3
  <2>6. to # {}
    <3>1. SUFFICES ASSUME to = {} PROVE FALSE
      OBVIOUS
    <3>2. dst[j].host \in seen
      BY <2>1, <2>5, <3>1 DEF Upto
    <3>3. Meet(d, query.dst, dst[j].host, FALSE)
      BY <1>6, <2>3, <2>4, <3>2, ClearIs
    <3> QED
      BY <2>3, <3>1, <3>3
  <2>7. try.allows
    <3> HIDE DEF seen, to, from, try
    <3> QED
      BY <1>4, <2>1, <2>5, <2>6
  <2> QED
    BY <1>6, <2>7
<1>7. try.allows <=> AclAllows(d, r, query, FALSE)
  <2> HIDE DEF try, seen, goesOn, to
  <2> QED
    BY <1>4, <1>5
<1> QED
  BY <1>6, <1>7

\* A grant does likewise.
LEMMA TryGrant ==
  ASSUME NEW d, IsDocument(d), NEW r, NEW query
  PROVE  LET try == Try(ParseRule("grants", r), Parse(d), query, TRUE)
         IN /\ try.allows <=> GrantAllows(d, r, query, FALSE)
            /\ ~try.allows /\ try.notes = {} /\ Clear(d, query.src) /\ Clear(d, query.dst) =>
                 ~GrantAllows(d, r, query, TRUE)
<1> DEFINE row == ParseRule("grants", r)
           m == Parse(d)
           try == Try(row, m, query, TRUE)
           src == Get(r, "src", << >>)
           dst == Get(r, "dst", << >>)
           from == {k \in DOMAIN src : Meet(d, query.src, src[k], FALSE)}
           to == {k \in DOMAIN dst : Meet(d, query.dst, Whole(dst[k]), FALSE)}
           admits == \E p \in Some(r, "ip") : IpEntryAllows(p, query)
           seen == {src[k] : k \in Upto(src, from)}
                     \cup IF from # {} THEN {Whole(dst[k]) : k \in Upto(dst, to)} ELSE {}
<1>0. admits <=> \E p \in Some(r, "ip") : Open(p.ports, query.port) /\ SameProtocol(p.proto, query.protocol)
  BY ProtoIs, PortsAre DEF IpEntryAllows
<1>1. row.known.src = src /\ row.known.dst = dst /\ row.known.ip = Get(r, "ip", << >>)
  BY FieldsOfRule
<1>2. {k \in DOMAIN src : Covers(Meaning(query.src, m), Meaning(src[k], m))} = from
  BY CoversIs
<1>3. {k \in DOMAIN dst : /\ Covers(Meaning(query.dst, m), Meaning(Whole(dst[k]), m))
                          /\ TRUE \/ PortMatches(dst[k].ports, query.port)} = to
  BY CoversIs
<1>4. try = [allows |-> from # {} /\ to # {} /\ admits,
             notes |-> UNION {Meaning(t, m).notes : t \in seen}]
  <2> HIDE DEF row, m
  <2> DEFINE f == {k \in DOMAIN src : Covers(Meaning(query.src, m), Meaning(src[k], m))}
             g == {k \in DOMAIN dst : /\ Covers(Meaning(query.dst, m), Meaning(Whole(dst[k]), m))
                                      /\ TRUE \/ PortMatches(dst[k].ports, query.port)}
             ip == Get(r, "ip", << >>)
             heard == {src[k] : k \in Upto(src, f)}
                        \cup IF f # {} THEN {Whole(dst[k]) : k \in Upto(dst, g)} ELSE {}
  <2>1. try = [allows |-> f # {} /\ g # {} /\ \E k \in DOMAIN ip : IpEntryAllows(ip[k], query),
               notes |-> UNION {Meaning(t, m).notes : t \in heard}]
    BY <1>1 DEF Try
  <2>2. f = from /\ g = to
    BY <1>2, <1>3
  <2>3. (\E k \in DOMAIN ip : IpEntryAllows(ip[k], query)) <=> admits
    BY DEF Some, Entries
  <2> HIDE DEF f, g, from, to, admits, ip
  <2>4. heard = seen
    BY <2>2
  <2> HIDE DEF heard, seen
  <2> QED
    BY <2>1, <2>2, <2>3, <2>4
<1>5. GrantAllows(d, r, query, FALSE) <=> from # {} /\ to # {} /\ admits
  <2>1. (\E x \in Some(r, "src") : Meet(d, query.src, x, FALSE)) <=> from # {}
    BY DEF Some, Entries
  <2>2. (\E x \in Some(r, "dst") : Meet(d, query.dst, Whole(x), FALSE)) <=> to # {}
    BY DEF Some, Entries
  <2> HIDE DEF from, to
  <2> QED
    BY <2>1, <2>2, <1>0 DEF GrantAllows
<1>6. ASSUME ~try.allows, try.notes = {}, Clear(d, query.src), Clear(d, query.dst),
             GrantAllows(d, r, query, TRUE)
      PROVE  FALSE
  <2>1. admits
    BY <1>0, <1>6 DEF GrantAllows
  <2>2. PICK i \in DOMAIN src : Meet(d, query.src, src[i], TRUE)
    BY <1>6 DEF GrantAllows, Some, Entries
  <2>3. PICK j \in DOMAIN dst : Meet(d, query.dst, Whole(dst[j]), TRUE)
    BY <1>6 DEF GrantAllows, Some, Entries
  <2>4. \A t \in seen : Clear(d, t)
    <3> HIDE DEF seen, from, to, try, admits
    <3>1. try.notes = UNION {Meaning(t, m).notes : t \in seen}
      BY <1>4
    <3> QED
      BY <1>6, <3>1 DEF Clear
  <2>5. from # {}
    <3>1. SUFFICES ASSUME from = {} PROVE FALSE
      OBVIOUS
    <3>2. src[i] \in seen
      BY <3>1 DEF Upto
    <3>3. Meet(d, query.src, src[i], FALSE)
      BY <1>6, <2>2, <2>4, <3>2, ClearIs
    <3> QED
      BY <3>1, <3>3
  <2>6. to # {}
    <3>1. SUFFICES ASSUME to = {} PROVE FALSE
      OBVIOUS
    <3>2. Whole(dst[j]) \in seen
      BY <2>5, <3>1 DEF Upto
    <3>3. Meet(d, query.dst, Whole(dst[j]), FALSE)
      BY <1>6, <2>3, <2>4, <3>2, ClearIs
    <3> QED
      BY <3>1, <3>3
  <2>7. try.allows
    <3> HIDE DEF seen, to, from, try, admits
    <3> QED
      BY <1>4, <2>1, <2>5, <2>6
  <2> QED
    BY <1>6, <2>7
<1>7. try.allows <=> GrantAllows(d, r, query, FALSE)
  <2> HIDE DEF try, seen, from, to, admits
  <2> QED
    BY <1>4, <1>5
<1> QED
  BY <1>6, <1>7

\* The rules of a document are tried one by one.
LEMMA TriesOf ==
  ASSUME NEW d, NEW s \in {"acls", "grants"}, NEW query, NEW isGrant
  PROVE  LET rules == Get(d, s, << >>)
             rows == Parse(d)[s]
         IN /\ DOMAIN rows = DOMAIN rules
            /\ \A i \in DOMAIN rules :
                 Try(rows[i], Parse(d), query, isGrant)
                   = Try(ParseRule(s, rules[i]), Parse(d), query, isGrant)
<1>1. Parse(d)[s] = ParseRules(s, Get(d, s, << >>))
  BY ParseIs DEF RuleSections
<1> QED
  BY <1>1 DEF ParseRules

\* The walk says "allow" when some rule or grant admits the question, and
\* "deny" without a caveat when none could.
LEMMA EvaluateIs ==
  ASSUME NEW d, IsDocument(d), NEW query
  PROVE  LET v == EvaluateReachability(Parse(d), query)
         IN /\ v.decision = "allow" <=> Allows(d, query, FALSE)
            /\ v = [decision |-> "deny", notes |-> {}] => ~Allows(d, query, TRUE)
<1> DEFINE m == Parse(d)
           rules == Get(d, "acls", << >>)
           wishes == Get(d, "grants", << >>)
           acls == [i \in DOMAIN m.acls |-> Try(m.acls[i], m, query, FALSE)]
           grants == [i \in DOMAIN m.grants |-> Try(m.grants[i], m, query, TRUE)]
           hits(tries) == {i \in DOMAIN tries : tries[i].allows}
           met(tries) == UNION {tries[i].notes : i \in Upto(tries, hits(tries))}
           asked == UNION {Meaning(t, m).notes : t \in {query.src, query.dst}}
           v == EvaluateReachability(m, query)
           blank == Nameless \in {query.src, query.dst}
<1>1. v = IF blank THEN [decision |-> "deny", notes |-> {Nameless}]
          ELSE [decision |-> IF hits(acls) \cup hits(grants) = {} THEN "deny" ELSE "allow",
                notes |-> asked \cup met(acls) \cup IF hits(acls) = {} THEN met(grants) ELSE {}]
  BY DEF EvaluateReachability
<1>2. /\ DOMAIN acls = DOMAIN rules
      /\ \A i \in DOMAIN rules : acls[i] = Try(ParseRule("acls", rules[i]), m, query, FALSE)
  <2>1. m.acls = Parse(d)["acls"]
    OBVIOUS
  <2>2. /\ DOMAIN m.acls = DOMAIN rules
        /\ \A i \in DOMAIN rules : Try(m.acls[i], m, query, FALSE)
                                    = Try(ParseRule("acls", rules[i]), m, query, FALSE)
    BY <2>1, TriesOf
  <2> QED
    BY <2>2
<1>3. /\ DOMAIN grants = DOMAIN wishes
      /\ \A i \in DOMAIN wishes : grants[i] = Try(ParseRule("grants", wishes[i]), m, query, TRUE)
  <2>1. m.grants = Parse(d)["grants"]
    OBVIOUS
  <2>2. /\ DOMAIN m.grants = DOMAIN wishes
        /\ \A i \in DOMAIN wishes : Try(m.grants[i], m, query, TRUE)
                                    = Try(ParseRule("grants", wishes[i]), m, query, TRUE)
    BY <2>1, TriesOf
  <2> QED
    BY <2>2
<1> HIDE DEF acls, grants
<1>4. \A i \in DOMAIN rules :
        /\ acls[i].allows <=> AclAllows(d, rules[i], query, FALSE)
        /\ ~acls[i].allows /\ acls[i].notes = {} /\ Clear(d, query.src) /\ Clear(d, query.dst) =>
             ~AclAllows(d, rules[i], query, TRUE)
  <2>1. ASSUME NEW i \in DOMAIN rules
        PROVE  LET try == Try(ParseRule("acls", rules[i]), m, query, FALSE)
               IN /\ try.allows <=> AclAllows(d, rules[i], query, FALSE)
                  /\ ~try.allows /\ try.notes = {} /\ Clear(d, query.src) /\ Clear(d, query.dst) =>
                       ~AclAllows(d, rules[i], query, TRUE)
    BY TryAcl
  <2> HIDE DEF m, rules, wishes
  <2> QED
    BY <1>2, <2>1
<1>5. \A i \in DOMAIN wishes :
        /\ grants[i].allows <=> GrantAllows(d, wishes[i], query, FALSE)
        /\ ~grants[i].allows /\ grants[i].notes = {} /\ Clear(d, query.src) /\ Clear(d, query.dst) =>
             ~GrantAllows(d, wishes[i], query, TRUE)
  <2>1. ASSUME NEW i \in DOMAIN wishes
        PROVE  LET try == Try(ParseRule("grants", wishes[i]), m, query, TRUE)
               IN /\ try.allows <=> GrantAllows(d, wishes[i], query, FALSE)
                  /\ ~try.allows /\ try.notes = {} /\ Clear(d, query.src) /\ Clear(d, query.dst) =>
                       ~GrantAllows(d, wishes[i], query, TRUE)
    BY TryGrant
  <2> HIDE DEF m, rules, wishes
  <2> QED
    BY <1>3, <2>1
<1>6. hits(acls) # {} <=> \E i \in DOMAIN rules : AclAllows(d, rules[i], query, FALSE)
  BY <1>2, <1>4
<1>7. hits(grants) # {} <=> \E i \in DOMAIN wishes : GrantAllows(d, wishes[i], query, FALSE)
  BY <1>3, <1>5
<1>8. v.decision = "allow" <=> ~blank /\ (hits(acls) # {} \/ hits(grants) # {})
  <2> HIDE DEF v, hits, met, asked, blank
  <2> QED
    BY <1>1
<1>9. \A loosely : Allows(d, query, loosely) <=>
        /\ ~blank
        /\ \/ \E i \in DOMAIN rules : AclAllows(d, rules[i], query, loosely)
           \/ \E i \in DOMAIN wishes : GrantAllows(d, wishes[i], query, loosely)
  BY DEF Allows, Some, Entries
<1>10. v.decision = "allow" <=> Allows(d, query, FALSE)
  <2> HIDE DEF v, hits, blank
  <2> QED
    BY <1>6, <1>7, <1>8, <1>9
<1>11. ASSUME v = [decision |-> "deny", notes |-> {}], Allows(d, query, TRUE) PROVE FALSE
  <2>1. ~blank
    BY <1>9, <1>11
  <2>2. hits(acls) = {} /\ hits(grants) = {}
    <3> HIDE DEF v, hits, blank
    <3> QED
      BY <1>8, <1>11, <2>1
  <2>3. asked = {} /\ met(acls) = {} /\ met(grants) = {}
    <3> HIDE DEF v, hits, blank, asked, met
    <3> QED
      BY <1>1, <1>11, <2>1, <2>2
  <2>4. Clear(d, query.src) /\ Clear(d, query.dst)
    BY <2>3 DEF Clear
  <2>5. \A i \in DOMAIN rules : acls[i].notes = {} /\ ~acls[i].allows
    <3>1. Upto(acls, hits(acls)) = DOMAIN rules
      BY <1>2, <2>2 DEF Upto
    <3> QED
      BY <1>2, <2>2, <2>3, <3>1
  <2>6. \A i \in DOMAIN wishes : grants[i].notes = {} /\ ~grants[i].allows
    <3>1. Upto(grants, hits(grants)) = DOMAIN wishes
      BY <1>3, <2>2 DEF Upto
    <3> QED
      BY <1>3, <2>2, <2>3, <3>1
  <2> QED
    BY <1>4, <1>5, <1>9, <1>11, <2>4, <2>5, <2>6
<1> QED
  BY <1>10, <1>11 DEF v, m

-----------------------------------------------------------------------------
(* The texts of a question: AskedHolds says that every text a question was *)
(* put to, was saved as, or could become that by an answer still awaited,  *)
(* is one JSON.parse accepts.                                              *)

AskedHolds ==
  /\ \A text \in wasLive : IsDocument(DocumentOf(text))
  /\ pending # NoSave => IsDocument(DocumentOf(pending.text))
  /\ test # Null => IsDocument(DocumentOf(test.saved)) /\ IsDocument(DocumentOf(test.edited))

LEMMA AskedStart ==
  ASSUME BuilderInit
  PROVE  AskedHolds
<1>1. /\ session \in Session /\ policy \in session.documents
      /\ wasLive = {policy} /\ pending = NoSave /\ test = Null
  BY DEF BuilderInit, EditorInit
<1>2. IsDocument(DocumentOf(policy))
  BY <1>1, SessionAssumption
<1> QED
  BY <1>1, <1>2 DEF AskedHolds

\* A question is put to the text and the baseline, the text is sent and the
\* baseline is among what was live.
LEMMA AskedStep ==
  ASSUME TextHolds, BaselineHolds, AskedHolds, EditorStep
  PROVE  AskedHolds'
<1>1. /\ session \in Session /\ IsDocument(DocumentOf(value)) /\ savedValue \in wasLive
      /\ \A text \in wasLive : IsDocument(DocumentOf(text))
      /\ pending # NoSave => IsDocument(DocumentOf(pending.text))
      /\ test # Null => IsDocument(DocumentOf(test.saved)) /\ IsDocument(DocumentOf(test.edited))
  BY DEF TextHolds, BaselineHolds, AskedHolds
<1>2. ASSUME UNCHANGED <<pending, wasLive>>, test' \in {test, Null} PROVE AskedHolds'
  BY <1>1, <1>2 DEF AskedHolds
<1>3. CASE Edits
  BY <1>2, <1>3 DEF Edits, OnModelChange
<1>4. CASE Types
  BY <1>2, <1>4 DEF Types, OnJsonChange
<1>5. CASE Browse
  <2>1. ASSUME NEW next \in Tab, SelectTab(next) PROVE AskedHolds'
    BY <1>2, <2>1 DEF SelectTab, Leave
  <2>2. ASSUME NEW text \in session.stored,
               LoadRevision(text) \/ RevisionArrives(text) \/ RevisionLost(text)
        PROVE  AskedHolds'
    BY <1>2, <2>2 DEF LoadRevision, RevisionArrives, RevisionLost, Leave
  <2>3. ASSUME NEW query \in session.questions, Ask(query) PROVE AskedHolds'
    <3>1. /\ UNCHANGED <<pending, wasLive>>
          /\ test'.saved = savedValue /\ test'.edited = value
      BY <2>3 DEF Ask
    <3> QED
      BY <1>1, <3>1 DEF AskedHolds
  <2> QED
    BY <1>5, <2>1, <2>2, <2>3 DEF Browse
<1>6. ASSUME NEW loaded \in session.others, OthersSave(loaded) PROVE AskedHolds'
  <2>1. IsDocument(DocumentOf(loaded))
    BY <1>1, SessionAssumption
  <2>2. UNCHANGED <<pending, test>> /\ wasLive' = wasLive \cup {loaded}
    BY <1>6 DEF OthersSave, Live, workbench
  <2> QED
    BY <1>1, <2>1, <2>2 DEF AskedHolds
<1>7. CASE UNCHANGED editorVars
  BY <1>2, <1>7 DEF editorVars, workbench
<1>8. CASE Commit
  <2>1. pending'.text = value /\ UNCHANGED <<test, wasLive>>
    BY <1>8 DEF Commit
  <2> QED
    BY <1>1, <2>1 DEF AskedHolds
<1>9. CASE Accepted
  <2>1. /\ wasLive' = wasLive \cup {pending.text} /\ pending.at = "sent"
        /\ pending' = [pending EXCEPT !.at = "accepted"] /\ test' = test
    BY <1>9 DEF Accepted, Live
  <2>2. pending # NoSave /\ pending'.text = pending.text
    BY <2>1 DEF NoSave, BaselineHolds
  <2> QED
    BY <1>1, <2>1, <2>2 DEF AskedHolds
<1>10. CASE SaveSucceeds \/ SaveFails
  <2>1. pending' = NoSave /\ UNCHANGED <<test, wasLive>>
    BY <1>10 DEF SaveSucceeds, SaveFails
  <2> QED
    BY <1>1, <2>1 DEF AskedHolds
<1>11. CASE Rerender
  BY <1>2, <1>11 DEF Rerender
<1> QED
  BY <1>3, <1>4, <1>5, <1>6, <1>7, <1>8, <1>9, <1>10, <1>11 DEF EditorStep, Save

LEMMA AskedStays ==
  ASSUME BuilderInvariant, AskedHolds, [BuilderNext]_builderVars
  PROVE  AskedHolds'
<1>1. TextHolds /\ FieldsHold /\ BaselineHolds
  BY DEF BuilderInvariant
<1>2. EditorStep
  BY <1>1, BuilderSteps
<1> QED
  BY <1>1, <1>2, AskedStep

LEMMA TestedAreDocuments ==
  ASSUME AskedHolds, NEW text \in Tested
  PROVE  IsDocument(DocumentOf(text))
<1>1. test # Null /\ text \in {test.saved, test.edited}
  BY DEF Tested
<1> QED
  BY <1>1 DEF AskedHolds

\* Every text a question is put to is one the evaluator reads.
THEOREM AskedInvariance == BuilderSpec => []AskedHolds
<1>1. BuilderInit => AskedHolds
  BY AskedStart
<1>2. BuilderInvariant /\ AskedHolds /\ [BuilderNext]_<<editorVars, fieldVars>> => AskedHolds'
  BY AskedStays DEF builderVars
<1> QED
  BY <1>1, <1>2, BuilderInvariance, PTL DEF BuilderSpec

\* The Test tab says "allow" exactly when some rule or grant of the text admits
\* the question by what its groups and aliases stand for and by the addresses
\* themselves, in every session (evaluateReachability of lib/policy/eval.ts).
THEOREM VerdictsAreTheReference == BuilderSpec => []VerdictIsReference
<1>1. AskedHolds => VerdictIsReference
  BY TestedAreDocuments, EvaluateIs DEF VerdictIsReference, Verdict
<1> QED
  BY <1>1, AskedInvariance, PTL

\* A denial that comes without a caveat is final: no reading of what the
\* evaluator does not model would have a rule admit the question.
THEOREM DenialsWithoutCaveatAreFinal == BuilderSpec => []CaveatsAreComplete
<1>1. AskedHolds => CaveatsAreComplete
  BY TestedAreDocuments, EvaluateIs DEF CaveatsAreComplete, Verdict
<1> QED
  BY <1>1, AskedInvariance, PTL

-----------------------------------------------------------------------------
(* The calls of expand: WalkHolds says that what is read and what is still *)
(* to be read are among what the selector leads to, with all that what is  *)
(* read leads on to, and that what has been merged is what is read.        *)

Met == read \cup Entries(stack)

WalkHolds ==
  /\ \E d \in Documents : given = Parse(d)
  /\ IsList(stack)
  /\ seenGroups \subseteq read
  /\ selector # Null => selector \in Met
  /\ Met \subseteq Reach(selector, Links(given))
  /\ \A t \in read \ {Nameless} : Entries(Onward(t, given)) \subseteq Met
  /\ out = MergeAll({Leaf(t, Aliases(given)) : t \in read \ {Nameless}})

LEMMA FewAreLists == IsList(<< >>) /\ \A x : IsList(<<x>>)
<1>1. << >> \in Seq({}) /\ \A x : <<x>> \in Seq({x})
  OBVIOUS
<1> QED
  BY <1>1, ListIs

LEMMA EmptyMerge == MergeAll({}) = Nothing
  BY DEF MergeAll, Nothing

\* Merging one more.
LEMMA MergeOneMore ==
  ASSUME NEW parts, NEW x
  PROVE  MergeAll({MergeAll(parts), x}) = MergeAll(parts \cup {x})
<1> DEFINE m == MergeAll(parts)
<1>1. /\ m.wildcard <=> \E y \in parts : y.wildcard
      /\ m.atoms = UNION {y.atoms : y \in parts}
      /\ m.nets = UNION {y.nets : y \in parts}
      /\ m.notes = UNION {y.notes : y \in parts}
  BY DEF MergeAll
<1> HIDE DEF m
<1>2. (\E y \in {m, x} : y.wildcard) <=> (\E y \in parts \cup {x} : y.wildcard)
  BY <1>1
<1>3. UNION {y.atoms : y \in {m, x}} = UNION {y.atoms : y \in parts \cup {x}}
  BY <1>1
<1>4. UNION {y.nets : y \in {m, x}} = UNION {y.nets : y \in parts \cup {x}}
  BY <1>1
<1>5. UNION {y.notes : y \in {m, x}} = UNION {y.notes : y \in parts \cup {x}}
  BY <1>1
<1>6. MergeAll({m, x}) = MergeAll(parts \cup {x})
  BY <1>2, <1>3, <1>4, <1>5 DEF MergeAll
<1> QED
  BY <1>6 DEF m

LEMMA MergeNothing ==
  ASSUME NEW parts
  PROVE  MergeAll({MergeAll(parts), Nothing}) = MergeAll(parts)
<1>1. ~Nothing.wildcard /\ Nothing.atoms = {} /\ Nothing.nets = {} /\ Nothing.notes = {}
  BY DEF Nothing
<1>2. /\ (\E y \in parts \cup {Nothing} : y.wildcard) <=> (\E y \in parts : y.wildcard)
      /\ UNION {y.atoms : y \in parts \cup {Nothing}} = UNION {y.atoms : y \in parts}
      /\ UNION {y.nets : y \in parts \cup {Nothing}} = UNION {y.nets : y \in parts}
      /\ UNION {y.notes : y \in parts \cup {Nothing}} = UNION {y.notes : y \in parts}
  BY <1>1
<1>3. MergeAll(parts \cup {Nothing}) = MergeAll(parts)
  BY <1>2 DEF MergeAll
<1> QED
  BY <1>3, MergeOneMore

\* The head of a list is taken and others are put before the rest.
LEMMA TakenList ==
  ASSUME NEW list, IsList(list), list # << >>, NEW others, IsList(others)
  PROVE  /\ IsList(others \o Tail(list))
         /\ Entries(list) = {Head(list)} \cup Entries(Tail(list))
         /\ Entries(others \o Tail(list)) = Entries(others) \cup Entries(Tail(list))
<1>1. list \in Seq(Range(list)) /\ others \in Seq(Range(others))
  BY DEF IsList
<1> DEFINE S == Range(list) \cup Range(others)
<1>2. list \in Seq(S) /\ others \in Seq(S)
  <2>1. Range(list) \subseteq S /\ Range(others) \subseteq S
    OBVIOUS
  <2> HIDE DEF S
  <2> QED
    BY <1>1, <2>1, SeqMonotonic
<1> HIDE DEF S
<1>3. Tail(list) \in Seq(S) /\ Len(Tail(list)) = Len(list) - 1 /\ Len(list) \in Nat /\ Len(list) >= 1
  BY <1>2
<1>4. others \o Tail(list) \in Seq(S)
  BY <1>2, <1>3
<1>5. IsList(others \o Tail(list))
  BY <1>4, ListIs
<1>6. Entries(list) = {Head(list)} \cup Entries(Tail(list))
  <2>1. DOMAIN list = 1 .. Len(list) /\ DOMAIN Tail(list) = 1 .. Len(list) - 1
    BY <1>2, <1>3
  <2>2. Head(list) = list[1] /\ \A k \in DOMAIN Tail(list) : Tail(list)[k] = list[k + 1]
    BY <1>2, <1>3
  <2>3. ASSUME NEW k \in DOMAIN list, k # 1 PROVE k - 1 \in DOMAIN Tail(list) /\ Tail(list)[k - 1] = list[k]
    <3>1. k - 1 \in DOMAIN Tail(list) /\ (k - 1) + 1 = k
      BY <1>3, <2>1, <2>3
    <3> QED
      BY <2>2, <3>1
  <2>4. \A k \in DOMAIN Tail(list) : k + 1 \in DOMAIN list
    BY <1>3, <2>1
  <2>5. 1 \in DOMAIN list
    BY <1>3, <2>1
  <2> DEFINE first == Head(list)
             rest == Tail(list)
  <2>6. first = list[1] /\ \A k \in DOMAIN rest : rest[k] = list[k + 1]
    BY <2>2
  <2>7. \A k \in DOMAIN list : k # 1 => k - 1 \in DOMAIN rest /\ rest[k - 1] = list[k]
    BY <2>3
  <2>8. \A k \in DOMAIN rest : k + 1 \in DOMAIN list
    BY <2>4
  <2> HIDE DEF first, rest
  <2>9. \A x \in Entries(list) : x \in {first} \cup Entries(rest)
    BY <2>6, <2>7 DEF Entries
  <2>10. \A x \in {first} \cup Entries(rest) : x \in Entries(list)
    BY <2>5, <2>6, <2>8 DEF Entries
  <2>11. Entries(list) = {first} \cup Entries(rest)
    BY <2>9, <2>10
  <2> QED
    BY <2>11 DEF first, rest
<1>7. Entries(others \o Tail(list)) = Entries(others) \cup Entries(Tail(list))
  <2> DEFINE rest == Tail(list)
             all == others \o rest
  <2>1. rest \in Seq(S)
    BY <1>3
  <2> HIDE DEF rest
  <2>2. /\ DOMAIN all = 1 .. Len(others) + Len(rest)
        /\ DOMAIN others = 1 .. Len(others) /\ DOMAIN rest = 1 .. Len(rest)
        /\ Len(others) \in Nat /\ Len(rest) \in Nat
        /\ \A k \in DOMAIN all :
             all[k] = IF k <= Len(others) THEN others[k] ELSE rest[k - Len(others)]
    BY <1>2, <2>1
  <2> HIDE DEF all
  <2>3. ASSUME NEW k \in DOMAIN all PROVE all[k] \in Entries(others) \cup Entries(rest)
    <3>1. CASE k <= Len(others)
      BY <2>2, <3>1 DEF Entries
    <3>2. CASE ~(k <= Len(others))
      <4>1. k - Len(others) \in DOMAIN rest
        BY <2>2, <3>2
      <4> QED
        BY <2>2, <3>2, <4>1 DEF Entries
    <3> QED
      BY <3>1, <3>2
  <2>4. ASSUME NEW k \in DOMAIN others PROVE k \in DOMAIN all /\ all[k] = others[k]
    BY <2>2, <2>4
  <2>5. ASSUME NEW k \in DOMAIN rest
        PROVE  k + Len(others) \in DOMAIN all /\ all[k + Len(others)] = rest[k]
    <3>1. k + Len(others) \in DOMAIN all /\ ~(k + Len(others) <= Len(others))
          /\ (k + Len(others)) - Len(others) = k
      BY <2>2
    <3> QED
      BY <2>2, <3>1
  <2>6. Entries(all) = Entries(others) \cup Entries(rest)
    BY <2>3, <2>4, <2>5 DEF Entries
  <2> QED
    BY <2>6 DEF all, rest
<1> QED
  BY <1>5, <1>6, <1>7

\* What a token of a policy leads on to is a list.
LEMMA OnwardIsList ==
  ASSUME NEW d \in Documents, NEW t, t # Nameless
  PROVE  IsList(Onward(t, Parse(d)))
<1>1. IsDocument(d)
  BY WalkAssumption
<1>2. IsList(<< >>) /\ \A x : IsList(<<x>>)
  BY FewAreLists
<1>3. CASE t \in GroupsOf(d)
  <2>1. Onward(t, Parse(d)) = d.groups[t]
    BY <1>1, <1>3, OnwardIs
  <2>2. t \in DOMAIN Get(d, "groups", NoObject)
    BY <1>3 DEF GroupsOf
  <2> QED
    BY <2>1, <2>2, WalkAssumption
<1>4. CASE t \in AliasesOf(d)
  <2>1. Onward(t, Parse(d)) = IF d.hosts[t] = Nameless THEN << >> ELSE <<d.hosts[t]>>
    BY <1>1, <1>4, OnwardIs
  <2> QED
    BY <1>2, <2>1
<1>5. CASE t \notin GroupsOf(d) \cup AliasesOf(d)
  <2>1. Onward(t, Parse(d)) = << >>
    BY <1>1, <1>5, OnwardIs
  <2> QED
    BY <1>2, <2>1
<1> QED
  BY <1>3, <1>4, <1>5

LEMMA WalkStart ==
  ASSUME WalkInit
  PROVE  WalkHolds
<1>1. /\ \E d \in Documents : given = Parse(d)
      /\ selector = Null /\ stack = << >> /\ seenGroups = {} /\ out = Nothing /\ read = {}
  BY DEF WalkInit
<1>2. IsList(stack) /\ Entries(stack) = {}
  BY <1>1, FewAreLists, EntriesOfFew
<1>3. {Leaf(t, Aliases(given)) : t \in read \ {Nameless}} = {}
  BY <1>1
<1> QED
  BY <1>1, <1>2, <1>3, EmptyMerge DEF WalkHolds, Met

LEMMA ExpandHolds ==
  ASSUME WalkHolds, NEW t, Expand(t)
  PROVE  WalkHolds'
<1>1. /\ stack' = <<t>> /\ selector' = t /\ seenGroups' = {} /\ out' = Nothing /\ read' = {}
      /\ given' = given /\ \E d \in Documents : given = Parse(d)
  BY DEF Expand, WalkHolds
<1>2. IsList(<<t>>) /\ Entries(<<t>>) = {t}
  BY FewAreLists, EntriesOfFew
<1>3. t \in Reach(t, Links(given))
  BY ReachHolds
<1>4. {Leaf(u, Aliases(given)) : u \in read' \ {Nameless}} = {}
  BY <1>1
<1>5. Met' = {t}
  BY <1>1, <1>2 DEF Met
<1> QED
  BY <1>1, <1>2, <1>3, <1>4, <1>5, EmptyMerge DEF WalkHolds

\* Reading the top: what it says is its leaf, and what it leads on to is
\* put on the stack or was met before.
LEMMA TakeHolds ==
  ASSUME WalkHolds, stack # << >>, NEW says, NEW others, IsList(others), Take(says, others),
         seenGroups' \subseteq read',
         Top = Nameless => says = Nothing /\ others = << >>,
         Top # Nameless => /\ says = Leaf(Top, Aliases(given))
                           /\ Entries(others) \subseteq Entries(Onward(Top, given))
                           /\ Entries(Onward(Top, given)) \subseteq Met \cup Entries(others)
  PROVE  WalkHolds'
<1>1. PICK d \in Documents : given = Parse(d)
  BY DEF WalkHolds
<1>2. /\ out' = MergeAll({out, says}) /\ stack' = others \o Tail(stack)
      /\ read' = read \cup {Top} /\ given' = given /\ selector' = selector
  BY DEF Take
<1>3. /\ IsList(stack') /\ Entries(stack) = {Top} \cup Entries(Tail(stack))
      /\ Entries(stack') = Entries(others) \cup Entries(Tail(stack))
  BY <1>2, TakenList DEF WalkHolds, Top
<1>4. Met' = Met \cup Entries(others)
  <2>1. Met' = read' \cup Entries(stack')
    BY DEF Met
  <2> QED
    BY <1>2, <1>3, <2>1 DEF Met
<1>5. Top \in Met
  BY <1>3 DEF Met
<1>6. Met' \subseteq Reach(selector', Links(given'))
  <2>1. Met \subseteq Reach(selector, Links(given))
    BY DEF WalkHolds
  <2>2. CASE Top = Nameless
    BY <1>2, <1>4, <2>1, <2>2, EntriesOfFew
  <2>3. CASE Top # Nameless
    <3>1. Entries(others) \subseteq After(Top, Links(given))
      BY <1>1, <2>3, LinksAreWritten, WalkAssumption
    <3>2. After(Top, Links(given)) \subseteq Reach(selector, Links(given))
      BY <1>5, <2>1, ReachHolds
    <3> QED
      BY <1>2, <1>4, <2>1, <3>1, <3>2
  <2> QED
    BY <2>2, <2>3
<1>7. ASSUME NEW t \in read' \ {Nameless} PROVE Entries(Onward(t, given')) \subseteq Met'
  BY <1>2, <1>4, <1>7 DEF WalkHolds
<1>8. out' = MergeAll({Leaf(t, Aliases(given')) : t \in read' \ {Nameless}})
  <2> DEFINE parts == {Leaf(t, Aliases(given)) : t \in read \ {Nameless}}
             more == {Leaf(t, Aliases(given)) : t \in read' \ {Nameless}}
  <2>1. out = MergeAll(parts)
    BY DEF WalkHolds
  <2>2. CASE Top = Nameless
    <3>1. read' \ {Nameless} = read \ {Nameless}
      BY <1>2, <2>2
    <3>2. more = parts
      BY <3>1
    <3> HIDE DEF parts, more
    <3>3. out' = MergeAll(more)
      BY <1>2, <2>1, <2>2, <3>2, MergeNothing
    <3> QED
      BY <1>2, <3>3 DEF more
  <2>3. CASE Top # Nameless
    <3>1. more = parts \cup {says}
      BY <1>2, <2>3
    <3> HIDE DEF parts, more
    <3>2. out' = MergeAll(more)
      BY <1>2, <2>1, <3>1, MergeOneMore
    <3> QED
      BY <1>2, <3>2 DEF more
  <2> QED
    BY <2>2, <2>3
<1>9. selector' # Null => selector' \in Met'
  BY <1>2, <1>4 DEF WalkHolds
<1> QED
  BY <1>1, <1>2, <1>3, <1>6, <1>7, <1>8, <1>9 DEF WalkHolds

LEMMA ReadOnHolds ==
  ASSUME WalkHolds, ReadOn
  PROVE  WalkHolds'
<1>1. PICK d \in Documents : given = Parse(d)
  BY DEF WalkHolds
<1>2. IsList(<< >>) /\ Entries(<< >>) = {}
  BY FewAreLists, EntriesOfFew
<1>3. seenGroups \subseteq read
  BY DEF WalkHolds
<1>4. CASE ReadBlank
  <2>1. stack # << >> /\ Top = Nameless /\ Take(Nothing, << >>) /\ seenGroups' = seenGroups
    BY <1>4 DEF ReadBlank
  <2>2. read' = read \cup {Top}
    BY <2>1 DEF Take
  <2> QED
    BY <1>2, <1>3, <2>1, <2>2, TakeHolds
<1>5. CASE ReadSeen
  <2>1. /\ stack # << >> /\ Top # Nameless /\ Top \in seenGroups /\ seenGroups' = seenGroups
        /\ Take(Leaf(Top, Aliases(given)), << >>)
    BY <1>5 DEF ReadSeen, Reading
  <2>2. read' = read \cup {Top}
    BY <2>1 DEF Take
  <2>3. Entries(Onward(Top, given)) \subseteq Met
    BY <1>3, <2>1 DEF WalkHolds
  <2> QED
    BY <1>2, <1>3, <2>1, <2>2, <2>3, TakeHolds
<1>6. CASE ReadGroup
  <2>1. /\ stack # << >> /\ Top # Nameless /\ seenGroups' = seenGroups \cup {Top}
        /\ Take(Leaf(Top, Aliases(given)), Onward(Top, given))
    BY <1>6 DEF ReadGroup, Reading
  <2>2. read' = read \cup {Top}
    BY <2>1 DEF Take
  <2>3. IsList(Onward(Top, given))
    BY <1>1, <2>1, OnwardIsList
  <2> QED
    BY <1>3, <2>1, <2>2, <2>3, TakeHolds
<1>7. CASE ReadAlias
  <2>1. /\ stack # << >> /\ Top # Nameless /\ Kind = "host" /\ seenGroups' = seenGroups
        /\ Take(Nothing, Onward(Top, given))
    BY <1>7 DEF ReadAlias, Reading
  <2>2. read' = read \cup {Top}
    BY <2>1 DEF Take
  <2>3. IsList(Onward(Top, given))
    BY <1>1, <2>1, OnwardIsList
  <2>4. Leaf(Top, Aliases(given)) = Nothing
    BY <2>1 DEF Leaf, Kind
  <2> QED
    BY <1>3, <2>1, <2>2, <2>3, <2>4, TakeHolds
<1>8. CASE ReadOther
  <2>1. /\ stack # << >> /\ Top # Nameless /\ seenGroups' = seenGroups
        /\ Kind # "group" /\ Kind # "host"
        /\ Take(Leaf(Top, Aliases(given)), << >>)
    BY <1>8 DEF ReadOther, Reading
  <2>2. read' = read \cup {Top}
    BY <2>1 DEF Take
  <2>3. Onward(Top, given) = << >>
    BY <2>1 DEF Onward, Kind
  <2> QED
    BY <1>2, <1>3, <2>1, <2>2, <2>3, TakeHolds
<1> QED
  BY <1>4, <1>5, <1>6, <1>7, <1>8 DEF ReadOn

LEMMA WalkStays ==
  ASSUME WalkHolds, [WalkNext]_walkVars
  PROVE  WalkHolds'
<1>1. CASE UNCHANGED walkVars
  BY <1>1 DEF walkVars, WalkHolds, Met
<1> QED
  BY <1>1, ReadOnHolds, ExpandHolds DEF WalkNext

\* When nothing is left to read, all that the selector leads to has been.
LEMMA WalkEnds ==
  ASSUME WalkHolds
  PROVE  WalkIsMeaning
<1> SUFFICES ASSUME stack = << >>, selector # Null PROVE out = Meaning(selector, given)
  BY DEF WalkIsMeaning
<1>1. PICK d \in Documents : given = Parse(d)
  BY DEF WalkHolds
<1>2. Met = read
  BY EntriesOfFew DEF Met
<1>3. \A t \in read : After(t, Links(given)) \subseteq read
  <2>1. ASSUME NEW t \in read, t # Nameless PROVE After(t, Links(given)) \subseteq read
    <3>1. After(t, Links(given)) = Entries(Onward(t, given))
      BY <1>1, <2>1, LinksAreWritten, WalkAssumption
    <3> QED
      BY <1>2, <2>1, <3>1 DEF WalkHolds
  <2>2. After(Nameless, Links(given)) = {}
    BY DEF After, Links, Names, Aliases
  <2> QED
    BY <2>1, <2>2
<1>4. Reach(selector, Links(given)) = read
  <2>1. selector \in read /\ read \subseteq Reach(selector, Links(given))
    BY <1>2 DEF WalkHolds
  <2> QED
    BY <1>3, <2>1, ReachLeast
<1> QED
  BY <1>4 DEF WalkHolds, Meaning

\* However groups contain each other and in whatever order they are read, expand
\* returns what the selector stands for, in any policy (lib/policy/eval.ts).
THEOREM ExpandIsMeaning == WalkSpec => []WalkIsMeaning
<1>1. WalkInit => WalkHolds
  BY WalkStart
<1>2. WalkHolds /\ [WalkNext]_walkVars => WalkHolds'
  BY WalkStays
<1>3. WalkHolds => WalkIsMeaning
  BY WalkEnds
<1> QED
  BY <1>1, <1>2, <1>3, PTL DEF WalkSpec

-----------------------------------------------------------------------------
(* The bench                                                               *)

\* A behaviour of the bench is one of the workbench and one of the walk, so every
\* theorem about either is one about the bench (testReachability's evaluation is
\* synchronous, app/(app)/access/actions.ts).
THEOREM BenchIsItsParts == BenchSpec => BuilderSpec /\ WalkSpec
<1>1. BenchInit => BuilderInit /\ WalkInit
  BY Zenon DEF BenchInit
<1>2. ASSUME [BenchNext]_benchVars
      PROVE  [BuilderNext]_<<editorVars, fieldVars>> /\ [WalkNext]_walkVars
  BY <1>2, Zenon DEF BenchNext, benchVars
<1> QED
  BY <1>1, <1>2, PTL DEF BenchSpec, BuilderSpec, WalkSpec
=============================================================================
