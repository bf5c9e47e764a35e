--------------------------- MODULE AccountsProofs ---------------------------
(***************************************************************************)
(* Theorems about Accounts for every number of accounts, browsers and      *)
(* instances, and, for a single instance, that an owner always remains.    *)
(***************************************************************************)
EXTENDS Accounts, TLAPS

-----------------------------------------------------------------------------
(* Requests: every action replaces one request by a well-formed one.       *)

Moves(b) == \E q \in Request : RequestOK(q) /\ Become(b, q)

LEMMA IdleOK == Idle \in Request /\ RequestOK(Idle)
  BY DEF Idle, Request, RequestOK, OffThread, OnThread, Ops

LEMMA MovesKeepType ==
  ASSUME TypeOK, NEW b \in Browser, Moves(b)
  PROVE  req' \in [Browser -> Request] /\ \A c \in Browser : RequestOK(req'[c])
<1>1. PICK q \in Request : RequestOK(q) /\ req' = [req EXCEPT ![b] = q]
  BY DEF Moves, Become
<1> QED
  BY <1>1 DEF TypeOK

LEMMA FinishMoves == ASSUME NEW b \in Browser, Finish(b) PROVE Moves(b)
  BY IdleOK DEF Finish, Moves

\* A request that goes on, and one that has read a role besides.
LEMMA GoneOn ==
  ASSUME NEW q \in Request, NEW pc \in OnThread \cup OffThread
  PROVE  /\ [q EXCEPT !.pc = pc] \in Request
         /\ \A s \in Roles : [q EXCEPT !.pc = pc, !.seen = s] \in Request
<1>1. [q EXCEPT !.pc = pc] \in Request
  BY DEF Request
<1>2. ASSUME NEW s \in Roles PROVE [q EXCEPT !.pc = pc, !.seen = s] \in Request
  BY <1>2 DEF Request
<1> QED
  BY <1>1, <1>2

LEMMA LoginMoves ==
  ASSUME TypeOK, NEW b \in Browser, Login(b)
  PROVE  Moves(b)
<1>0. req[b] \in Request /\ RequestOK(req[b])
  BY DEF TypeOK
<1>1. CASE \E i \in Instance, s \in Subject : CompleteLogin(b, i, s)
  <2>1. PICK i \in Instance, s \in Subject : CompleteLogin(b, i, s)
    BY <1>1
  <2> DEFINE q == [Idle EXCEPT !.pc = "find", !.at = i, !.op = "login", !.who = s,
                               !.ownerSeen = (Owners # {})]
  <2>2. (Owners # {}) \in BOOLEAN
    OBVIOUS
  <2>3. q \in Request
    BY <2>2 DEF Idle, Request, OnThread, Ops
  <2>4. RequestOK(q)
    BY DEF Idle, RequestOK
  <2>5. Become(b, q)
    BY <2>1 DEF CompleteLogin
  <2> HIDE DEF q
  <2> QED
    BY <2>3, <2>4, <2>5 DEF Moves
<1>2. CASE FindAccount(b)
  <2>1. CASE Goto(b, "create")
    <3> DEFINE q == [req[b] EXCEPT !.pc = "create"]
    <3>1. q \in Request
      BY <1>0, GoneOn DEF OnThread
    <3>2. req[b].pc = "find"
      BY <1>2 DEF FindAccount
    <3>3. q.pc = "create" /\ q.at = req[b].at /\ q.who = req[b].who /\ q.op = req[b].op
          /\ q.target = req[b].target
      BY <1>0 DEF Request
    <3>4. RequestOK(q)
      BY <1>0, <3>2, <3>3 DEF RequestOK
    <3>5. Become(b, q)
      BY <2>1 DEF Goto
    <3> HIDE DEF q
    <3> QED
      BY <3>1, <3>4, <3>5 DEF Moves
  <2>2. CASE \E a \in Live :
               Become(b, [req[b] EXCEPT !.pc = "refresh", !.me = a, !.seen = role[a]])
    <3>1. PICK a \in Live :
                 Become(b, [req[b] EXCEPT !.pc = "refresh", !.me = a, !.seen = role[a]])
      BY <2>2
    <3>2. a \in Account /\ role[a] \in Roles
      BY DEF TypeOK, TablesOK, Live
    <3>3. [req[b] EXCEPT !.pc = "refresh", !.me = a, !.seen = role[a]] \in Request
      BY <1>0, <3>2 DEF Request, OnThread
    <3>4. RequestOK([req[b] EXCEPT !.pc = "refresh", !.me = a, !.seen = role[a]])
      BY <1>0, <1>2, <3>2 DEF FindAccount, Request, RequestOK
    <3> QED
      BY <3>1, <3>3, <3>4 DEF Moves
  <2> QED
    BY <1>2, <2>1, <2>2 DEF FindAccount
<1>3. CASE RefreshAccount(b)
  <2>1. CASE Goto(b, "open")
    BY <1>0, <1>3, <2>1 DEF RefreshAccount, Goto, Request, RequestOK, OnThread, Moves
  <2> QED
    BY <1>3, <2>1, FinishMoves DEF RefreshAccount
<1>4. CASE CreateAccount(b)
  <2>1. CASE InsertAccount(b)
    <3>1. PICK a \in Account : Become(b, [req[b] EXCEPT !.pc = "open", !.me = a])
      BY <2>1 DEF InsertAccount
    <3>2. [req[b] EXCEPT !.pc = "open", !.me = a] \in Request
      BY <1>0 DEF Request, OnThread
    <3>3. RequestOK([req[b] EXCEPT !.pc = "open", !.me = a])
      BY <1>0, <1>4 DEF CreateAccount, Request, RequestOK
    <3> QED
      BY <3>1, <3>2, <3>3 DEF Moves
  <2> QED
    BY <1>4, <2>1, FinishMoves DEF CreateAccount
<1>5. CASE OpenSession(b)
  <2>1. CASE \E x \in Session : Become(b, [req[b] EXCEPT !.pc = "sign", !.sid = x])
    <3>1. PICK x \in Session : Become(b, [req[b] EXCEPT !.pc = "sign", !.sid = x])
      BY <2>1
    <3>2. [req[b] EXCEPT !.pc = "sign", !.sid = x] \in Request
      BY <1>0 DEF Request, OffThread
    <3>3. RequestOK([req[b] EXCEPT !.pc = "sign", !.sid = x])
      BY <1>0, <1>5 DEF OpenSession, Request, RequestOK
    <3> QED
      BY <3>1, <3>2, <3>3 DEF Moves
  <2> QED
    BY <1>5, <2>1, FinishMoves DEF OpenSession
<1>6. CASE SetCookie(b)
  BY <1>6, FinishMoves DEF SetCookie
<1> QED
  BY <1>1, <1>2, <1>3, <1>4, <1>5, <1>6 DEF Login

LEMMA LoadSessionMoves ==
  ASSUME TypeOK, NEW b \in Browser, NEW i \in Instance, NEW op \in Ops,
         NEW t \in Account \cup Session \cup {None}, NEW r \in RoleInput \cup {None},
         op \in {"role", "remove"} => t \in Account, LoadSession(b, i, op, t, r)
  PROVE  Moves(b)
<1>1. cookie[b] \in Session /\ userId[cookie[b]] \in Account
  BY DEF LoadSession, TypeOK, TablesOK
<1> QED
  BY <1>1 DEF LoadSession, Idle, Request, RequestOK, OnThread, OffThread, Moves

LEMMA GateMoves ==
  ASSUME TypeOK, NEW b \in Browser, Gate(b)
  PROVE  Moves(b) \/ UNCHANGED req
<1>1. CASE \E i \in Instance, t \in Account, r \in RoleInput : LoadSession(b, i, "role", t, r)
  BY <1>1, LoadSessionMoves DEF Ops
<1>2. CASE \E i \in Instance, t \in Account : LoadSession(b, i, "remove", t, None)
  BY <1>2, LoadSessionMoves DEF Ops
<1>3. CASE \E i \in Instance, x \in Session : LoadSession(b, i, "revoke", x, None)
  BY <1>3, LoadSessionMoves DEF Ops
<1>4. CASE \E i \in Instance, op \in {"revokeOthers", "logout"} :
             LoadSession(b, i, op, None, None)
  BY <1>4, LoadSessionMoves DEF Ops
<1>5. CASE Refuse(b) \/ PruneLapsed(b)
  BY <1>5 DEF Refuse, PruneLapsed, vars
<1>6. CASE LoadAccount(b)
  BY <1>6, FinishMoves DEF LoadAccount, Passes, IsRole, Goto, TypeOK, Request, RequestOK,
     OnThread, OffThread, Moves
<1> QED
  BY <1>1, <1>2, <1>3, <1>4, <1>5, <1>6 DEF Gate

LEMMA MembersMoves ==
  ASSUME TypeOK, NEW b \in Browser, Members(b)
  PROVE  Moves(b)
<1>0. \A q \in Request, s \in Roles : [q EXCEPT !.pc = "write", !.seen = s] \in Request
  BY GoneOn DEF OnThread
<1> USE FinishMoves DEF TypeOK, Request, RequestOK, OnThread, OffThread, Goto, Moves
<1>1. CASE ReadTarget(b)
  <2> DEFINE q == [req[b] EXCEPT !.pc = "write", !.seen = role[req[b].target]]
  <2>1. CASE Become(b, q) /\ role[req[b].target] # None
    <3>1. req[b] \in Request /\ RequestOK(req[b]) /\ req[b].pc = "target"
      BY <1>1 DEF ReadTarget
    <3>2. role[req[b].target] \in Roles
      <4>1. req[b].target \in Account
        BY ONLY <3>1 DEF RequestOK
      <4>2. role \in [Account -> Roles \cup {None}]
        BY ONLY TypeOK DEF TypeOK, TablesOK
      <4> QED
        BY ONLY <2>1, <4>1, <4>2
    <3>3. q \in Request
      BY ONLY <1>0, <3>1, <3>2
    <3>4. /\ q.pc = "write" /\ q.seen = role[req[b].target]
          /\ \A f \in {"at", "op", "who", "sid", "me", "ownerSeen", "target", "new"} : q[f] = req[b][f]
      BY ONLY <3>1 DEF Request
    <3>5. RequestOK(q)
      <4> HIDE DEF q
      <4> QED
        BY ONLY <3>1, <3>2, <3>4 DEF RequestOK
    <3> QED
      BY <2>1, <3>3, <3>5
  <2> QED
    BY <1>1, <2>1 DEF ReadTarget
<1>2. CASE DemoteOwner(b) \/ SetRole(b)
  BY <1>2 DEF DemoteOwner, SetRole
<1>3. CASE RemoveOwner(b) \/ RemoveOther(b)
  BY <1>3 DEF RemoveOwner, RemoveOther
<1>4. CASE WriteAudit(b)
  BY <1>4 DEF WriteAudit
<1> QED
  BY <1>1, <1>2, <1>3, <1>4 DEF Members

LEMMA SelfServiceMoves ==
  ASSUME TypeOK, NEW b \in Browser, SelfService(b)
  PROVE  Moves(b)
  BY FinishMoves DEF SelfService, Reload, RevokeSession, SignOutOthers, EndSession,
     TypeOK, Request, RequestOK, OnThread, OffThread, Goto, Moves

-----------------------------------------------------------------------------
(* Types                                                                   *)

LEMMA TypeInit == Init => TypeOK
  BY IdleOK DEF Init, TypeOK, TablesOK

LEMMA LoginTables ==
  ASSUME TypeOK, NEW b \in Browser, Login(b)
  PROVE  TablesOK'
<1> USE DEF TypeOK, TablesOK, Request, RequestOK, dbVars
<1>1. CASE \E i \in Instance, s \in Subject : CompleteLogin(b, i, s)
  BY <1>1 DEF CompleteLogin
<1>2. CASE FindAccount(b)
  BY <1>2 DEF FindAccount
<1>3. CASE RefreshAccount(b)
  BY <1>3 DEF RefreshAccount, Roles
<1>4. CASE CreateAccount(b)
  BY <1>4 DEF CreateAccount, InsertAccount, DefaultRole, Roles
<1>5. CASE OpenSession(b)
  BY <1>5 DEF OpenSession
<1>6. CASE SetCookie(b)
  BY <1>6 DEF SetCookie
<1> QED
  BY <1>1, <1>2, <1>3, <1>4, <1>5, <1>6 DEF Login

LEMMA GateTables ==
  ASSUME TypeOK, NEW b \in Browser, Gate(b)
  PROVE  TablesOK'
  BY DEF Gate, TypeOK, TablesOK, LoadSession, Refuse, PruneLapsed, DeleteSessions,
     LoadAccount, vars, dbVars

LEMMA MembersTables ==
  ASSUME TypeOK, NEW b \in Browser, Members(b)
  PROVE  TablesOK'
<1> USE DEF TypeOK, TablesOK, Request, RequestOK, dbVars
<1>1. CASE ReadTarget(b)
  BY <1>1 DEF ReadTarget
<1>2. CASE DemoteOwner(b)
  BY <1>2 DEF DemoteOwner
<1>3. CASE SetRole(b)
  BY <1>3 DEF SetRole
<1>4. CASE RemoveOwner(b) \/ RemoveOther(b)
  BY <1>4 DEF RemoveOwner, RemoveOther, DeleteAccount
<1>5. CASE WriteAudit(b)
  BY <1>5 DEF WriteAudit
<1> QED
  BY <1>1, <1>2, <1>3, <1>4, <1>5 DEF Members

LEMMA SelfServiceTables ==
  ASSUME TypeOK, NEW b \in Browser, SelfService(b)
  PROVE  TablesOK'
  BY DEF SelfService, Reload, RevokeSession, SignOutOthers, EndSession, DeleteSessions,
     TypeOK, TablesOK, dbVars

LEMMA TypeNext == TypeOK /\ [Next]_vars => TypeOK'
<1> SUFFICES ASSUME TypeOK, [Next]_vars PROVE TypeOK'
  OBVIOUS
<1>1. ASSUME NEW b \in Browser, Moves(b), TablesOK' PROVE TypeOK'
  BY <1>1, MovesKeepType DEF TypeOK
<1>2. CASE \E b \in Browser : Login(b)
  BY <1>1, <1>2, LoginMoves, LoginTables
<1>3. CASE \E b \in Browser : Gate(b)
  <2>1. PICK b \in Browser : Gate(b)
    BY <1>3
  <2>2. CASE UNCHANGED req
    BY <2>1, <2>2, GateTables DEF TypeOK
  <2> QED
    BY <1>1, <2>1, <2>2, GateMoves, GateTables
<1>4. CASE \E b \in Browser : Members(b)
  BY <1>1, <1>4, MembersMoves, MembersTables
<1>5. CASE \E b \in Browser : SelfService(b)
  BY <1>1, <1>5, SelfServiceMoves, SelfServiceTables
<1>6. CASE \E b \in Browser : Abort(b)
  BY <1>1, <1>6, FinishMoves DEF Abort, TypeOK, TablesOK, dbVars
<1>7. CASE \E x \in Session : Lapse(x)
  BY <1>7 DEF Lapse, TypeOK, TablesOK, dbVars
<1>8. CASE UNCHANGED vars
  BY <1>8 DEF vars, TypeOK, TablesOK
<1> QED
  BY <1>2, <1>3, <1>4, <1>5, <1>6, <1>7, <1>8 DEF Next

\* app_user.role only ever holds a known role, a request only the data its last
\* step read: the types hold in every reachable state.
THEOREM TypeCorrect == Spec => []TypeOK
<1>1. Init => TypeOK
  BY TypeInit
<1>2. TypeOK /\ [Next]_vars => TypeOK'
  BY TypeNext
<1> QED
  BY <1>1, <1>2, PTL DEF Spec

-----------------------------------------------------------------------------
(* Referential integrity and one account per identity, any number of       *)
(* instances: each is inductive with the types.                            *)

Integrity == SessionsBelongToAccounts /\ SubUnique

LEMMA NoneIsNoRole == None \notin Roles
  BY NoneAssumption DEF Roles

LEMMA IntegrityLogin ==
  ASSUME TypeOK, Integrity, NEW b \in Browser, Login(b)
  PROVE  Integrity'
<1> USE NoneIsNoRole DEF TypeOK, TablesOK, Integrity, SessionsBelongToAccounts, SubUnique, Live,
        dbVars
<1>1. CASE RefreshAccount(b)
  BY <1>1 DEF RefreshAccount, Roles
<1>2. CASE CreateAccount(b)
  <2>1. CASE UNCHANGED <<role, sub, userId>>
    BY <2>1
  <2>2. CASE InsertAccount(b) /\ \A a \in Live : sub[a] # req[b].who
    <3>1. PICK a \in Account, r \in Roles : /\ role' = [role EXCEPT ![a] = r]
                                          /\ sub' = [sub EXCEPT ![a] = req[b].who]
      BY <2>2 DEF InsertAccount, Roles, DefaultRole
    <3>2. Live' = Live \cup {a}
      BY <3>1
    <3>3. UNCHANGED userId
      BY <1>2 DEF CreateAccount
    <3>4. SessionsBelongToAccounts'
      BY <3>2, <3>3
    <3>5. SubUnique'
      BY <2>2, <3>1, <3>2
    <3> QED
      BY <3>4, <3>5
  <2>3. (\E a \in Live : sub[a] = req[b].who) => UNCHANGED <<role, sub, userId>>
    BY ONLY <1>2 DEF CreateAccount
  <2> QED
    BY ONLY <1>2, <2>1, <2>2, <2>3 DEF CreateAccount
<1>3. CASE OpenSession(b)
  <2>1. UNCHANGED <<role, sub>> /\ Live' = Live
    BY <1>3 DEF OpenSession
  <2>2. req[b].me \in Account
    BY <1>3 DEF OpenSession, RequestOK
  <2>3. \A x \in Session : userId'[x] = userId[x] \/ userId'[x] \in Live
    <3>1. \/ UNCHANGED userId
          \/ /\ role[req[b].me] # None
             /\ \E x \in Session : userId' = [userId EXCEPT ![x] = req[b].me]
      BY ONLY <1>3 DEF OpenSession
    <3>2. userId \in [Session -> Account \cup {None}]
      OBVIOUS
    <3> QED
      BY ONLY <2>2, <3>1, <3>2 DEF Live
  <2> QED
    BY <2>1, <2>3
<1>4. CASE UNCHANGED <<role, sub, userId>>
  BY <1>4
<1> QED
  BY <1>1, <1>2, <1>3, <1>4 DEF Login, CompleteLogin, FindAccount, SetCookie

LEMMA IntegrityMembers ==
  ASSUME TypeOK, Integrity, NEW b \in Browser, Members(b)
  PROVE  Integrity'
<1> USE NoneIsNoRole DEF TypeOK, TablesOK, Integrity, SessionsBelongToAccounts, SubUnique, Live,
        RequestOK
<1>1. CASE DemoteOwner(b)
  <2>1. req[b].new \in Roles
    BY <1>1 DEF DemoteOwner
  <2>2. CASE role' = [role EXCEPT ![req[b].target] = req[b].new] /\ NotLastOwner(req[b].target)
    <3>1. Live' = Live
      BY <2>1, <2>2, NoneAssumption DEF NotLastOwner, Owners
    <3> QED
      BY <1>1, <3>1 DEF DemoteOwner
  <2>3. CASE UNCHANGED role
    BY <1>1, <2>3 DEF DemoteOwner
  <2> QED
    BY <1>1, <2>2, <2>3 DEF DemoteOwner
<1>2. CASE SetRole(b)
  BY <1>2 DEF SetRole
<1>3. CASE RemoveOwner(b) \/ RemoveOther(b)
  <2>1. CASE DeleteAccount(req[b].target)
    BY <2>1, NoneAssumption DEF DeleteAccount
  <2>2. CASE UNCHANGED <<role, sub, userId>>
    BY <2>2
  <2> QED
    BY <1>3, <2>1, <2>2 DEF RemoveOwner, RemoveOther
<1>4. CASE UNCHANGED <<role, sub, userId>>
  BY <1>4
<1> QED
  BY <1>1, <1>2, <1>3, <1>4 DEF Members, ReadTarget, WriteAudit, dbVars

LEMMA IntegrityNext == TypeOK /\ Integrity /\ [Next]_vars => Integrity'
<1> SUFFICES ASSUME TypeOK, Integrity, [Next]_vars PROVE Integrity'
  OBVIOUS
<1>1. CASE UNCHANGED <<role, sub>> /\ \A x \in Session : userId'[x] \in {userId[x], None}
  BY <1>1 DEF Integrity, SessionsBelongToAccounts, SubUnique, Live
<1>2. ASSUME NEW b \in Browser, Gate(b) \/ SelfService(b) \/ Abort(b) PROVE Integrity'
  BY <1>1, <1>2 DEF Gate, LoadSession, Refuse, PruneLapsed, LoadAccount, SelfService, Reload,
     RevokeSession, SignOutOthers, EndSession, Abort, DeleteSessions, dbVars, vars
<1>3. CASE \E x \in Session : Lapse(x)
  BY <1>1, <1>3 DEF Lapse, dbVars
<1>4. CASE UNCHANGED vars
  BY <1>1, <1>4 DEF vars
<1> QED
  BY <1>2, <1>3, <1>4, IntegrityLogin, IntegrityMembers DEF Next

\* No session row outlives its account, whatever removal races whatever login.
THEOREM NoOrphanSession == Spec => []SessionsBelongToAccounts
<1>1. Init => Integrity
  BY DEF Init, Integrity, SessionsBelongToAccounts, SubUnique, Live
<1>2. Integrity => SessionsBelongToAccounts
  BY DEF Integrity
<1> QED
  BY <1>1, <1>2, TypeCorrect, IntegrityNext, PTL DEF Spec

\* Two accounts never share an OIDC subject, whatever first logins race.
THEOREM OneAccountPerSubject == Spec => []SubUnique
<1>1. Init => Integrity
  BY DEF Init, Integrity, SessionsBelongToAccounts, SubUnique, Live
<1>2. Integrity => SubUnique
  BY DEF Integrity
<1> QED
  BY <1>1, <1>2, TypeCorrect, IntegrityNext, PTL DEF Spec

-----------------------------------------------------------------------------
(* One instance.  The types alone do not give HasOwner: a write relies on  *)
(* what its request read some statements ago.  With one thread nobody else *)
(* has run since, so the read is current; ReadThenWriteIsAtomic says so    *)
(* and makes HasOwner inductive.                                           *)

\* A step that changes a role or a sub is taken by a request on the thread.
LEMMA Exclusive ==
  ASSUME TypeOK, OneRequestOnThread, NEW i, Instance = {i},
         NEW b \in Browser, req[b].pc \in OnThread,
         NEW c \in Browser, c # b
  PROVE  req[c].pc \notin OnThread
<1>1. SUFFICES ASSUME req[c].pc \in OnThread PROVE FALSE
  OBVIOUS
<1>2. "idle" \notin OnThread
  BY DEF OnThread
<1>3. req[b].at = i /\ req[c].at = i
  BY <1>1, <1>2 DEF TypeOK, RequestOK
<1> QED
  BY <1>1, <1>3 DEF OneRequestOnThread

\* b's request is now q and nobody else's has changed.
LEMMA BecomeIs ==
  ASSUME TypeOK, NEW b \in Browser, NEW q, Become(b, q)
  PROVE  \A c \in Browser : req'[c] = IF c = b THEN q ELSE req[c]
  BY DEF Become, TypeOK

Only(b) == \A c \in Browser : c # b => req'[c] = req[c]

LEMMA OthersCurrent ==
  ASSUME TypeOK, ReadThenWriteIsAtomic, NEW i, Instance = {i},
         NEW b \in Browser, Only(b),
         UNCHANGED <<role, sub>> \/ req[b].pc \in OnThread,
         NEW c \in Browser, c # b
  PROVE  Current(req[c])'
<1>1. req'[c] = req[c]
  BY DEF Only
<1>2. CASE UNCHANGED <<role, sub>>
  BY <1>1, <1>2 DEF ReadThenWriteIsAtomic, ReadsAreCurrent, Current, Owners, Live
<1>3. CASE req[b].pc \in OnThread
  <2>1. req[c].pc \notin OnThread
    BY <1>3, Exclusive DEF ReadThenWriteIsAtomic
  <2> QED
    BY <1>1, <2>1 DEF Current, OnThread
<1> QED
  BY <1>2, <1>3

\* What is left to show of a step of b: its own reads are current, and it takes
\* the thread when it is free and otherwise keeps it or gives it up.
LEMMA AloneStep ==
  ASSUME TypeOK, ReadThenWriteIsAtomic, NEW i, Instance = {i},
         NEW b \in Browser, Only(b),
         UNCHANGED <<role, sub>> \/ req[b].pc \in OnThread,
         \/ req'[b].pc \notin OnThread
         \/ req[b].pc \in OnThread /\ req'[b].at = req[b].at
         \/ ThreadFree(req'[b].at),
         Current(req[b])'
  PROVE  ReadThenWriteIsAtomic'
<1>1. ReadsAreCurrent'
  BY OthersCurrent DEF ReadsAreCurrent
<1>2. OneRequestOnThread'
  BY DEF ReadThenWriteIsAtomic, OneRequestOnThread, ThreadFree, Only
<1> QED
  BY <1>1, <1>2 DEF ReadThenWriteIsAtomic

LEMMA AloneFinish ==
  ASSUME TypeOK, ReadThenWriteIsAtomic, NEW i, Instance = {i},
         NEW b \in Browser, Finish(b),
         UNCHANGED <<role, sub>> \/ req[b].pc \in OnThread
  PROVE  ReadThenWriteIsAtomic'
<1>1. Only(b) /\ req'[b] = Idle
  BY BecomeIs DEF Finish, Only
<1>2. Idle.pc \notin OnThread /\ Current(req[b])'
  BY <1>1 DEF Idle, OnThread, Current
<1> QED
  BY <1>1, <1>2, AloneStep

LEMMA OwnersKept == UNCHANGED role /\ HasOwner => HasOwner'
  BY DEF HasOwner, Live, Owners

Alone == ReadThenWriteIsAtomic /\ HasOwner

\* The key of every account was generated before, so a fresh one is of no account.
KeysIssued == Live \subseteq issued

LEMMA AloneLogin ==
  ASSUME TypeOK, Alone, KeysIssued, NEW i, Instance = {i}, NEW b \in Browser, Login(b)
  PROVE  Alone'
<1> USE DEF Alone
<1>0. /\ req[b] \in Request /\ RequestOK(req[b]) /\ Current(req[b])
      /\ role \in [Account -> Roles \cup {None}] /\ sub \in [Account -> Subject \cup {None}]
  BY DEF TypeOK, TablesOK, ReadThenWriteIsAtomic, ReadsAreCurrent
<1>1. CASE \E j \in Instance, s \in Subject : CompleteLogin(b, j, s)
  <2>1. PICK j \in Instance, s \in Subject : CompleteLogin(b, j, s)
    BY <1>1
  <2>2. ThreadFree(j) /\ UNCHANGED <<role, sub>>
    BY <2>1 DEF CompleteLogin, dbVars
  <2> DEFINE q == [Idle EXCEPT !.pc = "find", !.at = j, !.op = "login", !.who = s,
                               !.ownerSeen = (Owners # {})]
  <2>a. q.pc = "find" /\ q.at = j /\ q.ownerSeen = (Owners # {})
    BY DEF Idle
  <2>b. Become(b, q)
    BY <2>1 DEF CompleteLogin
  <2> HIDE DEF q
  <2>3. /\ Only(b) /\ req'[b].pc = "find" /\ req'[b].at = j
        /\ req'[b].ownerSeen = (Owners # {})
    BY <2>a, <2>b, BecomeIs DEF Only
  <2>4. Current(req[b])'
    BY <2>2, <2>3 DEF Current, Owners
  <2> QED
    BY <2>2, <2>3, <2>4, AloneStep, OwnersKept
<1>2. CASE FindAccount(b)
  <2>0. req[b].pc = "find" /\ UNCHANGED <<role, sub>>
    BY <1>2 DEF FindAccount, dbVars
  <2>1. CASE \E a \in Live :
               Become(b, [req[b] EXCEPT !.pc = "refresh", !.me = a, !.seen = role[a]])
    <3>1. PICK a \in Live :
                 Become(b, [req[b] EXCEPT !.pc = "refresh", !.me = a, !.seen = role[a]])
      BY <2>1
    <3> DEFINE q == [req[b] EXCEPT !.pc = "refresh", !.me = a, !.seen = role[a]]
    <3>a. /\ q.pc = "refresh" /\ q.at = req[b].at /\ q.me = a /\ q.seen = role[a]
          /\ q.ownerSeen = req[b].ownerSeen
      BY <1>0 DEF Request
    <3>b. Become(b, q)
      BY <3>1
    <3> HIDE DEF q
    <3>2. /\ Only(b) /\ req'[b].pc = "refresh" /\ req'[b].at = req[b].at
          /\ req'[b].me = a /\ req'[b].seen = role[a]
          /\ req'[b].ownerSeen = req[b].ownerSeen
      BY <3>a, <3>b, BecomeIs DEF Only
    <3>3. Current(req[b])'
      BY <1>0, <2>0, <3>2 DEF Current, Owners, Live
    <3> QED
      BY <2>0, <3>2, <3>3, AloneStep, OwnersKept DEF OnThread
  <2>2. CASE (\A a \in Live : sub[a] # req[b].who) /\ Goto(b, "create")
    <3>1. /\ Only(b) /\ req'[b].pc = "create" /\ req'[b].at = req[b].at
          /\ req'[b].who = req[b].who /\ req'[b].ownerSeen = req[b].ownerSeen
      BY <1>0, <2>2, BecomeIs DEF Goto, Request, Only
    <3>2. Current(req[b])'
      BY <1>0, <2>0, <2>2, <3>1 DEF Current, Owners, Live
    <3> QED
      BY <2>0, <3>1, <3>2, AloneStep, OwnersKept DEF OnThread
  <2> QED
    BY <1>2, <2>1, <2>2 DEF FindAccount
<1>3. CASE RefreshAccount(b)
  <2>0. req[b].pc = "refresh" /\ req[b].me \in Live /\ UNCHANGED sub
    BY <1>0, <1>3 DEF RefreshAccount, Current
  <2>1. /\ role' = [role EXCEPT ![req[b].me] = IF Promote(b) THEN "owner" ELSE @]
        /\ Goto(b, "open")
    BY <1>3, <2>0 DEF RefreshAccount, Live
  <2>2. /\ Only(b) /\ req'[b].pc = "open" /\ req'[b].at = req[b].at
        /\ req'[b].me = req[b].me
    BY <1>0, <2>1, BecomeIs DEF Goto, Request, Only
  <2>3. Current(req[b])'
    BY <1>0, <2>0, <2>1, <2>2, NoneIsNoRole DEF Current, Live, Roles
  <2>4. HasOwner'
    BY <1>0, <2>0, <2>1 DEF HasOwner, Current, Promote, Owners, Live
  <2> QED
    BY <2>0, <2>2, <2>3, <2>4, AloneStep DEF OnThread
<1>4. CASE CreateAccount(b)
  <2>0. req[b].pc = "create" /\ \A a \in Live : sub[a] # req[b].who
    BY <1>0, <1>4 DEF CreateAccount, Current
  <2>1. PICK a \in Account :
          /\ role' = [role EXCEPT ![a] = IF req[b].ownerSeen THEN DefaultRole ELSE "owner"]
          /\ Become(b, [req[b] EXCEPT !.pc = "open", !.me = a])
          /\ a \notin issued
    BY <1>4, <2>0 DEF CreateAccount, InsertAccount
  <2> DEFINE q == [req[b] EXCEPT !.pc = "open", !.me = a]
  <2>a. q.pc = "open" /\ q.at = req[b].at /\ q.me = a
    BY <1>0 DEF Request
  <2>b. Become(b, q)
    BY <2>1
  <2> HIDE DEF q
  <2>2. Only(b) /\ req'[b].pc = "open" /\ req'[b].at = req[b].at /\ req'[b].me = a
    BY <2>a, <2>b, BecomeIs DEF Only
  <2>3. Current(req[b])'
    BY <1>0, <2>1, <2>2, NoneIsNoRole DEF Current, Live, Roles, DefaultRole
  <2>4. HasOwner'
    <3>1. role[a] = None
      BY <2>1 DEF KeysIssued, Live
    <3>2. CASE req[b].ownerSeen
      <4>1. PICK o \in Owners : o # a
        BY <1>0, <2>0, <3>1, <3>2, NoneIsNoRole DEF Current, Owners, Roles
      <4> QED
        BY <1>0, <2>1, <4>1 DEF HasOwner, Owners
    <3>3. CASE ~req[b].ownerSeen
      BY <1>0, <2>1, <3>3 DEF HasOwner, Owners
    <3> QED
      BY <3>2, <3>3
  <2> QED
    BY <2>0, <2>2, <2>3, <2>4, AloneStep DEF OnThread
<1>5. CASE OpenSession(b)
  <2>0. req[b].pc = "open" /\ UNCHANGED <<role, sub>>
    BY <1>5 DEF OpenSession
  <2>1. CASE Finish(b)
    BY <2>0, <2>1, AloneFinish, OwnersKept
  <2>2. CASE \E x \in Session : Become(b, [req[b] EXCEPT !.pc = "sign", !.sid = x])
    <3>0. PICK x \in Session : Become(b, [req[b] EXCEPT !.pc = "sign", !.sid = x])
      BY <2>2
    <3> DEFINE q == [req[b] EXCEPT !.pc = "sign", !.sid = x]
    <3>a. q.pc = "sign"
      BY <1>0 DEF Request
    <3>b. Become(b, q)
      BY <3>0
    <3> HIDE DEF q
    <3>1. Only(b) /\ req'[b].pc = "sign"
      BY <3>a, <3>b, BecomeIs DEF Only
    <3>2. Current(req[b])' /\ "sign" \notin OnThread
      BY <3>1 DEF Current, OnThread
    <3> QED
      BY <2>0, <3>1, <3>2, AloneStep, OwnersKept
  <2> QED
    BY <1>5, <2>1, <2>2 DEF OpenSession
<1>6. CASE SetCookie(b)
  BY <1>6, AloneFinish, OwnersKept DEF SetCookie, dbVars
<1> QED
  BY <1>1, <1>2, <1>3, <1>4, <1>5, <1>6 DEF Login

LEMMA AloneGate ==
  ASSUME TypeOK, Alone, NEW i, Instance = {i}, NEW b \in Browser, Gate(b)
  PROVE  Alone'
<1> USE DEF Alone
<1>0. req[b] \in Request /\ RequestOK(req[b]) /\ Current(req[b])
  BY DEF TypeOK, ReadThenWriteIsAtomic, ReadsAreCurrent
<1>1. ASSUME NEW j \in Instance, NEW op, NEW t, NEW r, LoadSession(b, j, op, t, r)
      PROVE  Alone'
  <2> DEFINE q == [Idle EXCEPT !.pc = "account", !.at = j, !.op = op, !.target = t,
                          !.new = r, !.sid = cookie[b], !.me = userId[cookie[b]]]
  <2>1. q.pc = "account" /\ q.at = j
    BY DEF Idle
  <2>2. Become(b, q) /\ ThreadFree(j) /\ UNCHANGED <<role, sub>>
    BY <1>1 DEF LoadSession, dbVars
  <2> HIDE DEF q
  <2>3. Only(b) /\ req'[b].pc = "account" /\ req'[b].at = j
    BY <2>1, <2>2, BecomeIs DEF Only
  <2>4. Current(req[b])'
    BY <2>3 DEF Current
  <2> QED
    BY <2>2, <2>3, <2>4, AloneStep, OwnersKept
<1>2. CASE Refuse(b) \/ PruneLapsed(b)
  BY <1>2, OwnersKept DEF Refuse, PruneLapsed, vars, ReadThenWriteIsAtomic,
     OneRequestOnThread, ReadsAreCurrent, Current, Live, Owners
<1>3. CASE LoadAccount(b)
  <2>0. req[b].pc = "account" /\ UNCHANGED <<role, sub>>
    BY <1>3 DEF LoadAccount, dbVars
  <2>1. CASE Finish(b)
    BY <2>0, <2>1, AloneFinish, OwnersKept
  <2>2. ASSUME NEW pc \in {"target", "reload", "end"}, Goto(b, pc),
               pc = "target" => role[req[b].me] = "owner"
        PROVE  Alone'
    <3> DEFINE q == [req[b] EXCEPT !.pc = pc]
    <3>1. q.pc = pc /\ q.at = req[b].at /\ q.me = req[b].me
      BY <1>0 DEF Request
    <3>2. Become(b, q)
      BY <2>2 DEF Goto
    <3> HIDE DEF q
    <3>3. /\ Only(b) /\ req'[b].pc = pc /\ req'[b].at = req[b].at
          /\ req'[b].me = req[b].me
      BY <3>1, <3>2, BecomeIs DEF Only
    <3>4. Current(req[b])'
      BY <2>0, <2>2, <3>3 DEF Current
    <3> QED
      BY <2>0, <3>3, <3>4, AloneStep, OwnersKept DEF OnThread
  <2> QED
    BY <1>3, <2>1, <2>2 DEF LoadAccount, Passes, MayManageMembers
<1> QED
  BY <1>1, <1>2, <1>3 DEF Gate

LEMMA AloneMembers ==
  ASSUME TypeOK, Alone, NEW i, Instance = {i}, NEW b \in Browser, Members(b)
  PROVE  Alone'
<1> USE DEF Alone
<1>0. /\ req[b] \in Request /\ RequestOK(req[b]) /\ Current(req[b])
      /\ role \in [Account -> Roles \cup {None}]
  BY DEF TypeOK, TablesOK, ReadThenWriteIsAtomic, ReadsAreCurrent
<1>1. CASE ReadTarget(b)
  <2>0. req[b].pc = "target" /\ UNCHANGED <<role, sub>>
    BY <1>1 DEF ReadTarget, dbVars
  <2>1. CASE Finish(b)
    BY <2>0, <2>1, AloneFinish, OwnersKept
  <2>2. CASE ~Finish(b)
    <3> DEFINE q == [req[b] EXCEPT !.pc = "write", !.seen = role[req[b].target]]
    <3>1. /\ q.pc = "write" /\ q.at = req[b].at /\ q.me = req[b].me
          /\ q.seen = role[req[b].target] /\ q.target = req[b].target
      BY <1>0 DEF Request
    <3>2. Become(b, q)
      BY <1>1, <2>2 DEF ReadTarget
    <3> HIDE DEF q
    <3>3. /\ Only(b) /\ req'[b].pc = "write" /\ req'[b].at = req[b].at
          /\ req'[b].me = req[b].me /\ req'[b].target = req[b].target
          /\ req'[b].seen = role[req[b].target]
      BY <3>1, <3>2, BecomeIs DEF Only
    <3>4. Current(req[b])'
      BY <1>0, <2>0, <3>3 DEF Current
    <3> QED
      BY <2>0, <3>3, <3>4, AloneStep, OwnersKept DEF OnThread
  <2> QED
    BY <2>1, <2>2
<1>2. CASE Goto(b, "audit") /\ req[b].pc = "write"
  <2> DEFINE q == [req[b] EXCEPT !.pc = "audit"]
  <2>1. q.pc = "audit" /\ q.at = req[b].at
    BY <1>0 DEF Request
  <2>2. Become(b, q)
    BY <1>2 DEF Goto
  <2> HIDE DEF q
  <2>3. Only(b) /\ req'[b].pc = "audit" /\ req'[b].at = req[b].at
    BY <2>1, <2>2, BecomeIs DEF Only
  <2>4. Current(req[b])'
    BY <2>3 DEF Current
  <2>5. ReadThenWriteIsAtomic'
    BY <1>2, <2>3, <2>4, AloneStep DEF OnThread
  <2>6. req[b].target \in Account /\ req[b].seen = role[req[b].target]
    BY <1>0, <1>2 DEF RequestOK, Current
  <2>7. CASE DemoteOwner(b)
    <3>1. req[b].new \in Roles
      BY <1>0, <1>2, <2>7 DEF DemoteOwner, RequestOK
    <3>2. CASE UNCHANGED role
      BY <3>2, OwnersKept, <2>5
    <3>3. CASE NotLastOwner(req[b].target) /\
               role' = [role EXCEPT ![req[b].target] = req[b].new]
      BY <1>0, <2>5, <3>3 DEF NotLastOwner, HasOwner, Owners, Live
    <3> QED
      BY <2>7, <3>2, <3>3 DEF DemoteOwner
  <2>8. CASE SetRole(b)
    <3>1. role' = [role EXCEPT ![req[b].target] = IF @ = None THEN None ELSE req[b].new]
      BY <2>8 DEF SetRole
    <3>2. req[b].seen # "owner" \/ req[b].new = "owner"
      BY <2>8 DEF SetRole
    <3>3. \A o \in Owners : o \in Owners'
      BY <1>0, <2>6, <3>1, <3>2, NoneIsNoRole DEF Owners, Roles
    <3>4. Live' \subseteq Live
      BY <1>0, <3>1 DEF Live
    <3> QED
      BY <2>5, <3>3, <3>4 DEF HasOwner
  <2>9. CASE RemoveOwner(b) \/ RemoveOther(b)
    <3>1. CASE UNCHANGED role
      BY <3>1, OwnersKept, <2>5
    <3>2. CASE DeleteAccount(req[b].target) /\ NotLastOwner(req[b].target)
      BY <1>0, <2>5, <3>2 DEF DeleteAccount, NotLastOwner, HasOwner, Owners, Live
    <3>3. CASE DeleteAccount(req[b].target) /\ role[req[b].target] # "owner"
      BY <1>0, <2>5, <3>3 DEF DeleteAccount, HasOwner, Owners, Live
    <3> QED
      BY <2>6, <2>9, <3>1, <3>2, <3>3 DEF RemoveOwner, RemoveOther
  <2>10. ~ReadTarget(b) /\ ~WriteAudit(b)
    BY <1>2 DEF ReadTarget, WriteAudit
  <2> QED
    BY <2>7, <2>8, <2>9, <2>10 DEF Members
<1>3. CASE Finish(b) /\ UNCHANGED <<role, sub>>
  BY <1>3, AloneFinish, OwnersKept
<1> QED
  BY <1>1, <1>2, <1>3 DEF Members, DemoteOwner, SetRole, RemoveOwner, RemoveOther,
     WriteAudit, dbVars

LEMMA AloneSelfService ==
  ASSUME TypeOK, Alone, NEW i, Instance = {i}, NEW b \in Browser, SelfService(b)
  PROVE  Alone'
<1> USE DEF Alone
<1>0. req[b] \in Request /\ UNCHANGED <<role, sub>>
  BY DEF TypeOK, SelfService, Reload, RevokeSession, SignOutOthers, EndSession, dbVars
<1>1. CASE Finish(b)
  BY <1>0, <1>1, AloneFinish, OwnersKept
<1>2. CASE Goto(b, "act") /\ ThreadFree(req[b].at)
  <2> DEFINE q == [req[b] EXCEPT !.pc = "act"]
  <2>1. q.pc = "act" /\ q.at = req[b].at
    BY <1>0 DEF Request
  <2>2. Become(b, q)
    BY <1>2 DEF Goto
  <2> HIDE DEF q
  <2>3. Only(b) /\ req'[b].pc = "act" /\ req'[b].at = req[b].at
    BY <2>1, <2>2, BecomeIs DEF Only
  <2>4. Current(req[b])'
    BY <2>3 DEF Current
  <2> QED
    BY <1>0, <1>2, <2>3, <2>4, AloneStep, OwnersKept
<1> QED
  BY <1>1, <1>2 DEF SelfService, Reload, RevokeSession, SignOutOthers, EndSession

LEMMA KeysNext == TypeOK /\ KeysIssued /\ [Next]_vars => KeysIssued'
<1> SUFFICES ASSUME TypeOK, KeysIssued, [Next]_vars PROVE KeysIssued'
  OBVIOUS
<1>1. CASE issued \subseteq issued' /\ Live' \subseteq Live
  BY <1>1 DEF KeysIssued
<1>2. CASE UNCHANGED <<role, issued>>
  BY <1>2 DEF KeysIssued, Live
<1>3. ASSUME NEW b \in Browser, Login(b) PROVE KeysIssued'
  <2>1. CASE RefreshAccount(b)
    BY <1>1, <2>1, NoneAssumption DEF RefreshAccount, TypeOK, TablesOK, Live
  <2>2. CASE CreateAccount(b)
    <3>1. CASE InsertAccount(b)
      <4>1. PICK a \in Account : /\ \E r : role' = [role EXCEPT ![a] = r]
                             /\ issued' = issued \cup {a}
        BY ONLY <3>1 DEF InsertAccount
      <4>2. Live' \subseteq Live \cup {a}
        BY <4>1 DEF TypeOK, TablesOK, Live
      <4> QED
        BY <4>1, <4>2 DEF KeysIssued
    <3> QED
      BY <1>2, <2>2, <3>1 DEF CreateAccount
  <2>3. CASE OpenSession(b)
    BY <1>1, <1>2, <2>3 DEF OpenSession, Live
  <2> QED
    BY <1>2, <1>3, <2>1, <2>2, <2>3 DEF Login, CompleteLogin, FindAccount, SetCookie, dbVars
<1>4. ASSUME NEW b \in Browser, Members(b) PROVE KeysIssued'
  <2>1. CASE DemoteOwner(b)
    BY <1>1, <2>1, NoneAssumption DEF DemoteOwner, NotLastOwner, Owners, TypeOK, TablesOK, Live
  <2>2. CASE SetRole(b)
    BY <1>1, <2>2 DEF SetRole, TypeOK, TablesOK, Live
  <2>3. CASE RemoveOwner(b) \/ RemoveOther(b)
    BY <1>1, <2>3 DEF RemoveOwner, RemoveOther, DeleteAccount, TypeOK, TablesOK, Live
  <2> QED
    BY <1>2, <1>4, <2>1, <2>2, <2>3 DEF Members, ReadTarget, WriteAudit, dbVars
<1>5. ASSUME NEW b \in Browser, Gate(b) \/ SelfService(b) \/ Abort(b) PROVE KeysIssued'
  BY <1>2, <1>5 DEF Gate, LoadSession, Refuse, PruneLapsed, LoadAccount, SelfService, Reload,
     RevokeSession, SignOutOthers, EndSession, Abort, dbVars, vars
<1>6. CASE (\E x \in Session : Lapse(x)) \/ UNCHANGED vars
  BY <1>2, <1>6 DEF Lapse, dbVars, vars
<1> QED
  BY <1>3, <1>4, <1>5, <1>6 DEF Next

LEMMA AloneNext ==
  ASSUME NEW i, Instance = {i}
  PROVE  TypeOK /\ KeysIssued /\ Alone /\ [Next]_vars => Alone'
<1> SUFFICES ASSUME TypeOK, KeysIssued, Alone, [Next]_vars PROVE Alone'
  OBVIOUS
<1>1. CASE UNCHANGED <<role, sub, req>>
  BY <1>1, OwnersKept DEF Alone, ReadThenWriteIsAtomic, OneRequestOnThread,
     ReadsAreCurrent, Current, Live, Owners
<1>2. CASE \E b \in Browser : Abort(b)
  BY <1>2, AloneFinish, OwnersKept DEF Abort, Alone, dbVars
<1>3. CASE (\E x \in Session : Lapse(x)) \/ UNCHANGED vars
  BY <1>1, <1>3 DEF Lapse, dbVars, vars
<1> QED
  BY <1>2, <1>3, AloneLogin, AloneGate, AloneMembers, AloneSelfService DEF Next

LEMMA AloneInit == Init => KeysIssued /\ Alone
  BY DEF Init, KeysIssued, Alone, ReadThenWriteIsAtomic, OneRequestOnThread,
     ReadsAreCurrent, Current, HasOwner, Live, Owners, Idle, OnThread

\* With one Node process, what a request of the Members page or of the callback
\* has read is still true when it writes.
THEOREM AtomicOnOneInstance ==
  ASSUME NEW i, Instance = {i}
  PROVE  Spec => []ReadThenWriteIsAtomic
<1>1. Alone => ReadThenWriteIsAtomic
  BY DEF Alone
<1> QED
  BY <1>1, AloneInit, AloneNext, KeysNext, TypeCorrect, PTL DEF Spec

\* With one Node process the last owner is never demoted or removed: while there
\* is an account, some account is an owner.
THEOREM OwnerRemains ==
  ASSUME NEW i, Instance = {i}
  PROVE  Spec => []HasOwner
<1>1. Alone => HasOwner
  BY DEF Alone
<1> QED
  BY <1>1, AloneInit, AloneNext, KeysNext, TypeCorrect, PTL DEF Spec

ByOwner(a) == \E b \in Browser : /\ req[b].pc = "write" /\ req[b].target = a
                               /\ role[req[b].me] = "owner"

LEMMA StepByOwner ==
  ASSUME NEW i, Instance = {i}, TypeOK, KeysIssued, Alone, Next, NEW a \in Account
  PROVE  /\ role[a] # None /\ role'[a] # role[a] /\ Owners # {} => ByOwner(a)
         /\ role[a] # "owner" /\ role'[a] = "owner" => Owners = {} \/ ByOwner(a)
<1>1. CASE UNCHANGED role
  BY <1>1
<1>2. ASSUME NEW b \in Browser, Members(b), ~UNCHANGED role PROVE ByOwner(a) \/ role'[a] = role[a]
  <2>1. req[b].pc = "write"
    BY <1>2 DEF Members, ReadTarget, DemoteOwner, SetRole, RemoveOwner, RemoveOther,
       WriteAudit, dbVars
  <2>2. role[req[b].me] = "owner"
    BY <2>1 DEF Alone, ReadThenWriteIsAtomic, ReadsAreCurrent, Current
  <2>3. a # req[b].target => role'[a] = role[a]
    BY <1>2 DEF Members, ReadTarget, DemoteOwner, SetRole, RemoveOwner, RemoveOther,
       WriteAudit, dbVars, DeleteAccount, TypeOK, TablesOK
  <2> QED
    BY <2>1, <2>2, <2>3 DEF ByOwner
<1>3. ASSUME NEW b \in Browser, RefreshAccount(b)
      PROVE  role'[a] = role[a] \/ Owners = {}
  BY <1>3 DEF RefreshAccount, Promote, Alone, ReadThenWriteIsAtomic, ReadsAreCurrent,
     Current, TypeOK, TablesOK
<1>4. ASSUME NEW b \in Browser, CreateAccount(b)
      PROVE  /\ role[a] # None => role'[a] = role[a]
             /\ role'[a] = "owner" => role[a] = "owner" \/ Owners = {}
  BY <1>4 DEF CreateAccount, InsertAccount, DefaultRole, KeysIssued, Live, Alone,
     ReadThenWriteIsAtomic, ReadsAreCurrent, Current, TypeOK, TablesOK
<1>5. ASSUME NEW b \in Browser, Login(b) \/ Gate(b) \/ SelfService(b) \/ Abort(b),
             ~RefreshAccount(b), ~CreateAccount(b)
      PROVE  UNCHANGED role
  BY <1>5 DEF Login, CompleteLogin, FindAccount, OpenSession, SetCookie, Gate, LoadSession,
     Refuse, PruneLapsed, LoadAccount, SelfService, Reload, RevokeSession, SignOutOthers,
     EndSession, Abort, dbVars, vars
<1>6. (\E x \in Session : Lapse(x)) => UNCHANGED role
  BY DEF Lapse, dbVars
<1> QED
  BY <1>1, <1>2, <1>3, <1>4, <1>5, <1>6 DEF Next

\* With one Node process nobody loses a role or an account but by a request
\* whose caller is an owner at that moment: no action runs on a stale gate.
THEOREM ChangesByOwners ==
  ASSUME NEW i, Instance = {i}
  PROVE  Spec => RoleChangesByOwners
<1>1. TypeOK /\ KeysIssued /\ Alone /\ [Next]_vars =>
        [\A a \in Account :
           role[a] # None /\ role'[a] # role[a] /\ Owners # {} =>
             \E b \in Browser : /\ req[b].pc = "write" /\ req[b].target = a
                               /\ role[req[b].me] = "owner"]_vars
  BY StepByOwner DEF ByOwner
<1> QED
  BY <1>1, AloneInit, AloneNext, KeysNext, TypeCorrect, PTL DEF Spec, RoleChangesByOwners

\* With one Node process ownership is bootstrapped only where there is no owner,
\* and otherwise granted by one: two first logins never both become owners.
THEOREM OwnersAreGranted ==
  ASSUME NEW i, Instance = {i}
  PROVE  Spec => OwnershipIsGranted
<1>1. TypeOK /\ KeysIssued /\ Alone /\ [Next]_vars =>
        [\A a \in Account :
           role[a] # "owner" /\ role'[a] = "owner" =>
             \/ Owners = {}
             \/ \E b \in Browser : /\ req[b].pc = "write" /\ req[b].target = a
                                  /\ role[req[b].me] = "owner"]_vars
  BY StepByOwner DEF ByOwner
<1> QED
  BY <1>1, AloneInit, AloneNext, KeysNext, TypeCorrect, PTL DEF Spec, OwnershipIsGranted

-----------------------------------------------------------------------------
(* Sessions, with any number of instances                                  *)

Loaded == {"account", "reload", "end"}

\* A session a request has loaded is its caller's, or gone: a key is never used twice.
OwnRows ==
  /\ \A x \in Session : userId[x] # None => x \in issued
  /\ \A b \in Browser : req[b].pc \in Loaded =>
       req[b].sid \in issued /\ userId[req[b].sid] \in {None, req[b].me}

\* A request goes on with the session it has loaded, or loads its cookie's.
GoesOn(c) ==
  req'[c].pc \in Loaded =>
    \/ req[c].pc \in Loaded /\ req'[c].sid = req[c].sid /\ req'[c].me = req[c].me
    \/ req'[c].sid \in Session /\ userId[req'[c].sid] # None /\ userId[req'[c].sid] = req'[c].me

LEMMA OwnRowsGo ==
  ASSUME TypeOK, OwnRows, issued \subseteq issued',
         \A x \in Session : userId'[x] \in {None, userId[x]},
         \A c \in Browser : GoesOn(c)
  PROVE  OwnRows'
<1>1. ASSUME NEW c \in Browser, req'[c].pc \in Loaded
      PROVE  req'[c].sid \in issued' /\ userId'[req'[c].sid] \in {None, req'[c].me}
  <2>1. CASE req[c].pc \in Loaded /\ req'[c].sid = req[c].sid /\ req'[c].me = req[c].me
    <3>1. req[c].sid \in Session
      BY <2>1 DEF TypeOK, RequestOK, Loaded
    <3> QED BY <2>1, <3>1 DEF OwnRows
  <2>2. CASE /\ req'[c].sid \in Session /\ userId[req'[c].sid] # None
             /\ userId[req'[c].sid] = req'[c].me
    BY <2>2 DEF OwnRows
  <2> QED BY <1>1, <2>1, <2>2 DEF GoesOn
<1>2. ASSUME NEW x \in Session, userId'[x] # None PROVE x \in issued'
  BY <1>2 DEF OwnRows
<1> QED BY <1>1, <1>2 DEF OwnRows

\* A request that ends, or goes to a point where nothing is loaded.
LEMMA GoesOff ==
  ASSUME TypeOK, NEW b \in Browser, NEW q, q.pc \notin Loaded, Become(b, q)
  PROVE  \A c \in Browser : GoesOn(c)
BY DEF Become, GoesOn, TypeOK

LEMMA OwnRowsLogin ==
  ASSUME TypeOK, OwnRows, NEW b \in Browser, Login(b)
  PROVE  OwnRows'
<1>0. req \in [Browser -> Request] /\ req[b] \in Request /\ Idle.pc \notin Loaded
      /\ userId \in [Session -> Account \cup {None}]
  BY DEF TypeOK, TablesOK, Idle, Loaded
<1>1. CASE OpenSession(b) /\ role[req[b].me] # None
  <2>1. PICK x \in Session \ issued :
             /\ userId' = [userId EXCEPT ![x] = req[b].me]
             /\ issued' = issued \cup {x}
             /\ req' = [req EXCEPT ![b] = [req[b] EXCEPT !.pc = "sign", !.sid = x]]
    BY <1>1, Zenon DEF OpenSession, Become
  <2>2. req'[b].pc = "sign" /\ \A c \in Browser : c # b => req'[c] = req[c]
    BY <1>0, <2>1 DEF Request
  <2>3. ASSUME NEW c \in Browser, req'[c].pc \in Loaded
        PROVE  req'[c].sid \in issued' /\ userId'[req'[c].sid] \in {None, req'[c].me}
    <3>1. c # b /\ req'[c] = req[c]
      BY <2>2, <2>3 DEF Loaded
    <3>2. req[c].sid \in issued /\ userId[req[c].sid] \in {None, req[c].me}
      BY <2>3, <3>1 DEF OwnRows
    <3>3. req[c].sid \in Session
      BY <2>3, <3>1 DEF TypeOK, RequestOK, Loaded
    <3> QED BY <1>0, <2>1, <3>1, <3>2, <3>3
  <2>4. ASSUME NEW y \in Session, userId'[y] # None PROVE y \in issued'
    BY <1>0, <2>1, <2>4 DEF OwnRows
  <2> QED BY <2>3, <2>4 DEF OwnRows
<1>2. CASE ~(OpenSession(b) /\ role[req[b].me] # None)
  <2>1. userId' = userId /\ issued \subseteq issued'
    BY <1>2, Zenon DEF Login, CompleteLogin, FindAccount, RefreshAccount, CreateAccount,
           InsertAccount, OpenSession, SetCookie, dbVars
  <2>2. \E q : q.pc \notin Loaded /\ Become(b, q)
    <3>1. CASE \E i \in Instance, s \in Subject : CompleteLogin(b, i, s)
      BY <3>1 DEF CompleteLogin, Loaded, Idle
    <3>2. CASE FindAccount(b)
      <4>1. ASSUME NEW a PROVE
              [req[b] EXCEPT !.pc = "refresh", !.me = a, !.seen = role[a]].pc \notin Loaded
        BY <1>0 DEF Request, Loaded
      <4>2. [req[b] EXCEPT !.pc = "create"].pc \notin Loaded
        BY <1>0 DEF Request, Loaded
      <4> QED BY <3>2, <4>1, <4>2, Zenon DEF FindAccount, Goto
    <3>3. CASE RefreshAccount(b)
      <4>1. [req[b] EXCEPT !.pc = "open"].pc \notin Loaded
        BY <1>0 DEF Request, Loaded
      <4> QED BY <1>0, <3>3, <4>1 DEF RefreshAccount, Goto, Finish
    <3>4. CASE CreateAccount(b)
      <4>1. ASSUME NEW a PROVE [req[b] EXCEPT !.pc = "open", !.me = a].pc \notin Loaded
        BY <1>0 DEF Request, Loaded
      <4> QED BY <1>0, <3>4, <4>1 DEF CreateAccount, InsertAccount, Finish
    <3>5. CASE OpenSession(b) \/ SetCookie(b)
      BY <1>0, <1>2, <3>5 DEF OpenSession, SetCookie, Finish
    <3> QED BY <3>1, <3>2, <3>3, <3>4, <3>5 DEF Login
  <2>3. \A c \in Browser : GoesOn(c)
    BY <2>2, GoesOff
  <2> QED BY <2>1, <2>3, OwnRowsGo
<1> QED BY <1>1, <1>2

LEMMA OwnRowsGate ==
  ASSUME TypeOK, OwnRows, NEW b \in Browser, Gate(b)
  PROVE  OwnRows'
<1>0. req \in [Browser -> Request] /\ req[b] \in Request /\ Idle.pc \notin Loaded
      /\ userId \in [Session -> Account \cup {None}] /\ cookie \in [Browser -> Session \cup {None}]
  BY DEF TypeOK, TablesOK, Idle, Loaded
<1>1. ASSUME NEW i, NEW op, NEW t, NEW r, LoadSession(b, i, op, t, r)
      PROVE  OwnRows'
  <2>1. /\ cookie[b] \in Session /\ userId[cookie[b]] # None
        /\ userId' = userId /\ issued' = issued
        /\ req' = [req EXCEPT ![b] =
             [Idle EXCEPT !.pc = "account", !.at = i, !.op = op, !.target = t,
                          !.new = r, !.sid = cookie[b], !.me = userId[cookie[b]]]]
    BY <1>0, <1>1 DEF LoadSession, Become, dbVars
  <2>2. /\ req'[b].sid = cookie[b] /\ req'[b].me = userId[cookie[b]]
        /\ \A c \in Browser : c # b => req'[c] = req[c]
    BY <1>0, <2>1 DEF Idle
  <2>3. \A c \in Browser : GoesOn(c)
    BY <2>1, <2>2 DEF GoesOn
  <2> QED BY <2>1, <2>3, OwnRowsGo
<1>2. CASE Refuse(b) \/ PruneLapsed(b)
  <2>1. /\ req' = req /\ issued' = issued
        /\ \A x \in Session : userId'[x] \in {None, userId[x]}
    BY <1>2, Zenon DEF Refuse, PruneLapsed, DeleteSessions, vars
  <2> QED BY <2>1, OwnRowsGo DEF GoesOn
<1>3. CASE LoadAccount(b)
  <2>1. /\ userId' = userId /\ issued' = issued /\ req[b].pc = "account"
        /\ \/ Finish(b)
           \/ \E pc \in {"target", "reload", "end"} : Goto(b, pc)
    BY <1>3, Zenon DEF LoadAccount, dbVars
  <2>2. CASE Finish(b)
    BY <1>0, <2>1, <2>2, GoesOff, OwnRowsGo DEF Finish
  <2>3. CASE \E pc \in {"target", "reload", "end"} : Goto(b, pc)
    <3>1. PICK pc \in {"target", "reload", "end"} :
               req' = [req EXCEPT ![b] = [req[b] EXCEPT !.pc = pc]]
      BY <2>3 DEF Goto, Become
    <3>2. /\ req'[b].sid = req[b].sid /\ req'[b].me = req[b].me
          /\ \A c \in Browser : c # b => req'[c] = req[c]
      BY <1>0, <3>1 DEF Request
    <3>3. \A c \in Browser : GoesOn(c)
      BY <2>1, <3>2 DEF GoesOn, Loaded
    <3> QED BY <2>1, <3>3, OwnRowsGo
  <2> QED BY <2>1, <2>2, <2>3
<1> QED BY <1>1, <1>2, <1>3 DEF Gate

LEMMA OwnRowsMembers ==
  ASSUME TypeOK, OwnRows, NEW b \in Browser, Members(b)
  PROVE  OwnRows'
<1>0. req[b] \in Request /\ Idle.pc \notin Loaded
  BY DEF TypeOK, Idle, Loaded
<1>1. issued' = issued /\ \A x \in Session : userId'[x] \in {None, userId[x]}
  BY Zenon DEF Members, ReadTarget, DemoteOwner, SetRole, RemoveOwner, RemoveOther, WriteAudit,
         DeleteAccount, dbVars
<1>2. \E q : q.pc \notin Loaded /\ Become(b, q)
  <2>1. ASSUME NEW r PROVE [req[b] EXCEPT !.pc = "write", !.seen = r].pc \notin Loaded
    BY <1>0 DEF Request, Loaded
  <2>2. [req[b] EXCEPT !.pc = "audit"].pc \notin Loaded
    BY <1>0 DEF Request, Loaded
  <2>3. \/ Become(b, Idle)
        \/ Become(b, [req[b] EXCEPT !.pc = "write", !.seen = role[req[b].target]])
        \/ Become(b, [req[b] EXCEPT !.pc = "audit"])
    BY SMT DEF Members, ReadTarget, DemoteOwner, SetRole, RemoveOwner, RemoveOther, WriteAudit,
           Finish, Goto
  <2> QED BY <1>0, <2>1, <2>2, <2>3
<1> QED BY <1>1, <1>2, GoesOff, OwnRowsGo

LEMMA OwnRowsSelfService ==
  ASSUME TypeOK, OwnRows, NEW b \in Browser, SelfService(b)
  PROVE  OwnRows'
<1>0. req[b] \in Request /\ Idle.pc \notin Loaded
  BY DEF TypeOK, Idle, Loaded
<1>1. issued' = issued /\ \A x \in Session : userId'[x] \in {None, userId[x]}
  BY Zenon DEF SelfService, Reload, RevokeSession, SignOutOthers, EndSession, DeleteSessions,
         dbVars
<1>2. \E q : q.pc \notin Loaded /\ Become(b, q)
  <2>1. [req[b] EXCEPT !.pc = "act"].pc \notin Loaded
    BY <1>0 DEF Request, Loaded
  <2>2. Become(b, Idle) \/ Become(b, [req[b] EXCEPT !.pc = "act"])
    BY SMT DEF SelfService, Reload, RevokeSession, SignOutOthers, EndSession, Finish, Goto
  <2> QED BY <1>0, <2>1, <2>2
<1> QED BY <1>1, <1>2, GoesOff, OwnRowsGo

LEMMA OwnRowsNext == TypeOK /\ OwnRows /\ [Next]_vars => OwnRows'
<1> SUFFICES ASSUME TypeOK, OwnRows, [Next]_vars PROVE OwnRows'
  OBVIOUS
<1>1. CASE \E b \in Browser : Abort(b)
  <2>1. PICK b \in Browser : Abort(b)
    BY <1>1
  <2>2. userId' = userId /\ issued' = issued /\ Become(b, Idle) /\ Idle.pc \notin Loaded
    BY <2>1 DEF Abort, Finish, dbVars, Idle, Loaded
  <2> QED BY <2>2, GoesOff, OwnRowsGo
<1>2. CASE (\E x \in Session : Lapse(x)) \/ UNCHANGED vars
  <2>1. userId' = userId /\ issued' = issued /\ req' = req
    BY <1>2 DEF Lapse, dbVars, vars
  <2> QED BY <2>1 DEF OwnRows
<1> QED BY <1>1, <1>2, OwnRowsLogin, OwnRowsGate, OwnRowsMembers, OwnRowsSelfService DEF Next

\* What deletes a session: its account's removal, its lapse, or its account's request.
EndsOwn(x) ==
  \/ role'[userId[x]] = None
  \/ x \in lapsed
  \/ \E b \in Browser : req[b].pc \in {"act", "end"} /\ req[b].me = userId[x] /\ req'[b].pc = "idle"

LEMMA EndedByAccount ==
  ASSUME TypeOK, OwnRows, Next, NEW x \in Session, userId[x] # None, userId'[x] = None
  PROVE  EndsOwn(x)
<1>0. /\ req \in [Browser -> Request] /\ userId[x] \in Account
      /\ role \in [Account -> Roles \cup {None}] /\ userId \in [Session -> Account \cup {None}]
  BY DEF TypeOK, TablesOK
<1>1. CASE \E b \in Browser : Gate(b)
  <2>1. PICK b \in Browser : Gate(b)
    BY <1>1
  <2>2. PruneLapsed(b)
    BY <2>1, Zenon DEF Gate, LoadSession, Refuse, LoadAccount, dbVars, vars
  <2> QED BY <2>2 DEF PruneLapsed, DeleteSessions, EndsOwn
<1>2. CASE \E b \in Browser : Members(b)
  <2>1. PICK b \in Browser : Members(b)
    BY <1>2
  <2>2. PICK a \in Account : DeleteAccount(a)
    <3>1. DeleteAccount(req[b].target)
      BY <2>1, Zenon DEF Members, ReadTarget, DemoteOwner, SetRole, RemoveOwner, RemoveOther,
             WriteAudit, dbVars
    <3>2. req[b].op = "remove"
      BY <2>1, Zenon DEF Members, ReadTarget, DemoteOwner, SetRole, RemoveOwner, RemoveOther,
             WriteAudit, dbVars
    <3> QED BY <3>1, <3>2 DEF TypeOK, RequestOK
  <2>3. userId[x] = a
    BY <2>2 DEF DeleteAccount
  <2> QED BY <1>0, <2>2, <2>3 DEF DeleteAccount, EndsOwn
<1>3. CASE \E b \in Browser : SelfService(b)
  <2>1. PICK b \in Browser : SelfService(b)
    BY <1>3
  <2>2. CASE Reload(b)
    BY <2>2 DEF Reload, DeleteSessions, EndsOwn
  <2>3. CASE RevokeSession(b) \/ SignOutOthers(b) \/ EndSession(b)
    <3>1. req[b].pc \in {"act", "end"} /\ req'[b].pc = "idle"
      BY <1>0, <2>3 DEF RevokeSession, SignOutOthers, EndSession, Finish, Become, Idle
    <3>2. CASE RevokeSession(b) \/ SignOutOthers(b)
      <4>1. req[b].me = userId[x]
        BY <3>2 DEF RevokeSession, SignOutOthers, DeleteSessions
      <4> QED BY <3>1, <4>1 DEF EndsOwn
    <3>3. CASE EndSession(b)
      <4>1. x = req[b].sid /\ req[b].pc = "end"
        BY <3>3 DEF EndSession, DeleteSessions
      <4>2. req[b].me = userId[x]
        BY <4>1 DEF OwnRows, Loaded
      <4> QED BY <3>1, <4>2 DEF EndsOwn
    <3> QED BY <2>3, <3>2, <3>3
  <2> QED BY <2>1, <2>2, <2>3 DEF SelfService
<1>4. CASE \E b \in Browser : Login(b)
  <2>1. PICK b \in Browser : Login(b)
    BY <1>4
  <2>2. userId' = userId \/ \E y \in Session \ issued : userId' = [userId EXCEPT ![y] = req[b].me]
    BY <2>1, Zenon DEF Login, CompleteLogin, FindAccount, RefreshAccount, CreateAccount,
           InsertAccount, OpenSession, SetCookie, dbVars
  <2>3. x \in issued
    BY DEF OwnRows
  <2> QED BY <1>0, <2>2, <2>3
<1>5. CASE (\E b \in Browser : Abort(b)) \/ \E y \in Session : Lapse(y)
  BY <1>5 DEF Abort, Lapse, dbVars
<1> QED BY <1>1, <1>2, <1>3, <1>4, <1>5 DEF Next

\* With any number of Node processes a session ends only with its account, by lapsing, or
\* by a request of the account it belongs to (account/actions.ts, endSession).
THEOREM SessionsAreOwn == Spec => SessionsEndByTheirAccount
<1>1. TypeOK /\ OwnRows /\ [Next]_vars =>
        [\A x \in Session :
           userId[x] # None /\ userId'[x] = None =>
             \/ role'[userId[x]] = None
             \/ x \in lapsed
             \/ \E b \in Browser : /\ req[b].pc \in {"act", "end"}
                                  /\ req[b].me = userId[x]
                                  /\ req'[b].pc = "idle"]_vars
  BY EndedByAccount DEF EndsOwn
<1>2. Init => OwnRows
  BY DEF Init, OwnRows, Loaded, Idle
<1> QED
  BY <1>1, <1>2, OwnRowsNext, TypeCorrect, PTL DEF Spec, SessionsEndByTheirAccount
=============================================================================
