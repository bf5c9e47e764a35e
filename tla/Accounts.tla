------------------------------ MODULE Accounts ------------------------------
(***************************************************************************)
(* Headtower's accounts, roles and login sessions in OIDC mode: the rows   *)
(* of app_user and session, the OIDC callback that creates them            *)
(* (lib/auth/session.ts), the gate every Server Action passes              *)
(* (lib/authz), the Members page and the self-service Account page.        *)
(*                                                                         *)
(* Grain.  One action is one SQL statement, which SQLite runs atomically.  *)
(* Requests of one Node process (an Instance) interleave only where they   *)
(* wait for something outside the JavaScript thread: the database driver   *)
(* is synchronous, so an await on a query never lets another request in,   *)
(* while signing or verifying a token runs on the crypto thread pool and   *)
(* does.  OnThread names the points at which a request keeps the thread.   *)
(* Requests of two instances that share the database file interleave at    *)
(* every statement.                                                        *)
(***************************************************************************)

EXTENDS Naturals, FiniteSets

CONSTANTS Account,   \* primary keys of app_user (random UUIDs)
          Session,   \* primary keys of session (random UUIDs)
          Subject,   \* OIDC `sub` values
          Browser,   \* clients; each has at most one request in flight
          Instance,  \* Node processes sharing the database file
          None       \* SQL's and JavaScript's "no value"

ASSUME NoneAssumption ==
  /\ None \notin Account \cup Session \cup Subject \cup Instance
  /\ None \notin {"owner", "admin", "operator", "viewer", "other"}
  /\ Account \cap Session = {}

Roles == {"owner", "admin", "operator", "viewer"}
DefaultRole == "operator"

\* What a caller may send as a role: "other" stands for every unknown string.
RoleInput == Roles \cup {"other"}
IsRole(r) == r \in Roles

Ops == {"none", "login", "role", "remove", "revoke", "revokeOthers", "logout"}

VARIABLES
  role,      \* app_user.role by primary key, None where there is no row
  sub,       \* app_user.sub by primary key
  userId,    \* session.user_id by primary key, None where there is no row
  lapsed,    \* sessions whose expires_at has passed
  issued,    \* every UUID ever generated: a key is never reused
  cookie,    \* the session named by each browser's ht_session cookie
  req,       \* the request each browser has in flight
  audited    \* targets of the member.remove entries of audit_log

dbVars == <<role, sub, userId, issued>>
vars == <<role, sub, userId, lapsed, issued, cookie, req, audited>>

-----------------------------------------------------------------------------
(* Requests                                                                *)

\* Between two statements a request on one of these points keeps its thread.
OnThread == {"find", "refresh", "create", "open",   \* upsertOidcUser, createSession
             "account",                             \* loadSession, second read
             "target", "write", "audit",            \* the Members actions
             "act"}                                 \* the Account page's deletes

\* Here it waits for the crypto thread pool (sign, or verify once more).
OffThread == {"idle", "sign", "reload", "end"}

Request ==
  [pc     : OnThread \cup OffThread,
   at     : Instance \cup {None},
   op     : Ops,
   who    : Subject \cup {None},       \* the identity the provider returned
   sid    : Session \cup {None},       \* loaded.sessionId
   me     : Account \cup {None},       \* the caller's account, user.id
   ownerSeen : BOOLEAN,                \* ownerExists, as read
   target : Account \cup Session \cup {None},
   new    : RoleInput \cup {None},
   seen   : Roles \cup {None}]         \* the role of the row read last

Idle == [pc |-> "idle", at |-> None, op |-> "none", who |-> None, sid |-> None,
         me |-> None, ownerSeen |-> FALSE, target |-> None, new |-> None,
         seen |-> None]

Live == {a \in Account : role[a] # None}
Owners == {a \in Account : role[a] = "owner"}

ThreadFree(i) == \A b \in Browser : req[b].at = i => req[b].pc \notin OnThread

Become(b, q) == req' = [req EXCEPT ![b] = q]
Finish(b) == Become(b, Idle)
Goto(b, pc) == Become(b, [req[b] EXCEPT !.pc = pc])

\* DELETE FROM app_user: the foreign key cascades to the account's sessions.
DeleteAccount(a) ==
  /\ role' = [role EXCEPT ![a] = None]
  /\ sub' = [sub EXCEPT ![a] = None]
  /\ userId' = [x \in Session |-> IF userId[x] = a THEN None ELSE userId[x]]

DeleteSessions(S) ==
  userId' = [x \in Session |-> IF x \in S THEN None ELSE userId[x]]

-----------------------------------------------------------------------------
(* Signing in: the OIDC callback                                           *)

\* BOUND: a login starts only while fresh keys remain for all those in flight.
KeysLeft ==
  LET logins == Cardinality({b \in Browser : req[b].op = "login"})
  IN  /\ logins < Cardinality(Account \ issued)
      /\ logins < Cardinality(Session \ issued)

\* completeLogin has returned an identity; upsertOidcUser reads ownerExists.
CompleteLogin(b, i, s) ==
  /\ req[b].pc = "idle"
  /\ ThreadFree(i) /\ KeysLeft
  /\ Become(b, [Idle EXCEPT !.pc = "find", !.at = i, !.op = "login", !.who = s,
                            !.ownerSeen = (Owners # {})])
  /\ UNCHANGED <<dbVars, lapsed, cookie, audited>>

\* SELECT ... WHERE sub = identity.sub
FindAccount(b) ==
  /\ req[b].pc = "find"
  /\ \/ \E a \in Live :
          /\ sub[a] = req[b].who
          /\ Become(b, [req[b] EXCEPT !.pc = "refresh", !.me = a, !.seen = role[a]])
     \/ /\ \A a \in Live : sub[a] # req[b].who
        /\ Goto(b, "create")
  /\ UNCHANGED <<dbVars, lapsed, cookie, audited>>

\* MUTANT: every returning account is promoted.
Promote_Always(b) == req[b].seen # "owner"
Promote(b) == ~req[b].ownerSeen /\ req[b].seen # "owner"

\* UPDATE ... WHERE id = existing.id, promoting when no owner was seen.  With
\* the row gone there is no `updated` and the callback fails on user.id.
RefreshAccount(b) ==
  LET a == req[b].me
  IN  /\ req[b].pc = "refresh"
      /\ \/ /\ role[a] # None
            /\ role' = [role EXCEPT ![a] = IF Promote(b) THEN "owner" ELSE @]
            /\ Goto(b, "open")
         \/ /\ role[a] = None
            /\ UNCHANGED role
            /\ Finish(b)
      /\ UNCHANGED <<sub, userId, issued, lapsed, cookie, audited>>

InsertAccount(b) ==
  \E a \in Account \ issued :
    /\ role' = [role EXCEPT ![a] = IF req[b].ownerSeen THEN DefaultRole ELSE "owner"]
    /\ sub' = [sub EXCEPT ![a] = req[b].who]
    /\ issued' = issued \cup {a}
    /\ Become(b, [req[b] EXCEPT !.pc = "open", !.me = a])

\* INSERT INTO app_user; the UNIQUE index on sub rejects a second row.
CreateAccount(b) ==
  /\ req[b].pc = "create"
  /\ \/ /\ \A a \in Live : sub[a] # req[b].who
        /\ InsertAccount(b)
     \/ /\ \E a \in Live : sub[a] = req[b].who
        /\ UNCHANGED <<role, sub, issued>>
        /\ Finish(b)
  /\ UNCHANGED <<userId, lapsed, cookie, audited>>

\* createSession: INSERT INTO session; the foreign key needs the account.
OpenSession(b) ==
  /\ req[b].pc = "open"
  /\ \/ /\ role[req[b].me] # None
        /\ \E x \in Session \ issued :
             /\ userId' = [userId EXCEPT ![x] = req[b].me]
             /\ issued' = issued \cup {x}
             /\ Become(b, [req[b] EXCEPT !.pc = "sign", !.sid = x])
     \/ /\ role[req[b].me] = None
        /\ UNCHANGED <<userId, issued>>
        /\ Finish(b)
  /\ UNCHANGED <<role, sub, lapsed, cookie, audited>>

\* The token is signed and the redirect sets it as the browser's cookie.
SetCookie(b) ==
  /\ req[b].pc = "sign"
  /\ ThreadFree(req[b].at)
  /\ cookie' = [cookie EXCEPT ![b] = req[b].sid]
  /\ Finish(b)
  /\ UNCHANGED <<dbVars, lapsed, audited>>

-----------------------------------------------------------------------------
(* The gate: getSession -> loadSession, requireSession, authorize          *)

\* The cookie's signature is verified and loadSession reads the session row.
LoadSession(b, i, op, t, r) ==
  /\ req[b].pc = "idle"
  /\ ThreadFree(i)
  /\ cookie[b] # None /\ userId[cookie[b]] # None /\ cookie[b] \notin lapsed
  /\ Become(b, [Idle EXCEPT !.pc = "account", !.at = i, !.op = op, !.target = t,
                            !.new = r, !.sid = cookie[b], !.me = userId[cookie[b]]])
  /\ UNCHANGED <<dbVars, lapsed, cookie, audited>>

\* No cookie, or its row is gone: requireSession throws and nothing changes.
Refuse(b) ==
  /\ req[b].pc = "idle"
  /\ IF cookie[b] = None THEN TRUE ELSE userId[cookie[b]] = None
  /\ UNCHANGED vars

\* A lapsed row is dropped and the caller treated as signed out.
PruneLapsed(b) ==
  /\ req[b].pc = "idle"
  /\ cookie[b] \in lapsed
  /\ DeleteSessions({cookie[b]})
  /\ UNCHANGED <<role, sub, issued, lapsed, cookie, req, audited>>

\* can(role, capability): only the owner role holds members.manage.
MayManageMembers_Admin(r) == r \in {"owner", "admin"}   \* MUTANT
MayManageMembers(r) == r = "owner"

Passes(b) ==
  LET q == req[b]
  IN  /\ role[q.me] # None
      /\ q.op \in {"role", "remove"} => MayManageMembers(role[q.me])
      /\ q.op = "role" => IsRole(q.new)

\* loadSession reads the account; authorize checks the capability, and
\* updateMemberRole then that the role it was sent is a known one.
LoadAccount(b) ==
  /\ req[b].pc = "account"
  /\ \/ ~Passes(b) /\ Finish(b)
     \/ Passes(b) /\ req[b].op \in {"role", "remove"} /\ Goto(b, "target")
     \/ Passes(b) /\ req[b].op \in {"revoke", "revokeOthers"} /\ Goto(b, "reload")
     \/ Passes(b) /\ req[b].op = "logout" /\ Goto(b, "end")
  /\ UNCHANGED <<dbVars, lapsed, cookie, audited>>

-----------------------------------------------------------------------------
(* Settings > Members: updateMemberRole and removeMember                   *)

\* SELECT the target; refuse a missing one, and removing oneself.
ReadTarget(b) ==
  LET t == req[b].target
  IN  /\ req[b].pc = "target"
      /\ IF role[t] = None \/ (req[b].op = "remove" /\ t = req[b].me)
         THEN Finish(b)
         ELSE Become(b, [req[b] EXCEPT !.pc = "write", !.seen = role[t]])
      /\ UNCHANGED <<dbVars, lapsed, cookie, audited>>

\* WHERE id = ? AND role = 'owner' AND (SELECT count(*) ... 'owner') > 1
NotLastOwner_NoCount(t) == t \in Owners     \* MUTANT
NotLastOwner(t) == t \in Owners /\ \E o \in Owners : o # t

\* The row was read as an owner's and is to be demoted: guarded UPDATE.
DemoteOwner(b) ==
  LET t == req[b].target
  IN  /\ req[b].pc = "write" /\ req[b].op = "role"
      /\ req[b].seen = "owner" /\ req[b].new # "owner"
      /\ \/ /\ NotLastOwner(t)
            /\ role' = [role EXCEPT ![t] = req[b].new]
            /\ Goto(b, "audit")
         \/ /\ ~NotLastOwner(t)
            /\ UNCHANGED role
            /\ Finish(b)
      /\ UNCHANGED <<sub, userId, issued, lapsed, cookie, audited>>

\* Any other change of role: a plain UPDATE ... WHERE id = memberId.
SetRole(b) ==
  LET t == req[b].target
  IN  /\ req[b].pc = "write" /\ req[b].op = "role"
      /\ req[b].seen # "owner" \/ req[b].new = "owner"
      /\ role' = [role EXCEPT ![t] = IF @ = None THEN None ELSE req[b].new]
      /\ Goto(b, "audit")
      /\ UNCHANGED <<sub, userId, issued, lapsed, cookie, audited>>

\* The row was read as an owner's: guarded DELETE.
RemoveOwner(b) ==
  LET t == req[b].target
  IN  /\ req[b].pc = "write" /\ req[b].op = "remove" /\ req[b].seen = "owner"
      /\ \/ /\ NotLastOwner(t)
            /\ DeleteAccount(t)
            /\ Goto(b, "audit")
         \/ /\ ~NotLastOwner(t)
            /\ UNCHANGED <<role, sub, userId>>
            /\ Finish(b)
      /\ UNCHANGED <<issued, lapsed, cookie, audited>>

\* Any other removal: a plain DELETE ... WHERE id = memberId.
RemoveOther(b) ==
  /\ req[b].pc = "write" /\ req[b].op = "remove" /\ req[b].seen # "owner"
  /\ DeleteAccount(req[b].target)
  /\ Goto(b, "audit")
  /\ UNCHANGED <<issued, lapsed, cookie, audited>>

\* audit(): best effort, so the entry may be missing.  Only removals are kept.
WriteAudit(b) ==
  /\ req[b].pc = "audit"
  /\ \/ audited' = IF req[b].op = "remove" THEN audited \cup {req[b].target}
                                           ELSE audited
     \/ UNCHANGED audited
  /\ Finish(b)
  /\ UNCHANGED <<dbVars, lapsed, cookie>>

-----------------------------------------------------------------------------
(* The Account page and sign-out                                           *)

\* The action's own loadSession call: token verified again, row read again and
\* dropped if it lapsed meanwhile.  revokeSession refuses its own session, and
\* signOutOtherSessions needs one.
Reload(b) ==
  LET x == req[b].sid
      loaded == userId[x] # None /\ x \notin lapsed
  IN  /\ req[b].pc = "reload"
      /\ ThreadFree(req[b].at)
      /\ IF \/ req[b].op = "revoke" /\ loaded /\ req[b].target = x
            \/ req[b].op = "revokeOthers" /\ ~loaded
         THEN Finish(b) ELSE Goto(b, "act")
      /\ DeleteSessions({x} \cap lapsed)
      /\ UNCHANGED <<role, sub, issued, lapsed, cookie, audited>>

\* WHERE id = ? AND user_id = caller
RevokeSession(b) ==
  /\ req[b].pc = "act" /\ req[b].op = "revoke"
  /\ DeleteSessions({x \in Session : x = req[b].target /\ userId[x] = req[b].me})
  /\ Finish(b)
  /\ UNCHANGED <<role, sub, issued, lapsed, cookie, audited>>

\* WHERE user_id = caller AND id <> loaded.sessionId
SignOutOthers(b) ==
  /\ req[b].pc = "act" /\ req[b].op = "revokeOthers"
  /\ DeleteSessions({x \in Session : userId[x] = req[b].me /\ x # req[b].sid})
  /\ Finish(b)
  /\ UNCHANGED <<role, sub, issued, lapsed, cookie, audited>>

\* endSession: the row the token names is deleted and the cookie cleared.
EndSession(b) ==
  /\ req[b].pc = "end"
  /\ ThreadFree(req[b].at)
  /\ DeleteSessions({req[b].sid})
  /\ cookie' = [cookie EXCEPT ![b] = None]
  /\ Finish(b)
  /\ UNCHANGED <<role, sub, issued, lapsed, audited>>

-----------------------------------------------------------------------------
(* The environment                                                         *)

\* A statement throws (SQLITE_BUSY) or the process dies: the rest is lost.
Abort(b) ==
  /\ req[b].pc # "idle"
  /\ Finish(b)
  /\ UNCHANGED <<dbVars, lapsed, cookie, audited>>

\* Seven days have passed since the session was opened.
Lapse(x) ==
  /\ userId[x] # None
  /\ lapsed' = lapsed \cup {x}
  /\ UNCHANGED <<dbVars, cookie, req, audited>>

-----------------------------------------------------------------------------
Init ==
  /\ role = [a \in Account |-> None]
  /\ sub = [a \in Account |-> None]
  /\ userId = [x \in Session |-> None]
  /\ lapsed = {}
  /\ issued = {}
  /\ cookie = [b \in Browser |-> None]
  /\ req = [b \in Browser |-> Idle]
  /\ audited = {}

Login(b) == \/ \E i \in Instance, s \in Subject : CompleteLogin(b, i, s)
            \/ FindAccount(b) \/ RefreshAccount(b) \/ CreateAccount(b)
            \/ OpenSession(b) \/ SetCookie(b)

Gate(b) ==
  \/ \E i \in Instance :
       \/ \E t \in Account, r \in RoleInput : LoadSession(b, i, "role", t, r)
       \/ \E t \in Account : LoadSession(b, i, "remove", t, None)
       \/ \E x \in Session : LoadSession(b, i, "revoke", x, None)
       \/ \E op \in {"revokeOthers", "logout"} : LoadSession(b, i, op, None, None)
  \/ Refuse(b)
  \/ PruneLapsed(b)
  \/ LoadAccount(b)

Members(b) == \/ ReadTarget(b) \/ DemoteOwner(b) \/ SetRole(b)
              \/ RemoveOwner(b) \/ RemoveOther(b) \/ WriteAudit(b)

SelfService(b) == Reload(b) \/ RevokeSession(b) \/ SignOutOthers(b) \/ EndSession(b)

Next ==
  \/ \E b \in Browser : Login(b) \/ Gate(b) \/ Members(b) \/ SelfService(b) \/ Abort(b)
  \/ \E x \in Session : Lapse(x)

Spec == Init /\ [][Next]_vars

-----------------------------------------------------------------------------
(* Properties of any number of instances                                   *)

\* What a request carries at each point, by what its last step stored.
RequestOK(q) ==
  /\ q.pc # "idle" => q.at \in Instance
  /\ q.pc \in {"find", "create", "refresh"} => q.who \in Subject
  /\ q.pc \in {"refresh", "open", "account", "target", "write", "reload", "act"} =>
       q.me \in Account
  /\ q.pc \in {"sign", "account", "reload", "act", "end"} => q.sid \in Session
  /\ q.op \in {"role", "remove"} => q.target \in Account
  /\ q.pc = "target" /\ q.op = "role" => q.new \in Roles
  /\ q.pc = "write" => q.op \in {"role", "remove"} /\ q.seen \in Roles
  /\ q.pc = "write" /\ q.op = "role" => q.new \in Roles
  /\ q.pc = "target" => q.op \in {"role", "remove"}

TablesOK ==
  /\ role \in [Account -> Roles \cup {None}]
  /\ sub \in [Account -> Subject \cup {None}]
  /\ userId \in [Session -> Account \cup {None}]
  /\ lapsed \in SUBSET Session
  /\ issued \in SUBSET (Account \cup Session)
  /\ cookie \in [Browser -> Session \cup {None}]
  /\ audited \in SUBSET Account

\* Types; in particular app_user.role, free text in the schema, only ever holds
\* a known role (isRole in updateMemberRole).
TypeOK ==
  /\ TablesOK
  /\ req \in [Browser -> Request]
  /\ \A b \in Browser : RequestOK(req[b])

\* A removed account keeps no session, even when it is removed while one of its
\* logins is between upsertOidcUser and createSession.
SessionsBelongToAccounts ==
  \A x \in Session : userId[x] # None => userId[x] \in Live

\* One OIDC identity is one account, even when its first two logins race.
SubUnique == \A a, c \in Live : sub[a] = sub[c] => a = c

\* A session row disappears only with its account, by lapsing, or by a request
\* of the very account it belongs to ("an account can only ever touch rows it
\* owns", account/actions.ts).
SessionsEndByTheirAccount ==
  [][\A x \in Session :
       userId[x] # None /\ userId'[x] = None =>
         \/ role'[userId[x]] = None
         \/ x \in lapsed
         \/ \E b \in Browser : /\ req[b].pc \in {"act", "end"}
                              /\ req[b].me = userId[x]
                              /\ req'[b].pc = "idle"]_vars

-----------------------------------------------------------------------------
(* Properties of a single instance                                         *)

\* While there are accounts, one of them is an owner: "Refuses to demote the
\* last owner", "Refuses to remove the last owner" (members/actions.ts).
HasOwner == Live # {} => Owners # {}

\* JavaScript runs to completion: two requests are never on one thread at once.
OneRequestOnThread ==
  \A b, c \in Browser :
    req[b].pc \in OnThread /\ req[c].pc \in OnThread /\ req[b].at = req[c].at => b = c

Current(q) ==
  /\ q.pc \in {"find", "refresh", "create"} => q.ownerSeen = (Owners # {})
  /\ q.pc \in {"refresh", "open"} => q.me \in Live
  /\ q.pc = "refresh" => q.seen = role[q.me]
  /\ q.pc = "create" => \A a \in Live : sub[a] # q.who
  /\ q.pc \in {"target", "write"} => role[q.me] = "owner"
  /\ q.pc = "write" => q.seen = role[q.target]

\* So what a request has read is still true when it acts on it.
ReadsAreCurrent == \A b \in Browser : Current(req[b])

\* The synchronous driver is what makes the read-then-write operations of
\* upsertOidcUser and of the Members actions atomic within a process.
ReadThenWriteIsAtomic == OneRequestOnThread /\ ReadsAreCurrent

\* An account becomes an owner only when there is none (the bootstrap rule of
\* upsertOidcUser) or by an owner's grant.
OwnershipIsGranted ==
  [][\A a \in Account :
       role[a] # "owner" /\ role'[a] = "owner" =>
         \/ Owners = {}
         \/ \E b \in Browser : /\ req[b].pc = "write" /\ req[b].target = a
                              /\ role[req[b].me] = "owner"]_vars

\* Nobody loses or changes a role, or an account, except by a request whose
\* caller is an owner at that very moment, not only when the gate let it in.
RoleChangesByOwners ==
  [][\A a \in Account :
       role[a] # None /\ role'[a] # role[a] /\ Owners # {} =>
         \E b \in Browser : /\ req[b].pc = "write" /\ req[b].target = a
                           /\ role[req[b].me] = "owner"]_vars
=============================================================================
