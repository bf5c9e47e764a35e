----------------------------- MODULE ConfigStore -----------------------------
(***************************************************************************)
(* The configuration: rows of app_settings over an environment bootstrap   *)
(* (lib/config), and its writers: the setup wizard and the Connection,     *)
(* Agent and Dashboard actions.  setConfig validates and writes section by *)
(* section, row by row, and may throw after rows are written.              *)
(*                                                                         *)
(* Grain: one action is one SQL statement.  setConfig awaits nothing, so   *)
(* only a death of the process, or another process, comes in between.      *)
(***************************************************************************)
EXTENDS Sequences

CONSTANTS Operator,   \* people with a wizard or a settings page
          Instance,   \* Node processes sharing the database file
          Url, Key,   \* addresses and secrets that pass validation
          Provider,   \* OIDC credentials, one name for the three of them
          EnvText,    \* BOUND: the values the environment may give
          Master,     \* values of HEADTOWER_SECRET
          Setting,    \* BOUND: the pages in use, with the rows the environment gives
          Bad,        \* an input or environment value that fails validation
          None

ASSUME ConfigAssumption ==
  /\ None \notin Url \cup Key \cup Provider \cup Master \cup BOOLEAN \cup {Bad}
  /\ Bad \notin Url \cup Key \cup Provider
  /\ {"keep", ""} \cap (Url \cup Key \cup {Bad}) = {}
  \* None stands for what is absent, and is neither a row nor a section.
  /\ None \notin [text : Url \cup Key \cup Provider \cup BOOLEAN, under : Master \cup {None}]
  /\ None \notin [url : Url, key : Key, login : Url] \cup (Provider \X Provider \X Provider)
  /\ \A s \in Setting :
       /\ s.rows \subseteq {"url", "key", "issuer", "agentUrl", "agentSecret"}
       /\ s.pages \subseteq {"setup", "connection", "agent", "toggle", "clearOidc"}

Row == {"url", "key", "login", "issuer", "client", "secret",
        "agentUrl", "agentSecret", "agentOn"}

Text(row) ==
  CASE row \in {"url", "login", "agentUrl"} -> Url
    [] row \in {"key", "agentSecret"} -> Key
    [] row \in {"issuer", "client", "secret"} -> Provider
    [] row = "agentOn" -> BOOLEAN

VARIABLES
  store,     \* app_settings
  env,       \* the environment bootstrap
  master,    \* HEADTOWER_SECRET, None when unset
  setting,   \* which of the bounds applies; it never changes
  req,       \* the request each operator has in flight
  torn,      \* history: sections a process died in the middle of writing
  given,     \* history: the URL and key of the save that last wrote a key
  choice     \* history: the agent switch as last acknowledged

vars == <<store, env, master, setting, req, torn, given, choice>>

-----------------------------------------------------------------------------
(* getConfig: rows over environment, secrets by the key they were sealed   *)
(* with                                                                    *)

Sealed(row, x) == [row |-> row, text |-> x, under |-> master]
Plain(row, x) == [row |-> row, text |-> x, under |-> None]
Delete(row) == [row |-> row, text |-> None, under |-> None]
Throw == [row |-> "throw", text |-> None, under |-> None]

\* decodeSecret: a value sealed under another secret reads as absent, and hides
\* the environment's.
Read(row) ==
  IF store[row] = None THEN env[row]
  ELSE IF store[row].under \in {None, master} THEN store[row].text ELSE None

\* tryNormalizeUrl
UrlOf(row) == IF Read(row) = Bad THEN None ELSE Read(row)

Headscale ==
  IF UrlOf("url") = None \/ Read("key") = None THEN None
  ELSE [url   |-> UrlOf("url"), key |-> Read("key"),
        login |-> IF UrlOf("login") = None THEN UrlOf("url") ELSE UrlOf("login")]

Oidc ==
  IF \E row \in {"issuer", "client", "secret"} : Read(row) = None THEN None
  ELSE <<Read("issuer"), Read("client"), Read("secret")>>

Agent == [url    |-> UrlOf("agentUrl"),
          secret |-> Read("agentSecret"),
          on     |-> IF Read("agentOn") = None THEN UrlOf("agentUrl") # None
                                               ELSE Read("agentOn")]

-----------------------------------------------------------------------------
(* setConfig: the statements an input comes to, or the throw they end in   *)

\* MUTANT: the key is stored before the URL is looked at.
HeadscaleWrites_KeyFirst(c) ==
  <<Sealed("key", c.key)>> \o
    IF c.url = Bad THEN <<Throw>>
    ELSE <<Plain("url", c.url)>> \o
      CASE c.login = "keep" -> <<>>
        [] c.login = "" -> <<Delete("login")>>
        [] c.login = Bad -> <<Throw>>
        [] OTHER -> <<Plain("login", c.login)>>

\* MUTANT: a blank login-server URL is taken for one left out.
HeadscaleWrites_BlankKeeps(c) ==
  IF c.url = Bad THEN <<Throw>>
  ELSE <<Plain("url", c.url), Sealed("key", c.key)>> \o
    CASE c.login \in {"keep", ""} -> <<>>
      [] c.login = Bad -> <<Throw>>
      [] OTHER -> <<Plain("login", c.login)>>

HeadscaleWrites(c) ==
  IF c.url = Bad THEN <<Throw>>
  ELSE <<Plain("url", c.url), Sealed("key", c.key)>> \o
    CASE c.login = "keep" -> <<>>
      [] c.login = "" -> <<Delete("login")>>
      [] c.login = Bad -> <<Throw>>
      [] OTHER -> <<Plain("login", c.login)>>

OidcWrites(p) ==
  CASE p = None -> <<Delete("issuer"), Delete("client"), Delete("secret")>>
    [] p = Bad -> <<Throw>>
    [] OTHER -> <<Plain("issuer", p), Plain("client", p), Sealed("secret", p)>>

SecretWrites(x) ==
  CASE x = "keep" -> <<>>
    [] x = "" -> <<Delete("agentSecret")>>
    [] OTHER -> <<Sealed("agentSecret", x)>>

\* MUTANT: the switch is only written when it is on.
AgentWrites_OnlyOn(a) ==
  IF a.url = Bad THEN <<Throw>>
  ELSE <<Plain("agentUrl", a.url)>> \o SecretWrites(a.secret)
         \o (IF a.on THEN <<Plain("agentOn", TRUE)>> ELSE <<>>)

AgentWrites(a) ==
  IF a.url = Bad THEN <<Throw>>
  ELSE <<Plain("agentUrl", a.url)>> \o SecretWrites(a.secret) \o <<Plain("agentOn", a.on)>>

-----------------------------------------------------------------------------
(* Requests                                                                *)

Idle == [pc |-> "idle", at |-> None, op |-> None, todo |-> <<>>, want |-> None,
         wrote |-> FALSE]

ThreadFree(i) == \A r \in Operator : req[r].at # i

Sections(op) == CASE op = "setup" -> {"headscale", "oidc"}
                  [] op = "connection" -> {"headscale"}
                  [] op = "clearOidc" -> {"oidc"}
                  [] OTHER -> {"agent"}

Begin(r, i, op, writes, want) ==
  /\ op \in setting.pages /\ req[r].pc = "idle" /\ ThreadFree(i)
  /\ req' = [req EXCEPT ![r] = [pc |-> "write", at |-> i, op |-> op, todo |-> writes,
                                want |-> want, wrote |-> FALSE]]
  /\ UNCHANGED <<store, env, master, setting, torn, given, choice>>

\* What remains when the rows are cleared.
EnvOidc == IF env["issuer"] = None THEN None
           ELSE <<env["issuer"], env["client"], env["secret"]>>

\* What the input asks for: a login-server URL left out stays.
Asked(c, oidc) ==
  [url |-> c.url, key |-> c.key, oidc |-> oidc,
   login |-> CASE c.login = "keep" -> IF UrlOf("login") = None THEN c.url ELSE UrlOf("login")
               [] c.login = "" -> c.url
               [] OTHER -> c.login]

\* completeSetupAction, while there is no connection; with one it only redirects.
CompleteSetup(r, i, url, key, p) ==
  LET c == [url |-> url, key |-> key, login |-> "keep"]
  IN  /\ Headscale = None
      /\ Begin(r, i, "setup", HeadscaleWrites(c) \o OidcWrites(p),
               Asked(c, IF p = None THEN EnvOidc ELSE <<p, p, p>>))

\* saveConnection: a blank key ("") reuses the effective one, if there is one.
SaveConnection(r, i, url, key, login) ==
  /\ key = "" => Headscale # None
  /\ LET c == [url |-> url, login |-> login,
               key |-> IF key = "" THEN Headscale.key ELSE key]
     IN  Begin(r, i, "connection", HeadscaleWrites(c), Asked(c, Oidc))

\* saveAgent
SaveAgent(r, i, url, secret, on) ==
  Begin(r, i, "agent", AgentWrites([url |-> url, secret |-> secret, on |-> on]),
           [url |-> url, on |-> on,
            secret |-> CASE secret = "keep" -> Agent.secret
                         [] secret = "" -> env["agentSecret"]
                         [] OTHER -> secret])

\* setAgentEnabled: writes the URL it has read back with the flag.
SetAgentEnabled(r, i, on) ==
  /\ Agent.url # None
  /\ Begin(r, i, "toggle", AgentWrites([url |-> Agent.url, secret |-> "keep", on |-> on]),
           [Agent EXCEPT !.on = on])

\* setConfig({ oidc: null }), which disableAll and the migration call when there
\* is a provider to clear: the environment's, if any, is what remains.
ClearOidc(r, i) ==
  Oidc # None /\ Begin(r, i, "clearOidc", OidcWrites(None), [oidc |-> EnvOidc])

-----------------------------------------------------------------------------
(* The statements                                                          *)

\* writeSetting or deleteSetting
Write(r) ==
  LET w == Head(req[r].todo)
  IN  /\ req[r].todo # <<>> /\ w # Throw
      /\ store' = [store EXCEPT ![w.row] =
                     IF w.text = None THEN None ELSE [text |-> w.text, under |-> w.under]]
      /\ req' = [req EXCEPT ![r].todo = Tail(@), ![r].wrote = @ \/ store' # store]
      /\ given' = IF w.row = "key" THEN <<req[r].want.url, req[r].want.key>> ELSE given
      /\ UNCHANGED <<env, master, setting, torn, choice>>

\* A ConfigError: the rows written before it stay.
Refuse(r) ==
  /\ req[r].todo # <<>> /\ Head(req[r].todo) = Throw
  /\ req' = [req EXCEPT ![r] = Idle]
  /\ UNCHANGED <<store, env, master, setting, torn, given, choice>>

\* The action audits and answers; a section written in full is whole again.
Succeed(r) ==
  /\ req[r].pc = "write" /\ req[r].todo = <<>>
  /\ req' = [req EXCEPT ![r] = Idle]
  /\ torn' = torn \ Sections(req[r].op)
  /\ choice' = IF req[r].op \in {"agent", "toggle"} THEN req[r].want.on ELSE choice
  /\ UNCHANGED <<store, env, master, setting, given>>

\* The process dies, or a statement throws.
Abort(r) ==
  /\ req[r].pc = "write"
  /\ req' = [req EXCEPT ![r] = Idle]
  /\ torn' = IF req[r].wrote THEN torn \cup Sections(req[r].op) ELSE torn
  /\ UNCHANGED <<store, env, master, setting, given, choice>>

EnvOf(row) ==
  {None} \cup (IF row \notin setting.rows THEN {}
               ELSE EnvText \cap (Text(row) \cup IF row \in {"url", "agentUrl"} THEN {Bad} ELSE {}))

\* The OIDC variables are set together.
Environments ==
  {[row \in Row |-> CASE row \in {"issuer", "client", "secret"} -> p
                      [] row = "url" -> u [] row = "key" -> k
                      [] row = "agentUrl" -> a [] row = "agentSecret" -> x
                      [] OTHER -> None] :
     p \in EnvOf("issuer"), u \in EnvOf("url"), k \in EnvOf("key"),
     a \in EnvOf("agentUrl"), x \in EnvOf("agentSecret")}

\* A new start with another environment, and perhaps a rotated HEADTOWER_SECRET.
Redeploy(e, m) ==
  /\ \A r \in Operator : req[r].pc = "idle"
  /\ env' = e /\ master' = m
  /\ UNCHANGED <<store, setting, req, torn, given, choice>>

Init ==
  /\ store = [row \in Row |-> None]
  /\ setting \in Setting
  /\ env \in Environments /\ master \in Master \cup {None}
  /\ req = [r \in Operator |-> Idle]
  /\ torn = {} /\ given = None /\ choice = None

Submit(r, i) ==
  \/ \E u \in Url \cup {Bad}, k \in Key :
       \/ \E p \in Provider \cup {Bad, None} : CompleteSetup(r, i, u, k, p)
       \/ \E l \in Url \cup {Bad, "keep", ""} : SaveConnection(r, i, u, k, l)
  \/ \E u \in Url \cup {Bad}, l \in Url \cup {Bad, "keep", ""} : SaveConnection(r, i, u, "", l)
  \/ \E u \in Url \cup {Bad}, s \in Key \cup {"keep", ""}, on \in BOOLEAN :
       SaveAgent(r, i, u, s, on)
  \/ \E on \in BOOLEAN : SetAgentEnabled(r, i, on)
  \/ ClearOidc(r, i)

Step(r) == Write(r) \/ Refuse(r) \/ Succeed(r) \/ Abort(r)

Next ==
  \/ \E r \in Operator : (\E i \in Instance : Submit(r, i)) \/ Step(r)
  \/ \E e \in Environments, m \in Master \cup {None} : Redeploy(e, m)

Spec == Init /\ [][Next]_vars

-----------------------------------------------------------------------------
(* Properties                                                              *)

Quiet == \A r \in Operator : req[r].pc = "idle"

\* The effective connection never joins the URL of one save with the key of another,
\* nor a stored half with the environment's: refused saves, rotated secrets and
\* new environments included, unless a process died within a save that no later
\* save has mended.
ConnectionPaired ==
  Quiet /\ "headscale" \notin torn /\ Headscale # None =>
    <<Headscale.url, Headscale.key>> \in {given, <<env["url"], env["key"]>>}

Effective(op) ==
  CASE op \in {"agent", "toggle"} -> Agent
    [] op = "clearOidc" -> [oidc |-> Oidc]
    [] OTHER -> IF Headscale = None THEN None
                ELSE [url |-> Headscale.url, key |-> Headscale.key, oidc |-> Oidc,
                      login |-> Headscale.login]

\* What a save reports as done is what getConfig returns from then on, whatever
\* the environment says, whatever a crash or a rotated secret had left behind,
\* and with the fields and sections it was not given kept.
SavedIsEffective ==
  \A r \in Operator :
    req[r].pc = "write" /\ req[r].todo = <<>> => Effective(req[r].op) = req[r].want

\* The agent stays as it was last switched, through later saves, refusals and
\* environments, unless a process died within a save.
AgentChoiceHolds ==
  Quiet /\ "agent" \notin torn /\ choice # None => Agent.on = choice

\* "Persistence is atomic on finish: ... a half-finished wizard never leaves a
\* partial config": what is refused has stored nothing.
SetupAllOrNothing ==
  \A r \in Operator :
    req[r].op = "setup" /\ req[r].todo # <<>> /\ Head(req[r].todo) = Throw =>
      ~req[r].wrote
=============================================================================
