------------------------------ MODULE OidcLogin ------------------------------
(***************************************************************************)
(* OIDC providers, their discovery cache and the login transaction         *)
(* (lib/auth/oidc-providers, lib/auth/oidc, app/login, the Identity        *)
(* providers and Authentication pages) on one Node process and one browser *)
(* with several tabs.                                                      *)
(*                                                                         *)
(* Grain: the store is synchronous, so what runs between two awaits is one *)
(* action: a page's change together with its eviction, a handler up to the *)
(* wait for discovery, and from its answer to its response.  The accounts  *)
(* behind a sign-in are module Accounts.                                   *)
(***************************************************************************)
EXTENDS FiniteSets

CONSTANTS Id,       \* BOUND: row ids, a fresh one for each provider created
          Legacy,   \* LEGACY_PROVIDER_ID
          Tab,      \* requests: a tab, or one it gave up on that still runs
          Client,   \* an issuer with a client id and its secret
          Master,   \* values of HEADTOWER_SECRET
          EnvOidc,  \* what HEADTOWER_OIDC_* may hold; None when unset
          Gone,     \* a row after its delete
          None

ASSUME OidcAssumption ==
  /\ Legacy \notin Id
  /\ EnvOidc \subseteq Client \cup {None}
  /\ None # Gone
  /\ None \notin Client \cup Tab \cup Id \cup {Legacy}

Row == [client : Client, under : Master, on : BOOLEAN]
Flight == [id : Id \cup {Legacy}, client : Client]
ASSUME NoneIsNoRecord == None \notin Row /\ Gone \notin Row /\ None \notin Flight

VARIABLES
  row,      \* oidc_provider: None before its insert, Gone after its delete
  stored,   \* the oidc.* rows of app_settings
  env,      \* the bootstrap of the same slot
  master,   \* HEADTOWER_SECRET
  cache,    \* configurationCache: the client, and the tab whose flight it is
  flight,   \* the discovery each tab has in flight
  tab,      \* where each tab is
  jar,      \* the login-transaction cookies: the provider they name
  off       \* history: the kill switch was the last word on sign-in

vars == <<row, stored, env, master, cache, flight, tab, jar, off>>
store == <<row, stored, env, master>>

\* waits: whose flight; client: what it brought.
Closed == [at |-> "idle", id |-> None, waits |-> None, client |-> None]

-----------------------------------------------------------------------------
(* What is configured, and what is on offer                                *)

Sealed(c) == [client |-> c, under |-> master, on |-> TRUE]

IsRow(id) == row[id] \notin {None, Gone}
IsOn(id) == IsRow(id) /\ row[id].on

\* getConfig().oidc: a slot sealed under another secret reads as absent, and
\* hides the environment's.
LegacyOidc ==
  IF stored = None THEN env
  ELSE IF stored.under = master THEN stored.client ELSE None

\* Only an enabled row, and only while its secret can be unsealed.
getProviderSecrets(id) ==
  IF IsOn(id) /\ row[id].under = master THEN row[id].client ELSE None

Resolve(id) == IF id = Legacy THEN LegacyOidc ELSE getProviderSecrets(id)

IsOidcEnabled == LegacyOidc # None \/ \E id \in Id : IsOn(id)

Offered(c) == \E id \in Id \cup {Legacy} : Resolve(id) = c

-----------------------------------------------------------------------------
(* The settings pages.  Each change and its eviction are one step, so no   *)
(* request comes in between; the gate before them is Accounts'.            *)

Evict(ids) == cache' = [id \in DOMAIN cache |-> IF id \in ids THEN None ELSE cache[id]]

AddProvider(id, c) ==
  /\ row[id] = None
  /\ row' = [row EXCEPT ![id] = Sealed(c)]
  /\ Evict({id}) /\ off' = FALSE
  /\ UNCHANGED <<stored, env, master, flight, tab, jar>>

\* MUTANT: only a rotated secret is taken for a change of the provider.
EditProvider_KeepsCache(id, c, rotate) ==
  /\ row[id] # None
  /\ row' = IF IsRow(id)
              THEN [row EXCEPT ![id].client = c,
                               ![id].under = IF rotate THEN master ELSE @]
              ELSE row
  /\ Evict(IF rotate THEN {id} ELSE {})
  /\ UNCHANGED <<stored, env, master, flight, tab, jar, off>>

\* The page may be stale: a row deleted since is left alone.  Without a new
\* secret the stored one stays, under the key it was sealed with.
EditProvider(id, c, rotate) ==
  /\ row[id] # None
  /\ row' = IF IsRow(id)
              THEN [row EXCEPT ![id].client = c,
                               ![id].under = IF rotate THEN master ELSE @]
              ELSE row
  /\ Evict({id})
  /\ UNCHANGED <<stored, env, master, flight, tab, jar, off>>

ToggleProvider(id, on) ==
  /\ row[id] # None
  /\ row' = IF IsRow(id) THEN [row EXCEPT ![id].on = on] ELSE row
  /\ off' = (off /\ ~(IsRow(id) /\ on))
  /\ Evict({id})
  /\ UNCHANGED <<stored, env, master, flight, tab, jar>>

DeleteProvider(id) ==
  /\ row[id] # None
  /\ row' = [row EXCEPT ![id] = Gone]
  /\ Evict({id})
  /\ UNCHANGED <<stored, env, master, flight, tab, jar, off>>

Switched(on) == [id \in Id |-> IF IsRow(id) THEN [row[id] EXCEPT !.on = on] ELSE row[id]]

\* MUTANT: the cache is left to lapse.
DisableAll_KeepsCache ==
  /\ stored' = IF LegacyOidc # None THEN None ELSE stored
  /\ row' = Switched(FALSE) /\ off' = TRUE
  /\ UNCHANGED <<env, master, cache, flight, tab, jar>>

\* Operator mode.
DisableAll ==
  /\ stored' = IF LegacyOidc # None THEN None ELSE stored
  /\ row' = Switched(FALSE) /\ off' = TRUE
  /\ Evict(DOMAIN cache)
  /\ UNCHANGED <<env, master, flight, tab, jar>>

\* Refused without a provider, or without a secret to sign sessions with.
EnableAll ==
  /\ \E id \in Id : IsRow(id)
  /\ row' = Switched(TRUE) /\ off' = FALSE
  /\ Evict(DOMAIN cache)
  /\ UNCHANGED <<stored, env, master, flight, tab, jar>>

-----------------------------------------------------------------------------
(* migrateLegacyProvider, on a manager's render of the page                *)

Migrate(id) ==
  /\ LegacyOidc # None /\ row[id] = None
  /\ row' = [row EXCEPT ![id] = Sealed(LegacyOidc)]
  /\ stored' = None
  /\ off' = FALSE
  /\ UNCHANGED <<env, master, cache, flight, tab, jar>>

\* The process dies: nothing of it is left but the database, and it comes back
\* with the environment it is given.
Reborn ==
  /\ env' \in EnvOidc /\ master' \in Master
  /\ cache' = [id \in DOMAIN cache |-> None]
  /\ flight' = [t \in Tab |-> None]
  /\ tab' = [t \in Tab |-> IF tab[t].at \in {"begin", "exchange"} THEN Closed ELSE tab[t]]
  /\ UNCHANGED jar

Restart == Reborn /\ UNCHANGED <<row, stored, off>>

\* MUTANT: the slot is cleared first.
MigrateDies_ClearFirst(id) ==
  /\ LegacyOidc # None /\ row[id] = None
  /\ stored' = None
  /\ Reborn /\ UNCHANGED <<row, off>>

\* It dies when the row is inserted and the slot is not yet cleared.
MigrateDies(id) ==
  /\ LegacyOidc # None /\ row[id] = None
  /\ row' = [row EXCEPT ![id] = Sealed(LegacyOidc)]
  /\ off' = FALSE
  /\ Reborn /\ UNCHANGED stored

-----------------------------------------------------------------------------
(* getOidcConfiguration: one flight for all who ask while it lasts         *)

\* t asks for id on its way to the record "next".
Join(t, id, next) ==
  /\ cache[id] # None
  /\ tab' = [tab EXCEPT ![t] =
       [next EXCEPT !.waits = cache[id].by,
                    !.client = IF cache[id].by = None THEN cache[id].client ELSE None]]
  /\ UNCHANGED <<cache, flight>>

Discover(t, id, next) ==
  /\ cache[id] = None /\ Resolve(id) # None
  /\ flight' = [flight EXCEPT ![t] = [id |-> id, client |-> Resolve(id)]]
  /\ cache' = [cache EXCEPT ![id] = [client |-> Resolve(id), by |-> t]]
  /\ tab' = [tab EXCEPT ![t] = [next EXCEPT !.waits = t]]

\* An unknown or disabled provider throws: neither is possible.
GetOidcConfiguration(t, id, next) == Join(t, id, next) \/ Discover(t, id, next)

Told(t, c) ==
  tab' = [u \in Tab |-> IF tab[u].waits = t
                          THEN [tab[u] EXCEPT !.waits = None, !.client = c]
                          ELSE tab[u]]

DiscoveryAnswers(t) ==
  /\ flight[t] # None
  /\ flight' = [flight EXCEPT ![t] = None]
  /\ cache' = [id \in DOMAIN cache |->
                 IF cache[id] # None /\ cache[id].by = t
                   THEN [cache[id] EXCEPT !.by = None] ELSE cache[id]]
  /\ Told(t, flight[t].client)
  /\ UNCHANGED <<store, jar, off>>

\* The entry goes, even one that a later flight has put there.
DiscoveryFails(t) ==
  /\ flight[t] # None
  /\ flight' = [flight EXCEPT ![t] = None]
  /\ cache' = [cache EXCEPT ![flight[t].id] = None]
  /\ Told(t, None)
  /\ UNCHANGED <<store, jar, off>>

-----------------------------------------------------------------------------
(* Signing in                                                              *)

\* The page with the buttons may be as old as any: whatever was ever on it, and
\* "legacy" for a form without a provider.
StartLogin(t, id) ==
  /\ tab[t].at = "idle"
  /\ id \in {Legacy} \cup {i \in Id : row[i] # None}
  /\ IsOidcEnabled
  /\ GetOidcConfiguration(t, id, [Closed EXCEPT !.at = "begin", !.id = id])
  /\ UNCHANGED <<store, jar, off>>

\* The response carries the cookies and the way to the provider.
BeginLogin(t) ==
  /\ tab[t].at = "begin" /\ tab[t].waits = None /\ tab[t].client # None
  /\ jar' = tab[t].id
  /\ tab' = [tab EXCEPT ![t] =
       [Closed EXCEPT !.at = "idp"]]
  /\ UNCHANGED <<store, cache, flight, off>>

BeginFails(t) ==
  /\ tab[t].at = "begin" /\ tab[t].waits = None /\ tab[t].client = None
  /\ tab' = [tab EXCEPT ![t] = Closed]
  /\ UNCHANGED <<store, cache, flight, jar, off>>

\* back(): whatever the reason, the transaction is cleared.
Back(t) ==
  /\ tab' = [tab EXCEPT ![t] = Closed]
  /\ jar' = None

\* Declined at the provider, sign-in off by now, the cookies gone, or the
\* provider no longer there.
CallbackRefused(t) ==
  /\ tab[t].at = "idp"
  /\ Back(t)
  /\ UNCHANGED <<store, cache, flight, off>>

Callback(t) ==
  /\ tab[t].at = "idp" /\ IsOidcEnabled
  /\ jar # None
  /\ GetOidcConfiguration(t, jar, [Closed EXCEPT !.at = "exchange", !.id = jar])
  /\ UNCHANGED <<store, jar, off>>

\* Redeemed or not: what comes of it, and whether state, verifier and code are
\* those of one login, is for the provider and for Accounts' CompleteLogin.
CompleteLogin(t) ==
  /\ tab[t].at = "exchange" /\ tab[t].waits = None
  /\ Back(t)
  /\ UNCHANGED <<store, cache, flight, off>>

\* Ten minutes pass.
Expire ==
  /\ jar # None /\ jar' = None
  /\ UNCHANGED <<store, cache, flight, tab, off>>

-----------------------------------------------------------------------------

Init ==
  /\ row = [id \in Id |-> None]
  /\ master \in Master /\ env \in EnvOidc
  /\ stored \in {None} \cup [client : Client, under : {master}, on : {TRUE}]
  /\ cache = [id \in Id \cup {Legacy} |-> None]
  /\ flight = [t \in Tab |-> None]
  /\ tab = [t \in Tab |-> Closed]
  /\ jar = None
  /\ off = FALSE

Manage ==
  \/ \E id \in Id :
       \/ \E c \in Client : \/ AddProvider(id, c)
                            \/ \E rotate \in BOOLEAN : EditProvider(id, c, rotate)
       \/ \E on \in BOOLEAN : ToggleProvider(id, on)
       \/ DeleteProvider(id)
       \/ Migrate(id) \/ MigrateDies(id)
  \/ DisableAll \/ EnableAll
  \/ Restart

SignIn(t) ==
  \/ \E id \in Id \cup {Legacy} : StartLogin(t, id)
  \/ CallbackRefused(t) \/ Callback(t)
  \/ DiscoveryAnswers(t) \/ DiscoveryFails(t)
  \/ BeginLogin(t) \/ BeginFails(t) \/ CompleteLogin(t)

Next == Manage \/ Expire \/ \E t \in Tab : SignIn(t)

Spec == Init /\ [][Next]_vars

-----------------------------------------------------------------------------
(* Properties                                                              *)

\* Types: the database's rows, the cache and its flights, the tabs and their
\* cookies.
TypeOK ==
  /\ row \in [Id -> {None, Gone} \cup Row]
  /\ stored \in {None} \cup Row
  /\ env \in EnvOidc /\ master \in Master
  /\ cache \in [Id \cup {Legacy} -> {None} \cup [client : Client, by : Tab \cup {None}]]
  /\ flight \in [Tab -> {None} \cup Flight]
  /\ tab \in [Tab -> [at : {"idle", "begin", "idp", "exchange"},
                      id : Id \cup {Legacy, None}, waits : Tab \cup {None},
                      client : Client \cup {None}]]
  /\ jar \in Id \cup {Legacy, None}
  /\ off \in BOOLEAN

\* What the cache answers for a row is the row as it is now: on, readable, and
\* with this very client, and an entry still under way has its flight, however
\* changes, late answers and late failures interleave.  A request that asks now
\* is answered by a provider that is on and as it was last edited
\* ("clearOidcConfigCache": takes effect without a restart); one that has
\* joined a flight before the edit still completes with what that brings.
RowCacheCurrent ==
  \A id \in Id : cache[id] # None =>
    /\ Resolve(id) = cache[id].client
    /\ cache[id].by # None => flight[cache[id].by] = [id |-> id, client |-> Resolve(id)]

\* Once everything was turned off, nothing takes a sign-in and nothing is kept
\* to take one with, through restarts and edits, until somebody adds or enables
\* a provider (disableAll, "a true kill switch").  The environment's provider
\* and a slot whose secret could not be read are out of its reach.
KillSwitch ==
  off /\ env = None /\ stored = None => /\ ~IsOidcEnabled
                                        /\ \A id \in DOMAIN cache : cache[id] = None

\* The slot is emptied by the kill switch or when its provider is a row: a
\* process that dies halfway through the move never loses the way in.
MovedBeforeCleared ==
  [][stored # None /\ stored' = None /\ ~off' =>
       \E id \in Id : IsOn(id)' /\ row[id]'.client = stored.client]_vars

\* Whoever waits, waits for a flight that is still on and is for the provider
\* they asked for: no eviction, edit or failure leaves a request without an
\* answer, or with another provider's.
SharedFlight ==
  \A t \in Tab : tab[t].waits # None =>
    /\ flight[tab[t].waits] # None
    /\ flight[tab[t].waits].id = tab[t].id

\* A sign-in begins, and its callback is honoured, only through a client that is
\* on offer when it asks (identity-providers/actions.ts: "Disabling must stop
\* the provider taking logins immediately, not next boot").
LoginsAreOffered ==
  [][\A t \in Tab :
       tab[t].at # tab'[t].at /\ tab'[t].at \in {"begin", "exchange"} =>
         Offered(cache'[tab'[t].id].client)]_vars
=============================================================================
