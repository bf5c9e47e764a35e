----------------------------- MODULE OidcProofs -----------------------------
(***************************************************************************)
(* Theorems about OidcLogin for any number of tabs, rows and clients: its  *)
(* types, that nobody waits for nothing, that the cache never answers for  *)
(* a row as it used to be, the kill switch, and the move of the legacy     *)
(* slot.                                                                   *)
(***************************************************************************)
EXTENDS OidcLogin, TLAPS

-----------------------------------------------------------------------------
(* The inductive invariant                                                 *)

Slot == Id \cup {Legacy}
Entry == [client : Client, by : Tab \cup {None}]
Where == [at : {"idle", "begin", "idp", "exchange"}, id : Slot \cup {None},
          waits : Tab \cup {None}, client : Client \cup {None}]

\* An entry under way has its flight.
EntryHasFlight ==
  \A id \in Slot : cache[id] # None /\ cache[id].by # None =>
    flight[cache[id].by] = [id |-> id, client |-> cache[id].client]

\* The tab that began a flight is waiting for it.
OwnerWaits == \A t \in Tab : flight[t] # None => tab[t].waits = t

\* Only a tab on its way waits.
WaitsOnTheWay == \A t \in Tab : tab[t].waits # None => tab[t].at \in {"begin", "exchange"}

\* An entry answers for its row as it is.
EntryIsRow == \A id \in Id : cache[id] # None => Resolve(id) = cache[id].client

\* After the kill switch no row is on, and without a slot none is cached.
OffIsOff ==
  off => /\ \A id \in Id : ~IsOn(id)
         /\ env = None /\ stored = None => cache[Legacy] = None

Flights == EntryHasFlight /\ SharedFlight /\ OwnerWaits /\ WaitsOnTheWay
IInv == TypeOK /\ Flights /\ EntryIsRow /\ OffIsOff

-----------------------------------------------------------------------------
(* Operators                                                               *)

LEMMA LegacyType == ASSUME TypeOK PROVE LegacyOidc \in Client \cup {None}
  BY OidcAssumption DEF TypeOK, LegacyOidc, Row

LEMMA ResolveType == ASSUME TypeOK, NEW id \in Slot PROVE Resolve(id) \in Client \cup {None}
  BY LegacyType DEF TypeOK, Resolve, getProviderSecrets, IsOn, IsRow, Row, Slot

LEMMA SealedType == ASSUME TypeOK, NEW c \in Client PROVE Sealed(c) \in Row
  BY DEF TypeOK, Sealed, Row

LEMMA EvictType == ASSUME TypeOK, NEW S, Evict(S)
  PROVE /\ cache' \in [Slot -> {None} \cup Entry]
        /\ \A id \in Slot : cache'[id] = IF id \in S THEN None ELSE cache[id]
  BY DEF TypeOK, Evict, Slot, Entry

LEMMA SwitchedType == ASSUME TypeOK, NEW on \in BOOLEAN
  PROVE Switched(on) \in [Id -> {None, Gone} \cup Row]
<1>1. ASSUME NEW id \in Id PROVE Switched(on)[id] \in {None, Gone} \cup Row
  <2>1. CASE IsRow(id)
    <3>1. row[id] \in Row
      BY <2>1 DEF IsRow, TypeOK
    <3>2. [row[id] EXCEPT !.on = on] \in Row
      BY <3>1 DEF Row
    <3> QED
      BY <2>1, <3>2 DEF Switched
  <2>2. CASE ~IsRow(id)
    BY <2>2 DEF Switched, TypeOK
  <2> QED
    BY <2>1, <2>2
<1> QED
  BY <1>1 DEF Switched

-----------------------------------------------------------------------------
(* Types                                                                   *)

LEMMA RebornType == ASSUME TypeOK, Reborn
  PROVE /\ env' \in EnvOidc /\ master' \in Master /\ cache' \in [Slot -> {None} \cup Entry]
        /\ flight' \in [Tab -> {None} \cup Flight] /\ tab' \in [Tab -> Where]
        /\ jar' \in Slot \cup {None}
<1>1. Closed \in Where
  BY DEF Closed, Where
<1> QED
  BY <1>1 DEF TypeOK, Reborn, Slot, Entry, Where

LEMMA RowsType ==
  ASSUME TypeOK, NEW id \in Id,
         \/ \E c \in Client : \/ AddProvider(id, c)
                              \/ \E rotate \in BOOLEAN : EditProvider(id, c, rotate)
         \/ \E on \in BOOLEAN : ToggleProvider(id, on)
         \/ DeleteProvider(id)
  PROVE  TypeOK'
<1>1. CASE \E c \in Client : AddProvider(id, c)
  <2>1. PICK c \in Client : AddProvider(id, c)
    BY <1>1
  <2>2. row' \in [Id -> {None, Gone} \cup Row]
    BY <2>1, SealedType DEF AddProvider, TypeOK
  <2>3. cache' \in [Slot -> {None} \cup Entry]
    BY <2>1, EvictType DEF AddProvider
  <2> QED
    BY <2>1, <2>2, <2>3 DEF AddProvider, TypeOK, Slot, Entry
<1>2. ASSUME NEW c \in Client, NEW rotate \in BOOLEAN, EditProvider(id, c, rotate) PROVE TypeOK'
  <2>1. row' \in [Id -> {None, Gone} \cup Row]
    <3>1. CASE IsRow(id)
      <4> DEFINE r == [row[id] EXCEPT !.client = c, !.under = IF rotate THEN master ELSE @]
      <4>1. row[id] \in Row
        BY <3>1 DEF IsRow, TypeOK
      <4>2. r \in Row
        BY <4>1 DEF TypeOK, Row
      <4>3. row' = [row EXCEPT ![id] = r]
        BY <1>2, <3>1 DEF EditProvider, TypeOK
      <4> HIDE DEF r
      <4> QED
        BY <4>2, <4>3 DEF TypeOK
    <3>2. CASE ~IsRow(id)
      BY <1>2, <3>2 DEF EditProvider, TypeOK
    <3> QED
      BY <3>1, <3>2
  <2>2. cache' \in [Slot -> {None} \cup Entry]
    BY <1>2, EvictType DEF EditProvider
  <2> QED
    BY <1>2, <2>1, <2>2 DEF EditProvider, TypeOK, Slot, Entry
<1>3. ASSUME NEW on \in BOOLEAN, ToggleProvider(id, on) PROVE TypeOK'
  <2>1. row' \in [Id -> {None, Gone} \cup Row] /\ off' \in BOOLEAN
    BY <1>3 DEF ToggleProvider, TypeOK, IsRow, Row
  <2> QED
    BY <1>3, <2>1, EvictType DEF ToggleProvider, TypeOK, Slot, Entry
<1>4. CASE DeleteProvider(id)
  BY <1>4, EvictType DEF DeleteProvider, TypeOK, Slot, Entry
<1> QED
  BY <1>1, <1>2, <1>3, <1>4

LEMMA ManageType == ASSUME TypeOK, Manage PROVE TypeOK'
<1>1. CASE DisableAll
  BY <1>1, SwitchedType, EvictType DEF DisableAll, TypeOK, Slot, Entry
<1>2. CASE EnableAll
  BY <1>2, SwitchedType, EvictType DEF EnableAll, TypeOK, Slot, Entry
<1>3. CASE Restart
  BY <1>3, RebornType DEF Restart, TypeOK, Slot, Entry, Where
<1>4. ASSUME NEW id \in Id, Migrate(id) PROVE TypeOK'
  BY <1>4, LegacyType, SealedType DEF Migrate, TypeOK
<1>5. ASSUME NEW id \in Id, MigrateDies(id) PROVE TypeOK'
  <2>1. Sealed(LegacyOidc) \in Row
    BY <1>5, LegacyType, SealedType DEF MigrateDies
  <2> QED
    BY <1>5, <2>1, RebornType DEF MigrateDies, TypeOK, Slot, Entry, Where
<1> QED
  BY <1>1, <1>2, <1>3, <1>4, <1>5, RowsType DEF Manage

\* A way on: where a request is when it asks for a configuration.
WayOn(next, id) ==
  /\ next \in Where /\ next.at \in {"begin", "exchange"} /\ next.id = id /\ next.waits = None

LEMMA GetType ==
  ASSUME TypeOK, NEW t \in Tab, NEW id \in Slot, NEW next, WayOn(next, id),
         GetOidcConfiguration(t, id, next), UNCHANGED <<store, jar, off>>
  PROVE  TypeOK'
<1>1. CASE Join(t, id, next)
  <2>1. cache[id] \in Entry
    BY <1>1 DEF Join, TypeOK, Slot, Entry
  <2> DEFINE next2 == [next EXCEPT !.waits = cache[id].by,
                 !.client = IF cache[id].by = None THEN cache[id].client ELSE None]
  <2>2. next2 \in Where
    BY <2>1 DEF Where, Entry, WayOn
  <2>3. tab' = [tab EXCEPT ![t] = next2]
    BY <1>1 DEF Join
  <2> HIDE DEF next2
  <2>4. tab' \in [Tab -> Where]
    BY <2>2, <2>3 DEF TypeOK, Where, Slot
  <2>5. UNCHANGED <<row, stored, env, master, cache, flight, jar, off>>
    BY <1>1 DEF Join, store
  <2> QED
    BY <2>4, <2>5 DEF TypeOK, Slot, Where
<1>2. CASE Discover(t, id, next)
  <2>1. Resolve(id) \in Client
    BY <1>2, ResolveType DEF Discover
  <2>2. [id |-> id, client |-> Resolve(id)] \in Flight /\ [client |-> Resolve(id), by |-> t] \in Entry
    BY <2>1 DEF Flight, Entry, Slot
  <2>3. [next EXCEPT !.waits = t] \in Where
    BY DEF Where, WayOn
  <2> QED
    BY <1>2, <2>2, <2>3 DEF Discover, TypeOK, store, Slot, Where, Entry
<1> QED
  BY <1>1, <1>2 DEF GetOidcConfiguration

LEMMA ClosedWay ==
  ASSUME TypeOK, NEW id \in Slot
  PROVE  WayOn([Closed EXCEPT !.at = "begin", !.id = id], id)
         /\ WayOn([Closed EXCEPT !.at = "exchange", !.id = id], id)
<1> SUFFICES ASSUME NEW at \in {"begin", "exchange"}
             PROVE  WayOn([Closed EXCEPT !.at = at, !.id = id], id)
  OBVIOUS
<1> DEFINE next == [Closed EXCEPT !.at = at, !.id = id]
<1>1. Closed \in Where /\ Closed.waits = None
  BY DEF Closed, Where
<1>2. next \in Where /\ next.at = at /\ next.id = id /\ next.waits = None
  BY <1>1 DEF Where
<1> HIDE DEF next
<1> QED
  BY <1>2 DEF WayOn, next

LEMMA ToldType == ASSUME TypeOK, NEW t \in Tab, NEW c \in Client \cup {None}, Told(t, c)
  PROVE tab' \in [Tab -> Where]
<1>1. ASSUME NEW u \in Tab PROVE [tab[u] EXCEPT !.waits = None, !.client = c] \in Where
  <2>1. tab \in [Tab -> Where]
    BY DEF TypeOK, Where, Slot
  <2>2. tab[u] \in Where
    BY <2>1
  <2> QED
    BY <2>2 DEF Where
<1> QED
  BY <1>1 DEF Told, TypeOK, Where, Slot

LEMMA SignInType == ASSUME TypeOK, NEW t \in Tab, SignIn(t) PROVE TypeOK'
<1>1. ASSUME NEW id \in Slot, StartLogin(t, id) PROVE TypeOK'
  BY <1>1, ClosedWay, GetType DEF StartLogin
<1>2. CASE Callback(t)
  <2>1. jar \in Slot
    BY <1>2 DEF Callback, TypeOK, Slot
  <2> QED
    BY <1>2, <2>1, ClosedWay, GetType DEF Callback
<1>3. CASE DiscoveryAnswers(t)
  <2>1. flight[t] \in Flight
    BY <1>3 DEF DiscoveryAnswers, TypeOK
  <2>2. tab' \in [Tab -> Where]
    BY <1>3, <2>1, ToldType DEF DiscoveryAnswers, Flight
  <2>3. cache' \in [Slot -> {None} \cup Entry]
    BY <1>3 DEF DiscoveryAnswers, TypeOK, Slot, Entry
  <2> QED
    BY <1>3, <2>2, <2>3 DEF DiscoveryAnswers, TypeOK, store, Slot, Entry, Where
<1>4. CASE DiscoveryFails(t)
  <2>1. flight[t] \in Flight
    BY <1>4 DEF DiscoveryFails, TypeOK
  <2>2. tab' \in [Tab -> Where]
    BY <1>4, ToldType DEF DiscoveryFails
  <2>3. cache' \in [Slot -> {None} \cup Entry]
    BY <1>4 DEF DiscoveryFails, TypeOK, Slot, Entry
  <2> QED
    BY <1>4, <2>2, <2>3 DEF DiscoveryFails, TypeOK, store, Slot, Entry, Where
<1>5. CASE BeginLogin(t)
  <2>1. [Closed EXCEPT !.at = "idp"] \in Where /\ tab[t].id \in Slot \cup {None}
    BY DEF Closed, Where, TypeOK, Slot
  <2> QED
    BY <1>5, <2>1 DEF BeginLogin, TypeOK, store, Slot, Where
<1>6. CASE BeginFails(t) \/ CallbackRefused(t) \/ CompleteLogin(t)
  <2>1. Closed \in Where
    BY DEF Closed, Where
  <2> QED
    BY <1>6, <2>1 DEF BeginFails, CallbackRefused, CompleteLogin, Back, TypeOK, store, Slot, Where
<1> QED
  BY <1>1, <1>2, <1>3, <1>4, <1>5, <1>6 DEF SignIn, Slot

LEMMA TypeStep == ASSUME TypeOK, [Next]_vars PROVE TypeOK'
<1>1. CASE UNCHANGED vars
  BY <1>1 DEF TypeOK, vars
<1>2. CASE Expire
  BY <1>2 DEF Expire, TypeOK, store
<1> QED
  BY <1>1, <1>2, ManageType, SignInType DEF Next

-----------------------------------------------------------------------------
(* Flights: who waits for what                                             *)

\* Steps that leave flights and tabs alone and may only empty the cache.
LEMMA FlightsKept ==
  ASSUME Flights, UNCHANGED <<flight, tab>>,
         \A id \in Slot : cache'[id] = None \/ cache'[id] = cache[id]
  PROVE  Flights'
  BY DEF Flights, EntryHasFlight, SharedFlight, OwnerWaits, WaitsOnTheWay

LEMMA RebornFlights == ASSUME TypeOK, Flights, Reborn PROVE Flights'
<1>1. /\ \A t \in Tab : flight'[t] = None
      /\ \A id \in Slot : cache'[id] = None
      /\ \A t \in Tab : tab'[t] = IF tab[t].at \in {"begin", "exchange"} THEN Closed ELSE tab[t]
  BY DEF Reborn, TypeOK, Slot
<1>2. \A t \in Tab : tab'[t].waits = None
  BY <1>1 DEF Flights, WaitsOnTheWay, Closed
<1> QED
  BY <1>1, <1>2 DEF Flights, EntryHasFlight, SharedFlight, OwnerWaits, WaitsOnTheWay

LEMMA ManageFlights == ASSUME TypeOK, Flights, Manage PROVE Flights'
<1>1. CASE Restart \/ \E id \in Id : MigrateDies(id)
  BY <1>1, RebornFlights DEF Restart, MigrateDies
<1>2. CASE \E S : Evict(S) /\ UNCHANGED <<flight, tab>>
  <2>1. PICK S : Evict(S) /\ UNCHANGED <<flight, tab>>
    BY <1>2
  <2>2. \A id \in Slot : cache'[id] = None \/ cache'[id] = cache[id]
    BY <2>1, EvictType
  <2> QED
    BY <2>1, <2>2, FlightsKept
<1>3. CASE \E id \in Id : Migrate(id)
  BY <1>3, FlightsKept DEF Migrate
<1>4. ASSUME NEW id \in Id, NEW c \in Client, NEW rotate \in BOOLEAN,
             AddProvider(id, c) \/ EditProvider(id, c, rotate) PROVE Flights'
  BY <1>2, <1>4 DEF AddProvider, EditProvider
<1>5. ASSUME NEW id \in Id, NEW on \in BOOLEAN,
             ToggleProvider(id, on) \/ DeleteProvider(id) PROVE Flights'
  BY <1>2, <1>5 DEF ToggleProvider, DeleteProvider
<1>6. CASE DisableAll \/ EnableAll
  BY <1>2, <1>6 DEF DisableAll, EnableAll
<1> QED
  BY <1>1, <1>3, <1>4, <1>5, <1>6 DEF Manage

LEMMA GetFlights ==
  ASSUME TypeOK, Flights, NEW t \in Tab, tab[t].waits = None, NEW id \in Slot, NEW next,
         WayOn(next, id), GetOidcConfiguration(t, id, next)
  PROVE  Flights'
<1>0. flight[t] = None /\ \A u \in Tab : tab[u].waits # t
  BY OidcAssumption DEF Flights, OwnerWaits, SharedFlight
<1>1. CASE Join(t, id, next)
  <2> DEFINE p == [next EXCEPT !.waits = cache[id].by,
                 !.client = IF cache[id].by = None THEN cache[id].client ELSE None]
  <2>1. p.waits = cache[id].by /\ p.at \in {"begin", "exchange"} /\ p.id = id
    BY DEF WayOn, Where
  <2>2. tab' = [tab EXCEPT ![t] = p] /\ cache[id] # None /\ UNCHANGED <<cache, flight>>
    BY <1>1 DEF Join
  <2> HIDE DEF p
  <2>3. \A u \in Tab : tab'[u] = IF u = t THEN p ELSE tab[u]
    BY <2>2 DEF TypeOK
  <2>4. cache[id].by # None =>
          /\ cache[id].by \in Tab /\ flight[cache[id].by].id = id /\ flight[cache[id].by] # None
    <3>1. cache[id].by # None => cache[id].by \in Tab
      BY <2>2 DEF TypeOK, Slot
    <3>2. cache[id].by # None =>
            /\ flight[cache[id].by] = [id |-> id, client |-> cache[id].client]
            /\ [id |-> id, client |-> cache[id].client] \in Flight
      <4>1. cache[id] \in Entry
        BY <2>2 DEF TypeOK, Slot, Entry
      <4> QED
        BY <2>2, <4>1 DEF Flights, EntryHasFlight, Flight, Entry, Slot
    <3> QED
      BY <3>1, <3>2, NoneIsNoRecord
  <2>5. SharedFlight'
    BY <2>1, <2>2, <2>3, <2>4 DEF Flights, SharedFlight
  <2> QED
    BY <1>0, <2>1, <2>2, <2>3, <2>5 DEF Flights, EntryHasFlight, OwnerWaits, WaitsOnTheWay
<1>2. CASE Discover(t, id, next)
  <2> DEFINE p == [next EXCEPT !.waits = t]
             f == [id |-> id, client |-> Resolve(id)]
             e == [client |-> Resolve(id), by |-> t]
  <2>1. p.waits = t /\ p.at \in {"begin", "exchange"} /\ p.id = id
    BY DEF WayOn, Where
  <2>2. f \in Flight /\ f # None /\ f.id = id /\ f.client = e.client /\ e.by = t
        /\ f = [id |-> id, client |-> e.client]
    BY <1>2, ResolveType, NoneIsNoRecord DEF Discover, Flight, Slot
  <2>3. /\ \A u \in Tab : tab'[u] = IF u = t THEN p ELSE tab[u]
        /\ \A u \in Tab : flight'[u] = IF u = t THEN f ELSE flight[u]
        /\ \A i \in Slot : cache'[i] = IF i = id THEN e ELSE cache[i]
    BY <1>2 DEF Discover, TypeOK, Slot
  <2>4. ASSUME NEW i \in Slot, cache[i] # None PROVE cache[i].by # t
    <3>1. cache[i] \in Entry /\ t # None
      BY <2>4, OidcAssumption DEF TypeOK, Slot, Entry
    <3>2. [id |-> i, client |-> cache[i].client] # None
      BY <3>1, NoneIsNoRecord DEF Entry, Flight, Slot
    <3> QED
      BY <1>0, <2>4, <3>1, <3>2 DEF Flights, EntryHasFlight
  <2> HIDE DEF p, f, e
  <2>5. EntryHasFlight'
    <3>1. ASSUME NEW i \in Slot, cache'[i] # None, cache'[i].by # None
          PROVE  flight'[cache'[i].by] = [id |-> i, client |-> cache'[i].client]
      <4>1. CASE i = id
        BY <2>2, <2>3, <4>1
      <4>2. CASE i # id
        <5>1. cache'[i] = cache[i] /\ cache[i].by # t /\ cache[i].by \in Tab
          BY <2>3, <2>4, <3>1, <4>2 DEF TypeOK, Slot
        <5> QED
          BY <2>3, <3>1, <5>1 DEF Flights, EntryHasFlight
      <4> QED
        BY <4>1, <4>2
    <3> QED
      BY <3>1 DEF EntryHasFlight
  <2>6. SharedFlight'
    BY <1>0, <2>1, <2>2, <2>3 DEF Flights, SharedFlight, TypeOK
  <2>7. OwnerWaits' /\ WaitsOnTheWay'
    BY <2>1, <2>3 DEF Flights, OwnerWaits, WaitsOnTheWay
  <2> QED
    BY <2>5, <2>6, <2>7 DEF Flights
<1> QED
  BY <1>1, <1>2 DEF GetOidcConfiguration

LEMMA SettledFlights ==
  ASSUME TypeOK, Flights, NEW t \in Tab, flight[t] # None, NEW c,
         flight' = [flight EXCEPT ![t] = None], Told(t, c),
         \A id \in Slot : \/ cache'[id] = None
                          \/ cache'[id] = cache[id] /\ cache[id].by # t
                          \/ cache'[id].by = None
  PROVE  Flights'
<1>1. \A u \in Tab : flight'[u] = IF u = t THEN None ELSE flight[u]
  BY DEF TypeOK
<1>2. ASSUME NEW u \in Tab
      PROVE  /\ tab'[u].waits = IF tab[u].waits = t THEN None ELSE tab[u].waits
             /\ tab'[u].at = tab[u].at /\ tab'[u].id = tab[u].id
  <2>1. tab[u] \in Where
    BY DEF TypeOK, Where, Slot
  <2>2. tab'[u] = IF tab[u].waits = t
                    THEN [tab[u] EXCEPT !.waits = None, !.client = c] ELSE tab[u]
    BY DEF Told
  <2> QED
    BY <2>1, <2>2 DEF Where
<1>3. ASSUME NEW id \in Slot, cache'[id] # None, cache'[id].by # None
      PROVE  flight'[cache'[id].by] = [id |-> id, client |-> cache'[id].client]
  <2>1. cache'[id] = cache[id] /\ cache[id].by # t
    BY <1>3
  <2>2. cache[id].by \in Tab
    BY <1>3, <2>1 DEF TypeOK, Slot
  <2>3. flight[cache[id].by] = [id |-> id, client |-> cache[id].client]
    BY <1>3, <2>1 DEF Flights, EntryHasFlight
  <2> QED
    BY <1>1, <2>1, <2>2, <2>3
<1>4. ASSUME NEW u \in Tab, tab'[u].waits # None
      PROVE  flight'[tab'[u].waits] # None /\ flight'[tab'[u].waits].id = tab'[u].id
  <2>1. tab'[u].waits = tab[u].waits /\ tab[u].waits # t /\ tab'[u].id = tab[u].id
    BY <1>2, <1>4
  <2>2. tab[u].waits \in Tab
    BY <1>4, <2>1 DEF TypeOK
  <2>3. flight[tab[u].waits] # None /\ flight[tab[u].waits].id = tab[u].id
    BY <1>4, <2>1 DEF Flights, SharedFlight
  <2> QED
    BY <1>1, <2>1, <2>2, <2>3
<1>5. ASSUME NEW u \in Tab, flight'[u] # None PROVE tab'[u].waits = u
  <2>1. u # t /\ flight[u] # None
    BY <1>1, <1>5
  <2>2. tab[u].waits = u
    BY <2>1 DEF Flights, OwnerWaits
  <2> QED
    BY <1>2, <2>1, <2>2
<1>6. ASSUME NEW u \in Tab, tab'[u].waits # None PROVE tab'[u].at \in {"begin", "exchange"}
  <2>1. tab[u].waits # None /\ tab'[u].at = tab[u].at
    BY <1>2, <1>6
  <2> QED
    BY <2>1 DEF Flights, WaitsOnTheWay
<1> QED
  BY <1>3, <1>4, <1>5, <1>6 DEF Flights, EntryHasFlight, SharedFlight, OwnerWaits, WaitsOnTheWay

\* A tab that waits for nothing and owns no flight goes elsewhere.
LEMMA MovedFlights ==
  ASSUME TypeOK, Flights, NEW t \in Tab, tab[t].waits = None, NEW p, p.waits = None,
         tab' = [tab EXCEPT ![t] = p], UNCHANGED <<cache, flight>>
  PROVE  Flights'
<1>1. flight[t] = None
  BY OidcAssumption DEF Flights, OwnerWaits
<1>2. \A u \in Tab : tab'[u] = IF u = t THEN p ELSE tab[u]
  BY DEF TypeOK
<1> QED
  BY <1>1, <1>2 DEF Flights, EntryHasFlight, SharedFlight, OwnerWaits, WaitsOnTheWay

LEMMA SignInFlights == ASSUME TypeOK, Flights, NEW t \in Tab, SignIn(t) PROVE Flights'
<1>0. tab[t].at \in {"idle", "idp"} => tab[t].waits = None
  BY DEF Flights, WaitsOnTheWay
<1>1. ASSUME NEW id \in Slot, StartLogin(t, id) PROVE Flights'
  BY <1>0, <1>1, ClosedWay, GetFlights DEF StartLogin
<1>2. CASE Callback(t)
  <2>1. jar \in Slot
    BY <1>2 DEF Callback, TypeOK, Slot
  <2> QED
    BY <1>0, <1>2, <2>1, ClosedWay, GetFlights DEF Callback
<1>3. CASE DiscoveryAnswers(t)
  <2>1. ASSUME NEW id \in Slot
        PROVE  \/ cache'[id] = None
               \/ cache'[id] = cache[id] /\ cache[id].by # t
               \/ cache'[id].by = None
    <3>1. cache'[id] = IF cache[id] # None /\ cache[id].by = t
                         THEN [cache[id] EXCEPT !.by = None] ELSE cache[id]
      BY <1>3 DEF DiscoveryAnswers, TypeOK, Slot
    <3>2. cache[id] # None => cache[id] \in Entry
      BY DEF TypeOK, Slot, Entry
    <3> QED
      BY <3>1, <3>2 DEF Entry
  <2> QED
    BY <1>3, <2>1, SettledFlights DEF DiscoveryAnswers
<1>4. CASE DiscoveryFails(t)
  <2>1. ASSUME NEW id \in Slot
        PROVE  \/ cache'[id] = None
               \/ cache'[id] = cache[id] /\ cache[id].by # t
               \/ cache'[id].by = None
    <3>1. cache'[id] = IF id = flight[t].id THEN None ELSE cache[id]
      BY <1>4 DEF DiscoveryFails, TypeOK, Slot
    <3>2. ASSUME cache[id] # None, cache[id].by = t PROVE flight[t].id = id
      <4>1. flight[t] = [id |-> id, client |-> cache[id].client]
        BY <3>2, OidcAssumption DEF Flights, EntryHasFlight
      <4> QED
        BY <4>1
    <3> QED
      BY <3>1, <3>2
  <2> QED
    BY <1>4, <2>1, SettledFlights DEF DiscoveryFails
<1>5. CASE BeginLogin(t)
  <2>1. [Closed EXCEPT !.at = "idp"].waits = None
    BY DEF Closed
  <2> QED
    BY <1>5, <2>1, MovedFlights DEF BeginLogin
<1>6. CASE BeginFails(t) \/ CallbackRefused(t) \/ CompleteLogin(t)
  <2>1. Closed.waits = None
    BY DEF Closed
  <2> QED
    BY <1>0, <1>6, <2>1, MovedFlights DEF BeginFails, CallbackRefused, CompleteLogin, Back, store
<1> QED
  BY <1>1, <1>2, <1>3, <1>4, <1>5, <1>6 DEF SignIn, Slot

LEMMA FlightsStep == ASSUME TypeOK, Flights, [Next]_vars PROVE Flights'
<1>1. CASE UNCHANGED vars \/ Expire
  BY <1>1, FlightsKept DEF vars, Expire
<1> QED
  BY <1>1, ManageFlights, SignInFlights DEF Next

-----------------------------------------------------------------------------
(* What the cache answers for a row                                        *)

\* Nothing is cached for a row that is not there.
LEMMA NoRowNoEntry ==
  ASSUME TypeOK, EntryIsRow, NEW id \in Id, ~IsOn(id)
  PROVE  cache[id] = None
<1>1. id # Legacy /\ Resolve(id) = None
  BY OidcAssumption DEF Resolve, getProviderSecrets
<1>2. cache[id] # None => cache[id].client \in Client
  BY DEF TypeOK
<1> QED
  BY <1>1, <1>2, OidcAssumption DEF EntryIsRow

\* A step changes no row whose entry it leaves in place.
LEMMA RowsKept ==
  ASSUME TypeOK, EntryIsRow, UNCHANGED master,
         \A id \in Id : \/ cache'[id] = None
                        \/ /\ row'[id] = row[id] /\ cache[id] # None
                           /\ cache'[id].client = cache[id].client
  PROVE  EntryIsRow'
<1>1. ASSUME NEW id \in Id, cache'[id] # None PROVE Resolve(id)' = cache'[id].client
  <2>1. Resolve(id)' = Resolve(id)
    BY <1>1, OidcAssumption DEF Resolve, getProviderSecrets, IsOn, IsRow
  <2> QED
    BY <1>1, <2>1 DEF EntryIsRow
<1> QED
  BY <1>1 DEF EntryIsRow

LEMMA ManageRows == ASSUME TypeOK, EntryIsRow, Manage PROVE EntryIsRow'
<1>1. CASE Restart \/ \E id \in Id : MigrateDies(id)
  BY <1>1 DEF Restart, MigrateDies, Reborn, EntryIsRow, TypeOK
<1>2. ASSUME NEW id \in Id, Evict({id}), UNCHANGED master,
             \A i \in Id : i # id => row'[i] = row[i]
      PROVE  EntryIsRow'
  <2>1. \A i \in Slot : cache'[i] = IF i \in {id} THEN None ELSE cache[i]
    BY <1>2, EvictType
  <2> QED
    BY <1>2, <2>1, RowsKept DEF Slot
<1>3. ASSUME NEW id \in Id, NEW c \in Client, NEW rotate \in BOOLEAN,
             AddProvider(id, c) \/ EditProvider(id, c, rotate) PROVE EntryIsRow'
  <2>1. Evict({id}) /\ UNCHANGED master
    BY <1>3 DEF AddProvider, EditProvider
  <2>2. \A i \in Id : i # id => row'[i] = row[i]
    BY <1>3 DEF AddProvider, EditProvider, TypeOK
  <2> QED
    BY <1>2, <2>1, <2>2
<1>4. ASSUME NEW id \in Id, NEW on \in BOOLEAN,
             ToggleProvider(id, on) \/ DeleteProvider(id) PROVE EntryIsRow'
  <2>1. Evict({id}) /\ UNCHANGED master
    BY <1>4 DEF ToggleProvider, DeleteProvider
  <2>2. \A i \in Id : i # id => row'[i] = row[i]
    BY <1>4 DEF ToggleProvider, DeleteProvider, TypeOK
  <2> QED
    BY <1>2, <2>1, <2>2
<1>5. CASE DisableAll \/ EnableAll
  <2>1. Evict(DOMAIN cache)
    BY <1>5 DEF DisableAll, EnableAll
  <2>2. \A i \in Id : cache'[i] = None
    BY <2>1, EvictType DEF Slot, TypeOK
  <2> QED
    BY <2>2 DEF EntryIsRow
<1>6. ASSUME NEW id \in Id, Migrate(id) PROVE EntryIsRow'
  <2>1. cache[id] = None
    BY <1>6, NoRowNoEntry DEF Migrate, IsOn, IsRow
  <2>2. \A i \in Id : i # id => row'[i] = row[i]
    BY <1>6 DEF Migrate, TypeOK
  <2> QED
    BY <1>6, <2>1, <2>2, RowsKept DEF Migrate
<1> QED
  BY <1>1, <1>3, <1>4, <1>5, <1>6 DEF Manage

LEMMA SignInRows == ASSUME TypeOK, EntryIsRow, NEW t \in Tab, SignIn(t) PROVE EntryIsRow'
<1>0. UNCHANGED store
  BY DEF SignIn, StartLogin, Callback, DiscoveryAnswers, DiscoveryFails, BeginLogin, BeginFails,
         CallbackRefused, CompleteLogin
<1>1. \A id \in Id : Resolve(id)' = Resolve(id)
  BY <1>0, OidcAssumption DEF Resolve, getProviderSecrets, IsOn, IsRow, store
<1>2. CASE UNCHANGED cache
  BY <1>1, <1>2 DEF EntryIsRow
<1>3. CASE \E id \in Slot : \E next : Discover(t, id, next)
  <2>1. PICK id \in Slot : cache' = [cache EXCEPT ![id] = [client |-> Resolve(id), by |-> t]]
    BY <1>3 DEF Discover
  <2>2. \A i \in Slot : cache'[i] = IF i = id THEN [client |-> Resolve(id), by |-> t] ELSE cache[i]
    BY <2>1 DEF TypeOK, Slot
  <2> QED
    BY <1>1, <2>2 DEF EntryIsRow, Slot
<1>4. CASE DiscoveryAnswers(t)
  <2>1. ASSUME NEW id \in Id
        PROVE  \/ cache'[id] = None
               \/ cache[id] # None /\ cache'[id].client = cache[id].client
    <3>1. cache'[id] = IF cache[id] # None /\ cache[id].by = t
                         THEN [cache[id] EXCEPT !.by = None] ELSE cache[id]
      BY <1>4 DEF DiscoveryAnswers, TypeOK
    <3>2. cache[id] # None => cache[id] \in Entry
      BY DEF TypeOK, Entry
    <3> QED
      BY <3>1, <3>2 DEF Entry
  <2> QED
    BY <1>1, <2>1 DEF EntryIsRow
<1>5. CASE DiscoveryFails(t)
  <2>1. \A i \in Slot : cache'[i] = IF i = flight[t].id THEN None ELSE cache[i]
    BY <1>5 DEF DiscoveryFails, TypeOK, Slot
  <2> QED
    BY <1>1, <2>1 DEF EntryIsRow, Slot
<1>6. \/ UNCHANGED cache \/ DiscoveryAnswers(t) \/ DiscoveryFails(t)
      \/ \E id \in Slot : \E next : Discover(t, id, next)
  <2>1. ASSUME NEW id \in Slot, NEW next, GetOidcConfiguration(t, id, next)
        PROVE  UNCHANGED cache \/ \E i \in Slot : \E n : Discover(t, i, n)
    BY <2>1 DEF GetOidcConfiguration, Join
  <2>2. ASSUME NEW id \in Slot, StartLogin(t, id)
        PROVE  UNCHANGED cache \/ \E i \in Slot : \E n : Discover(t, i, n)
    BY <2>1, <2>2 DEF StartLogin
  <2>3. CASE Callback(t)
    BY <2>1, <2>3 DEF Callback, TypeOK, Slot
  <2> QED
    BY <2>2, <2>3 DEF SignIn, BeginLogin, BeginFails, CallbackRefused, CompleteLogin, Slot
<1> QED
  BY <1>2, <1>3, <1>4, <1>5, <1>6

LEMMA RowsStep == ASSUME TypeOK, EntryIsRow, [Next]_vars PROVE EntryIsRow'
<1>1. CASE UNCHANGED vars \/ Expire
  BY <1>1 DEF vars, Expire, store, EntryIsRow, Resolve, getProviderSecrets, LegacyOidc, IsOn, IsRow
<1> QED
  BY <1>1, ManageRows, SignInRows DEF Next

-----------------------------------------------------------------------------
(* The kill switch                                                         *)

\* A step that turns nothing on and lets no provider into the legacy slot.
LEMMA OffKept ==
  ASSUME TypeOK, OffIsOff, off' => off, UNCHANGED <<env, stored, master>>,
         \A id \in Id : IsOn(id)' => IsOn(id),
         cache'[Legacy] # None => cache[Legacy] # None \/ LegacyOidc # None
  PROVE  OffIsOff'
<1>1. LegacyOidc # None => env # None \/ stored # None
  BY DEF LegacyOidc
<1> QED
  BY <1>1 DEF OffIsOff

LEMMA ManageOff == ASSUME TypeOK, OffIsOff, Manage PROVE OffIsOff'
<1>1. CASE EnableAll \/ \E id \in Id : Migrate(id) \/ MigrateDies(id)
  BY <1>1 DEF EnableAll, Migrate, MigrateDies, OffIsOff
<1>2. CASE DisableAll
  <2>1. cache'[Legacy] = None
    BY <1>2, EvictType DEF DisableAll, TypeOK, Slot
  <2>2. ASSUME NEW id \in Id PROVE ~IsOn(id)'
    <3>1. row'[id] = IF IsRow(id) THEN [row[id] EXCEPT !.on = FALSE] ELSE row[id]
      BY <1>2 DEF DisableAll, Switched
    <3>2. CASE IsRow(id)
      <4>1. row[id] \in Row
        BY <3>2 DEF IsRow, TypeOK
      <4>2. ~row'[id].on
        BY <3>1, <3>2, <4>1 DEF Row
      <4> QED
        BY <4>2 DEF IsOn
    <3>3. CASE ~IsRow(id)
      BY <3>1, <3>3 DEF IsOn, IsRow
    <3> QED
      BY <3>2, <3>3
  <2> QED
    BY <2>1, <2>2 DEF OffIsOff
<1>3. CASE Restart
  <2>1. cache'[Legacy] = None
    BY <1>3 DEF Restart, Reborn, TypeOK
  <2>2. UNCHANGED <<row, off>>
    BY <1>3 DEF Restart
  <2> QED
    BY <2>1, <2>2 DEF OffIsOff, IsOn, IsRow
<1>4. ASSUME NEW id \in Id, NEW c \in Client, AddProvider(id, c) PROVE OffIsOff'
  BY <1>4 DEF AddProvider, OffIsOff
<1>5. ASSUME NEW id \in Id, Evict({id}), UNCHANGED <<env, stored, master>>, off' => off,
             off' => (IsOn(id)' => IsOn(id)), \A i \in Id : i # id => row'[i] = row[i]
      PROVE  OffIsOff'
  <2>1. cache'[Legacy] = cache[Legacy]
    BY <1>5, EvictType, OidcAssumption DEF Slot
  <2>2. CASE ~off'
    BY <2>2 DEF OffIsOff
  <2>3. CASE off'
    <3>1. ASSUME NEW i \in Id PROVE IsOn(i)' => IsOn(i)
      BY <1>5, <2>3 DEF IsOn, IsRow
    <3> QED
      BY <1>5, <2>1, <3>1, OffKept
  <2> QED
    BY <2>2, <2>3
<1>6. ASSUME NEW id \in Id, NEW c \in Client, NEW rotate \in BOOLEAN, EditProvider(id, c, rotate)
      PROVE  OffIsOff'
  <2>1. \A i \in Id : i # id => row'[i] = row[i]
    BY <1>6 DEF EditProvider, TypeOK
  <2>2. IsOn(id)' => IsOn(id)
    <3>1. CASE IsRow(id)
      <4> DEFINE r == [row[id] EXCEPT !.client = c, !.under = IF rotate THEN master ELSE @]
      <4>1. row[id] \in Row
        BY <3>1 DEF IsRow, TypeOK
      <4>2. r.on = row[id].on
        BY <4>1 DEF Row
      <4>3. row'[id] = r
        BY <1>6, <3>1 DEF EditProvider, TypeOK
      <4> HIDE DEF r
      <4> QED
        BY <3>1, <4>2, <4>3 DEF IsOn
    <3>2. CASE ~IsRow(id)
      BY <1>6, <3>2 DEF EditProvider, IsOn, IsRow
    <3> QED
      BY <3>1, <3>2
  <2> QED
    BY <1>5, <1>6, <2>1, <2>2 DEF EditProvider
<1>7. ASSUME NEW id \in Id, NEW on \in BOOLEAN, ToggleProvider(id, on) PROVE OffIsOff'
  <2>1. \A i \in Id : i # id => row'[i] = row[i]
    BY <1>7 DEF ToggleProvider, TypeOK
  <2>2. off' => (IsOn(id)' => IsOn(id))
    <3>1. CASE IsRow(id) /\ ~on
      <4>1. row[id] \in Row
        BY <3>1 DEF IsRow, TypeOK
      <4>2. row'[id] = [row[id] EXCEPT !.on = on]
        BY <1>7, <3>1 DEF ToggleProvider, TypeOK
      <4>3. ~row'[id].on
        BY <3>1, <4>1, <4>2 DEF Row
      <4> QED
        BY <4>3 DEF IsOn
    <3>2. CASE IsRow(id) /\ on
      BY <1>7, <3>2 DEF ToggleProvider
    <3>3. CASE ~IsRow(id)
      BY <1>7, <3>3 DEF ToggleProvider, IsOn, IsRow
    <3> QED
      BY <3>1, <3>2, <3>3
  <2> QED
    BY <1>5, <1>7, <2>1, <2>2 DEF ToggleProvider
<1>8. ASSUME NEW id \in Id, DeleteProvider(id) PROVE OffIsOff'
  <2>1. ~IsOn(id)' /\ \A i \in Id : i # id => row'[i] = row[i]
    BY <1>8 DEF DeleteProvider, TypeOK, IsOn, IsRow
  <2> QED
    BY <1>5, <1>8, <2>1 DEF DeleteProvider
<1> QED
  BY <1>1, <1>2, <1>3, <1>4, <1>6, <1>7, <1>8 DEF Manage

LEMMA SignInOff == ASSUME TypeOK, OffIsOff, NEW t \in Tab, SignIn(t) PROVE OffIsOff'
<1>1. UNCHANGED <<store, off>>
  BY DEF SignIn, StartLogin, Callback, DiscoveryAnswers, DiscoveryFails, BeginLogin, BeginFails,
         CallbackRefused, CompleteLogin
<1>2. \A id \in Id : IsOn(id)' = IsOn(id)
  BY <1>1 DEF IsOn, IsRow, store
<1>3. ASSUME NEW id \in Slot, NEW next, GetOidcConfiguration(t, id, next), cache'[Legacy] # None
      PROVE  cache[Legacy] # None \/ LegacyOidc # None
  <2>1. CASE Join(t, id, next)
    BY <1>3, <2>1 DEF Join
  <2>2. CASE Discover(t, id, next) /\ id # Legacy
    BY <1>3, <2>2 DEF Discover, TypeOK
  <2>3. CASE Discover(t, id, next) /\ id = Legacy
    BY <2>3 DEF Discover, Resolve, getProviderSecrets
  <2> QED
    BY <1>3, <2>1, <2>2, <2>3 DEF GetOidcConfiguration
<1>4. cache'[Legacy] # None => cache[Legacy] # None \/ LegacyOidc # None
  <2>1. ASSUME NEW id \in Slot, StartLogin(t, id) PROVE <1>4
    BY <1>3, <2>1 DEF StartLogin
  <2>2. CASE Callback(t)
    BY <1>3, <2>2 DEF Callback, TypeOK, Slot
  <2>3. CASE DiscoveryAnswers(t) \/ DiscoveryFails(t)
    BY <2>3 DEF DiscoveryAnswers, DiscoveryFails, TypeOK
  <2> QED
    BY <2>1, <2>2, <2>3 DEF SignIn, BeginLogin, BeginFails, CallbackRefused, CompleteLogin, Slot
<1> QED
  BY <1>1, <1>2, <1>4, OffKept DEF store

LEMMA OffStep == ASSUME TypeOK, OffIsOff, [Next]_vars PROVE OffIsOff'
<1>1. CASE UNCHANGED vars \/ Expire
  BY <1>1 DEF vars, Expire, store, OffIsOff, IsOn, IsRow
<1> QED
  BY <1>1, ManageOff, SignInOff DEF Next

-----------------------------------------------------------------------------
(* The theorems                                                            *)

LEMMA InitInv == ASSUME Init PROVE IInv
<1>1. \A t \in Tab : tab[t].waits = None /\ flight[t] = None
  BY DEF Init, Closed
<1>2. \A id \in Slot : cache[id] = None
  BY DEF Init, Slot
<1>3. TypeOK
  <2>1. stored \in {None} \cup Row
    BY DEF Init, Row
  <2> QED
    BY <2>1 DEF Init, TypeOK, Closed
<1> QED
  BY <1>1, <1>2, <1>3 DEF Init, IInv, Flights, EntryHasFlight, SharedFlight, OwnerWaits,
     WaitsOnTheWay, EntryIsRow, OffIsOff, Slot

LEMMA Inductive == Spec => []IInv
<1>1. Init => IInv
  BY InitInv
<1>2. IInv /\ [Next]_vars => IInv'
  BY TypeStep, FlightsStep, RowsStep, OffStep DEF IInv
<1> QED
  BY <1>1, <1>2, PTL DEF Spec

\* Types, for any number of tabs, rows and clients.
THEOREM TypeCorrect == Spec => []TypeOK
<1>1. IInv => TypeOK
  BY DEF IInv
<1> QED
  BY <1>1, Inductive, PTL

\* Whoever waits for a discovery waits for one that is still on and is for the
\* provider asked for, whatever is evicted, edited or fails meanwhile
\* (getOidcConfiguration).
THEOREM NobodyWaitsForNothing == Spec => []SharedFlight
<1>1. IInv => SharedFlight
  BY DEF IInv, Flights
<1> QED
  BY <1>1, Inductive, PTL

\* The cache answers for a row as the row is now, through any number of changes,
\* late answers and late failures (clearOidcConfigCache).
THEOREM CacheIsCurrent == Spec => []RowCacheCurrent
<1>1. IInv => RowCacheCurrent
  BY DEF IInv, Flights, EntryHasFlight, EntryIsRow, RowCacheCurrent, Slot
<1> QED
  BY <1>1, Inductive, PTL

\* Once everything was turned off nothing takes a sign-in until somebody adds or
\* enables a provider (disableAll).
THEOREM KillSwitchHolds == Spec => []KillSwitch
<1>1. ASSUME IInv PROVE KillSwitch
  <2>1. SUFFICES ASSUME off, env = None, stored = None
                 PROVE  ~IsOidcEnabled /\ \A id \in DOMAIN cache : cache[id] = None
    BY DEF KillSwitch
  <2>2. LegacyOidc = None
    BY <2>1 DEF LegacyOidc
  <2>3. \A id \in Id : ~IsOn(id) /\ cache[id] = None
    BY <1>1, <2>1, NoRowNoEntry DEF IInv, OffIsOff
  <2>4. cache[Legacy] = None /\ DOMAIN cache = Id \cup {Legacy}
    BY <1>1, <2>1 DEF IInv, OffIsOff, TypeOK
  <2> QED
    BY <2>2, <2>3, <2>4 DEF IsOidcEnabled
<1> QED
  BY <1>1, Inductive, PTL

LEMMA MoveStep ==
  ASSUME TypeOK, Next, stored # None, stored' = None, ~off'
  PROVE  \E id \in Id : IsOn(id)' /\ row'[id].client = stored.client
<1>1. \A t \in Tab : SignIn(t) => UNCHANGED stored
  BY DEF SignIn, StartLogin, Callback, DiscoveryAnswers, DiscoveryFails, BeginLogin, BeginFails,
         CallbackRefused, CompleteLogin, store
<1>2. Manage
  BY <1>1 DEF Next, Expire, store
<1>3. \E id \in Id : Migrate(id)
  BY <1>2 DEF Manage, AddProvider, EditProvider, ToggleProvider, DeleteProvider, MigrateDies,
     DisableAll, EnableAll, Restart
<1>4. PICK id \in Id : Migrate(id)
  BY <1>3
<1>5. row'[id] = Sealed(LegacyOidc) /\ LegacyOidc \in Client
  BY <1>4, LegacyType DEF Migrate, TypeOK
<1>6. LegacyOidc = stored.client
  BY <1>4 DEF Migrate, LegacyOidc
<1>7. row'[id] \in Row
  BY <1>5, SealedType
<1>8. row'[id].on /\ row'[id].client = LegacyOidc
  <2> DEFINE s == Sealed(LegacyOidc)
  <2>1. s.on /\ s.client = LegacyOidc
    BY DEF Sealed
  <2> HIDE DEF s
  <2> QED
    BY <1>5, <2>1 DEF s
<1>9. row'[id] \notin {None, Gone}
  BY <1>7, NoneIsNoRecord
<1>10. IsOn(id)' /\ row'[id].client = stored.client
  BY <1>6, <1>8, <1>9 DEF IsOn, IsRow
<1> QED
  BY <1>10

\* The legacy slot is never emptied before its provider is a row that is on
\* (migrateLegacyProvider), but by the kill switch.
THEOREM MoveIsSafe == Spec => MovedBeforeCleared
<1>1. TypeOK /\ [Next]_vars =>
        [stored # None /\ stored' = None /\ ~off' =>
           \E id \in Id : IsOn(id)' /\ row[id]'.client = stored.client]_vars
  BY MoveStep
<1> QED
  BY <1>1, TypeCorrect, PTL DEF Spec, MovedBeforeCleared
=============================================================================
