------------------------------- MODULE Overview -------------------------------
(***************************************************************************)
(* What the pages that only read make of the same machines and keys: the   *)
(* dashboard, the machines list with its segments, a machine's own page,   *)
(* and the key tables under settings.                                      *)
(*                                                                         *)
(* Each page is rendered from what Headscale answers at that moment, so a  *)
(* page is an operator on the state of the tailnet, and a step is anything *)
(* that changes the tailnet, or a day that passes.  The agent's own node   *)
(* is in none of these pages and is left out.                              *)
(***************************************************************************)
EXTENDS Naturals, FiniteSets

CONSTANTS
  Machines, AuthKeys,        \* how many there can be; their number is their place in a list
  SOON, WARN, PAST, FUTURE,  \* windows, in days
  MAX_ITEMS,                 \* rows of "Expiring soon"
  LastDay                    \* BOUND: days that pass

ASSUME OverviewAssumption ==
  /\ {Machines, AuthKeys, SOON, WARN, PAST, FUTURE, MAX_ITEMS, LastDay} \subseteq Nat
  /\ SOON <= WARN

VARIABLES
  today,
  machine,   \* what Headscale knows of each machine
  authKey,   \* and of each pre-auth key
  own        \* when the API key the console itself uses expires

overviewVars == <<today, machine, authKey, own>>

None_ == [present |-> FALSE]
Never == LastDay + FUTURE + 1   \* no expiry: further away than any window
Expiry == 0 .. LastDay + 1 \cup {Never}
Route == {"exit", "subnet"}

Enrolled == {n \in 1 .. Machines : machine[n].present}
Kept == {k \in 1 .. AuthKeys : authKey[k].present}

-----------------------------------------------------------------------------
(* lib/machines.ts                                                         *)

expired(e) == e <= today
expiresSoon(e) == e > today /\ e <= today + WARN

\* MUTANT: only served routes count, and one machine read alone serves none.
toNodeView_ServedOnly(m, subnet) ==
  [online |-> m.online, expired |-> expired(m.expiry), expiresSoon |-> expiresSoon(m.expiry),
   invalidTags |-> m.rejected, isExitNode |-> "exit" \in subnet,
   advertisesExit |-> "exit" \in m.available \ subnet,
   subnetRoutes |-> subnet \ {"exit"},
   enabledRoutes |-> (m.available \cap m.approved) \ {"exit"},
   staleApprovals |-> (m.approved \ m.available) \ {"exit"},
   pendingRoutes |-> (m.available \ m.approved) \ {"exit"}]

\* Headscale fills the served routes in the list of nodes and leaves them empty
\* when it is asked for one.
toNodeView(m, subnet) ==
  LET exit == "exit" \in subnet \cup (m.available \cap m.approved)
  IN [online |-> m.online, expired |-> expired(m.expiry), expiresSoon |-> expiresSoon(m.expiry),
      invalidTags |-> m.rejected, isExitNode |-> exit,
      advertisesExit |-> ~exit /\ "exit" \in m.available,
      subnetRoutes |-> subnet \ {"exit"},
      enabledRoutes |-> (m.available \cap m.approved) \ {"exit"},
      staleApprovals |-> (m.approved \ m.available) \ {"exit"},
      pendingRoutes |-> (m.available \ m.approved) \ {"exit"}]

InList(n) == toNodeView(machine[n], machine[n].served)
OnItsPage(n) == toNodeView(machine[n], {})

hasIssue(v) ==
  v.expired \/ v.expiresSoon \/ v.invalidTags \/ v.advertisesExit \/ v.pendingRoutes # {}

matchesStatus(v, filter) ==
  \/ filter = "all"
  \/ filter = "online" /\ v.online /\ ~v.expired
  \/ filter = "offline" /\ ~v.online /\ ~v.expired
  \/ filter = "issues" /\ hasIssue(v)

nodeDot(v) == IF v.expired THEN "critical" ELSE IF v.online THEN "online" ELSE "idle"

-----------------------------------------------------------------------------
(* The machines page, its export, and a machine's own page                 *)

edgeStatus(v) == IF v.expiresSoon THEN "warn" ELSE nodeDot(v)

Chip(mark, when) == IF when THEN {mark} ELSE {}

\* The chips of a row of the table, of a card, and of the header of the machine's page.
MachineRow(v) ==
  Chip("invalid", v.invalidTags)
  \cup Chip("exit", v.isExitNode) \cup Chip("exit pending", v.advertisesExit)
  \cup Chip("served", v.subnetRoutes # {}) \cup Chip("pending", v.pendingRoutes # {})
  \cup Chip("expiring", v.expiresSoon)

HostCard(v) ==
  Chip("exit", v.isExitNode) \cup Chip("exit pending", v.advertisesExit)
  \cup Chip("served", v.subnetRoutes # {}) \cup Chip("pending", v.pendingRoutes # {})
  \cup Chip("expired", v.expired) \cup Chip("expiring", v.expiresSoon)
  \cup Chip("invalid", v.invalidTags)

DetailHeader(v) ==
  Chip("exit", v.isExitNode) \cup Chip("exit pending", v.advertisesExit)
  \cup Chip("expiring", v.expiresSoon) \cup Chip("expired", v.expired)

\* The export's cells of the state and the routes.
cellsFor(v) ==
  [status |-> IF v.expired THEN "expired" ELSE IF v.online THEN "online" ELSE "offline",
   exit |-> IF v.isExitNode THEN "exit" ELSE IF v.advertisesExit THEN "exit(pending)" ELSE "",
   subnet |-> v.subnetRoutes, pending |-> v.pendingRoutes]

\* Where nothing is said to be served, what is approved is shown.
RoutesCard(v) ==
  [exit |-> IF v.isExitNode THEN "active" ELSE IF v.advertisesExit THEN "pending" ELSE "none",
   routes |-> IF v.subnetRoutes # {} THEN v.subnetRoutes ELSE v.enabledRoutes,
   pending |-> v.pendingRoutes, stale |-> v.staleApprovals]

IdentityCard(v) == Chip("invalid", v.invalidTags)

\* The machine's page: its header and cards.
MachineDetail(v) ==
  DetailHeader(v) \cup IdentityCard(v) \cup Chip("pending", RoutesCard(v).pending # {})

\* The tone of the stamp beside "Key expiry", and of its mark on the timeline.
LifecycleCard(v) == IF v.expired THEN "critical" ELSE IF v.expiresSoon THEN "warn" ELSE "default"
lifecycleEvents(v) == IF v.expired THEN "critical" ELSE IF v.expiresSoon THEN "warn" ELSE "online"

-----------------------------------------------------------------------------
(* The key tables                                                          *)

describeExpiry(e) ==
  IF e = Never THEN "never" ELSE IF e <= today THEN "expired"
  ELSE IF e <= today + 1 THEN "expiring" ELSE "active"

\* "A key that can no longer enrol anything: expired, or a consumed single-use key."
isInactive(k) == describeExpiry(k.expiry) = "expired" \/ (k.used /\ ~k.reusable)

\* The rows left by "Hide expired & used", or without it.
PreAuthKeysTable(hideInactive) == {k \in Kept : ~(hideInactive /\ isInactive(authKey[k]))}

StateChip(k) ==
  IF describeExpiry(k.expiry) = "expired" THEN "expired"
  ELSE IF k.used /\ ~k.reusable THEN "used"
  ELSE IF describeExpiry(k.expiry) = "expiring" THEN "expiring" ELSE "active"

-----------------------------------------------------------------------------
(* The dashboard                                                           *)

toAttention(v) ==
  IF v.expired THEN "expired" ELSE IF ~v.online THEN "offline"
  ELSE IF v.expiresSoon THEN "expiring" ELSE "none"

\* "Needs attention" and the count beside it.
Attention == {n \in Enrolled : toAttention(InList(n)) # "none"}

InWindow(e, ahead) == e + PAST >= today /\ e <= today + ahead

\* The timeline of node keys; its own cap is far above what the model holds.
expiryEvents ==
  {[of |-> n, tone |-> IF InList(n).expired THEN "critical"
                       ELSE IF InList(n).expiresSoon THEN "warn" ELSE "healthy"] :
     n \in {m \in Enrolled : InWindow(machine[m].expiry, FUTURE)}}

\* MUTANT: a key that was used once is never renewed.
AuthKeyItems_Used ==
  {[kind |-> "key", place |-> k, time |-> authKey[k].expiry, expired |-> authKey[k].expiry <= today] :
     k \in {j \in Kept : ~authKey[j].used /\ InWindow(authKey[j].expiry, SOON)}}

\* "A single-use key that's already been consumed has nothing left to renew."
AuthKeyItems ==
  {[kind |-> "key", place |-> k, time |-> authKey[k].expiry, expired |-> authKey[k].expiry <= today] :
     k \in {j \in Kept : /\ ~(authKey[j].used /\ ~authKey[j].reusable)
                         /\ InWindow(authKey[j].expiry, SOON)}}

NodeItems ==
  {[kind |-> "node", place |-> n, time |-> machine[n].expiry, expired |-> InList(n).expired] :
     n \in {m \in Enrolled : InWindow(machine[m].expiry, SOON)}}

OwnItems ==
  {[kind |-> "own", place |-> 0, time |-> e, expired |-> describeExpiry(e) = "expired"] :
     e \in {x \in {own} : InWindow(x, SOON)}}

Rank == [own |-> 0, node |-> 1, key |-> 2]

\* Expired first, then soonest first; a stable sort keeps the order of the parts.
Before(a, b) ==
  \/ a.expired /\ ~b.expired
  \/ /\ a.expired = b.expired
     /\ \/ a.time < b.time
        \/ a.time = b.time /\ Rank[a.kind] < Rank[b.kind]
        \/ a.time = b.time /\ a.kind = b.kind /\ a.place < b.place

\* "Expiring soon": the first of them, and only beside the devices' other widgets.
expiringSoon ==
  LET items == OwnItems \cup NodeItems \cup AuthKeyItems
  IN IF Enrolled = {} THEN {}
     ELSE {i \in items : Cardinality({j \in items : Before(j, i)}) < MAX_ITEMS}

-----------------------------------------------------------------------------
(* The tailnet and the days                                                *)

OverviewInit ==
  /\ today = 0 /\ own \in Expiry
  /\ machine = [n \in 1 .. Machines |-> None_]
  /\ authKey = [k \in 1 .. AuthKeys |-> None_]

DayPasses == today < LastDay /\ today' = today + 1 /\ UNCHANGED <<machine, authKey, own>>

Enrols(n) ==
  /\ ~machine[n].present
  /\ \E e \in Expiry : machine' = [machine EXCEPT ![n] =
       [present |-> TRUE, online |-> TRUE, expiry |-> e, rejected |-> FALSE,
        available |-> {}, approved |-> {}, served |-> {}]]
  /\ UNCHANGED <<today, authKey, own>>

\* Comes, goes, is renewed or expired; asks for tags that the policy rejects or
\* permits again; advertises; is approved or not.
Changes(n) ==
  /\ machine[n].present
  /\ \/ machine' = [machine EXCEPT ![n].online = ~@]
     \/ machine' = [machine EXCEPT ![n].rejected = ~@]
     \/ \E e \in Expiry : e >= today /\ machine' = [machine EXCEPT ![n].expiry = e]
     \/ \E r \in SUBSET Route : machine' = [machine EXCEPT ![n].available = r, ![n].served = @ \cap r]
     \/ \E r \in SUBSET Route : machine' = [machine EXCEPT ![n].approved = r, ![n].served = @ \cap r]
     \/ \E r \in SUBSET (machine[n].available \cap machine[n].approved) :
          machine' = [machine EXCEPT ![n].served = r]
  /\ UNCHANGED <<today, authKey, own>>

Leaves(n) ==
  /\ machine[n].present /\ machine' = [machine EXCEPT ![n] = None_]
  /\ UNCHANGED <<today, authKey, own>>

KeyMade(k) ==
  /\ ~authKey[k].present
  /\ \E e \in Expiry, r \in BOOLEAN : authKey' = [authKey EXCEPT ![k] =
       [present |-> TRUE, expiry |-> e, reusable |-> r, used |-> FALSE]]
  /\ UNCHANGED <<today, machine, own>>

\* What Headscale asks of a key that registers a machine.
Enrolling(k) == k.expiry > today /\ (k.reusable \/ ~k.used)

KeyUsed(k) ==
  /\ authKey[k].present /\ Enrolling(authKey[k])
  /\ authKey' = [authKey EXCEPT ![k].used = TRUE]
  /\ UNCHANGED <<today, machine, own>>

OverviewNext ==
  \/ DayPasses
  \/ \E n \in 1 .. Machines : Enrols(n) \/ Changes(n) \/ Leaves(n)
  \/ \E k \in 1 .. AuthKeys : KeyMade(k) \/ KeyUsed(k)

OverviewSpec == OverviewInit /\ [][OverviewNext]_overviewVars

-----------------------------------------------------------------------------
(* Properties                                                              *)

\* Pages rendered at the same moment say the same, though Headscale answers the
\* read of one machine differently from the list's.  The machine's own page bears
\* the marks of its card in the list, which alone counts what is served, and shows
\* every route the export names; the row of the table has those of the card, or an
\* edge where the key expired; a machine is among the issues if its row says so;
\* what the dashboard does not flag is online and not due; its timeline has the
\* tones of the machine's page; and the key tables show what Headscale still takes.
PagesAgree ==
  /\ \A n \in Enrolled :
       LET list == InList(n)  page == OnItsPage(n)
           card == RoutesCard(page)  row == MachineRow(list)  cells == cellsFor(list)
       IN /\ MachineDetail(page) = HostCard(list) \ {"served"}
          /\ row = HostCard(list) \ {"expired"}
          /\ cells.subnet \subseteq card.routes /\ cells.pending = card.pending
          /\ card.exit = "active" <=> cells.exit = "exit"
          /\ card.exit = "pending" <=> cells.exit = "exit(pending)"
          /\ matchesStatus(list, "issues") <=>
               edgeStatus(list) = "critical" \/ row \ {"exit", "served"} # {}
          /\ n \notin Attention => matchesStatus(list, "online") /\ ~list.expiresSoon
          /\ toAttention(list) \in {"expired", "expiring"} => matchesStatus(list, "issues")
          /\ \A f \in {"online", "offline"} : matchesStatus(list, f) <=> cells.status = f
          /\ \A e \in expiryEvents, tone \in {"critical", "warn"} : e.of = n =>
               /\ e.tone = tone <=> LifecycleCard(page) = tone
               /\ e.tone = tone <=> lifecycleEvents(page) = tone
  /\ \A k \in Kept :
       /\ Enrolling(authKey[k]) <=> k \in PreAuthKeysTable(TRUE)
       /\ Enrolling(authKey[k]) <=> StateChip(authKey[k]) \in {"active", "expiring"}
  /\ \A i \in expiringSoon :
       i.kind = "key" => (i.expired <=> StateChip(authKey[i.place]) = "expired")

\* Whoever looks at the dashboard once in the last week of a machine, of a key
\* that still enrols, or of the console's own key finds it listed, unless the
\* list is full of what expired or expires before it.
RenewalsAreListed ==
  LET due(e) == e > today /\ e <= today + SOON
      listed(kind, place, e) ==
        \/ \E i \in expiringSoon : i.kind = kind /\ i.place = place /\ ~i.expired
        \/ Cardinality({i \in expiringSoon : i.expired \/ i.time <= e}) >= MAX_ITEMS
  IN Enrolled # {} =>
       /\ due(own) => listed("own", 0, own)
       /\ \A n \in Enrolled : due(machine[n].expiry) => listed("node", n, machine[n].expiry)
       /\ \A k \in Kept : due(authKey[k].expiry) /\ Enrolling(authKey[k]) =>
            listed("key", k, authKey[k].expiry)
=============================================================================
