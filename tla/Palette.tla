------------------------------- MODULE Palette -------------------------------
(***************************************************************************)
(* The command palette (components/command-palette.tsx): static commands,  *)
(* the devices and the activity it asks the server for at each opening     *)
(* (lib/command-palette-data.ts), and the recents it keeps in the          *)
(* browser's storage, which all tabs share.                                *)
(*                                                                         *)
(* A tab's Server Actions run one after the other, so answers come in the  *)
(* order of the calls; they come while the palette is used, after it was   *)
(* closed, and after it was opened again.  A command is <<kind, number>>,  *)
(* and a typed query is the group it leaves.                               *)
(***************************************************************************)
EXTENDS Integers, Sequences

CONSTANTS
  Pages, Devices,   \* how many there are, or can be
  RECENTS_LIMIT,
  MaxVisits         \* BOUND: visits

ASSUME PaletteAssumption ==
  {Pages, Devices, MaxVisits} \subseteq Nat /\ RECENTS_LIMIT \in Nat \ {0}

VARIABLES
  open, query, active,
  devices, activity,   \* what the last answers were
  recentIds,           \* the recents as this tab knows them
  storage,              \* and as the storage has them
  calls,               \* Server Actions under way
  fleet,               \* the devices of the tailnet
  visits               \* HISTORY: the commands visited, as far as the storage took them

paletteVars == <<open, query, active, devices, activity, recentIds, storage, calls, fleet, visits>>

Count(n) == [k \in 1 .. n |-> k]

PaletteInit ==
  /\ open = FALSE /\ query = "" /\ active = 0
  /\ devices = <<>> /\ activity = <<>>
  /\ recentIds = <<>> /\ storage = <<>> /\ calls = <<>>
  /\ fleet = {} /\ visits = <<>>

-----------------------------------------------------------------------------
(* What is listed                                                          *)

Rows(kind, numbers) ==
  [k \in DOMAIN numbers |-> [section |-> kind, id |-> <<kind, numbers[k]>>]]

QUICK_ACTIONS == Rows("quick", <<1>>)
RECENTABLE_SECTIONS == {"page", "device"}

available ==
  Rows("page", Count(Pages)) \o Rows("device", devices) \o Rows("activity", activity)

\* Rows for the recents that are still listed, and none beside a typed query.
recentCommands ==
  LET kept == SelectSeq(recentIds, LAMBDA id : \E k \in DOMAIN available :
                available[k].id = id /\ available[k].section \in RECENTABLE_SECTIONS)
  IN IF query # "" THEN <<>>
     ELSE [k \in DOMAIN kept |-> [section |-> "recent", id |-> <<"recent">> \o kept[k]]]

filtered ==
  IF query = "" THEN QUICK_ACTIONS \o recentCommands \o available
  ELSE SelectSeq(QUICK_ACTIONS \o available, LAMBDA row : row.section = query)

\* The cursor is an index, from zero; no row may be under it.
Highlighted == active + 1 \in DOMAIN filtered
Row == filtered[active + 1]

-----------------------------------------------------------------------------
(* Recents                                                                 *)

\* MUTANT: a recent row is recorded under its own id.
recordableId_AsListed(row) ==
  IF row.section \in RECENTABLE_SECTIONS \cup {"recent"} THEN {row.id} ELSE {}

\* What a visit is recorded as: nothing for an action or a row of the activity.
recordableId(row) ==
  IF row.section \in RECENTABLE_SECTIONS THEN {row.id}
  ELSE IF row.section = "recent" THEN {Tail(row.id)} ELSE {}

\* To the front, once, and no more than the limit.
writeRecent(id) ==
  LET next == <<id>> \o SelectSeq(storage, LAMBDA other : other # id)
  IN SubSeq(next, 1, IF Len(next) < RECENTS_LIMIT THEN Len(next) ELSE RECENTS_LIMIT)

\* The command behind a row.
Command(row) == IF row.section = "recent" THEN Tail(row.id) ELSE row.id

\* A row is left by Enter, a click or its terminal; storage that is full or blocked takes nothing.
Visit(row) ==
  IF recordableId(row) = {} THEN UNCHANGED <<recentIds, storage, visits>>
  ELSE \E id \in recordableId(row), taken \in BOOLEAN :
         /\ Len(visits) < MaxVisits
         /\ recentIds' = writeRecent(id)
         /\ storage' = IF taken THEN writeRecent(id) ELSE storage
         /\ visits' = IF taken THEN Append(visits, Command(row)) ELSE visits

-----------------------------------------------------------------------------
(* Steps                                                                   *)

\* By the top bar's event or by Cmd-K, open or not.
openPalette ==
  /\ Len(calls) <= 1   \* BOUND
  /\ open' = TRUE /\ query' = "" /\ active' = 0
  /\ recentIds' = storage
  /\ calls' = calls \o <<"devices", "activity">>
  /\ UNCHANGED <<devices, activity, storage, fleet, visits>>

\* The devices of the tailnet, or none if they may not or cannot be read.
listPaletteDevices ==
  /\ calls # <<>> /\ Head(calls) = "devices" /\ calls' = Tail(calls)
  /\ devices' \in {<<>>, SelectSeq(Count(Devices), LAMBDA d : d \in fleet)}
  /\ UNCHANGED <<open, query, active, activity, recentIds, storage, fleet, visits>>

listPaletteActivity ==
  /\ calls # <<>> /\ Head(calls) = "activity" /\ calls' = Tail(calls)
  /\ activity' \in {<<>>, <<1>>}
  /\ UNCHANGED <<open, query, active, devices, recentIds, storage, fleet, visits>>

Close ==
  /\ open /\ open' = FALSE
  /\ UNCHANGED <<query, active, devices, activity, recentIds, storage, calls, fleet, visits>>

handleQueryChange(q) ==
  /\ open /\ q # query /\ query' = q /\ active' = 0
  /\ UNCHANGED <<open, devices, activity, recentIds, storage, calls, fleet, visits>>

\* Arrows, Home and End; the mouse reaches any row.
handleInputKeyDown ==
  /\ open
  /\ active' \in {IF active + 1 < Len(filtered) THEN active + 1 ELSE Len(filtered) - 1,
                  IF active > 0 THEN active - 1 ELSE 0, 0, Len(filtered) - 1}
                 \cup {k - 1 : k \in DOMAIN filtered}
  /\ UNCHANGED <<open, query, devices, activity, recentIds, storage, calls, fleet, visits>>

select ==
  /\ open /\ Highlighted /\ Visit(Row)
  /\ open' = FALSE
  /\ UNCHANGED <<query, active, devices, activity, calls, fleet>>

\* The highlighted device's terminal, in a tab of its own.
openDeviceTerminal ==
  /\ open /\ Highlighted /\ Command(Row)[1] = "device" /\ Visit(Row)
  /\ open' = FALSE
  /\ UNCHANGED <<query, active, devices, activity, calls, fleet>>

\* The palette of another tab.
OtherTab ==
  /\ Len(visits) < MaxVisits
  /\ \E k \in DOMAIN available :
       /\ available[k].section \in RECENTABLE_SECTIONS
       /\ storage' = writeRecent(available[k].id)
       /\ visits' = Append(visits, available[k].id)
  /\ UNCHANGED <<open, query, active, devices, activity, recentIds, calls, fleet>>

FleetChanges ==
  /\ \E d \in 1 .. Devices : fleet' = IF d \in fleet THEN fleet \ {d} ELSE fleet \cup {d}
  /\ UNCHANGED <<open, query, active, devices, activity, recentIds, storage, calls, visits>>

PaletteNext ==
  \/ openPalette \/ listPaletteDevices \/ listPaletteActivity \/ Close
  \/ \E q \in {"", "page", "device", "activity"} : handleQueryChange(q)
  \/ handleInputKeyDown \/ select \/ openDeviceTerminal
  \/ OtherTab \/ FleetChanges

PaletteSpec == PaletteInit /\ [][PaletteNext]_paletteVars

-----------------------------------------------------------------------------
(* Property                                                                *)

\* The storage holds the last commands visited, each once, the latest first, however many tabs
\* record and whichever of its rows a command was chosen by; none is missing but for the limit.
RecentsAreLastVisits ==
  LET Visited == {visits[k] : k \in DOMAIN visits}
      Last(id) == CHOOSE k \in DOMAIN visits :
                    visits[k] = id /\ \A j \in DOMAIN visits : visits[j] = id => j <= k
  IN /\ \A k \in DOMAIN storage : storage[k] \in Visited
     /\ \A j, k \in DOMAIN storage : j < k => Last(storage[j]) > Last(storage[k])
     /\ \A id \in Visited : \/ \E k \in DOMAIN storage : storage[k] = id
                            \/ /\ Len(storage) = RECENTS_LIMIT
                               /\ Last(id) < Last(storage[RECENTS_LIMIT])
=============================================================================
