------------------------------ MODULE AuditTrail ------------------------------
(***************************************************************************)
(* The audit trail: the rows appended by every operation (lib/audit), the  *)
(* page that shows them newest first, a page at a time and filtered        *)
(* (app/(app)/audit), and the CSV export that walks them in batches.       *)
(*                                                                         *)
(* Rows are appended while a reader pages through them and an export is    *)
(* under way.  An offset counts from the newest row, so every append moves *)
(* the rest one place down.  A call of listAudit is two statements: the    *)
(* rows, then their number; another process on the same file may append    *)
(* between them.  The three filters are one here: what they select is a    *)
(* kind of rows.                                                           *)
(***************************************************************************)
EXTENDS Integers, Sequences

CONSTANTS
  Kind,        \* what a filter can tell apart
  All,         \* no filter
  PAGE_SIZE, BATCH,
  MaxEntries   \* BOUND: rows ever appended

ASSUME TrailAssumption ==
  /\ {PAGE_SIZE, BATCH} \subseteq Nat \ {0} /\ MaxEntries \in Nat
  /\ All \notin Kind

VARIABLES
  log,       \* audit_log, newest first
  loading,   \* the page on its way to the browser
  view,      \* the page in the browser
  walk,      \* HISTORY: since the first page was shown: the rows it began with, and those shown
  csv        \* the export

trailVars == <<log, loading, view, walk, csv>>

Ids(entries) == {entries[k].id : k \in DOMAIN entries}

\* A call of listAudit for a page of limit rows.
Asked(filter, limit, offset) ==
  [filter |-> filter, limit |-> limit, offset |-> offset,
   step |-> "entries", entries |-> <<>>, total |-> 0]

TrailInit ==
  /\ log = <<>>
  /\ loading = [step |-> "none"]
  /\ view = [shown |-> "nothing"]
  /\ walk = [filter |-> All, began |-> {}, seen |-> {}]
  /\ csv = [step |-> "none"]

-----------------------------------------------------------------------------
(* lib/audit/index.ts                                                      *)

\* The row is stamped before it is inserted: with a clock set back, or two
\* rows stamped in one order and inserted in the other, it is not the newest.
recordAudit(kind, at) ==
  /\ Len(log) < MaxEntries
  /\ log' = SubSeq(log, 1, at - 1) \o <<[id |-> Len(log) + 1, kind |-> kind]>>
            \o SubSeq(log, at, Len(log))
  /\ UNCHANGED <<loading, view, walk, csv>>

buildWhere(filter) == SelectSeq(log, LAMBDA e : filter \in {All, e.kind})

\* MUTANT: the rows are counted before they are read.
listAudit_CountFirst(call) ==
  LET rows == buildWhere(call.filter)
      end  == call.offset + call.limit
  IN IF call.step = "entries"
     THEN [call EXCEPT !.step = "total", !.total = Len(rows)]
     ELSE [call EXCEPT !.step = "read",
             !.entries = SubSeq(rows, call.offset + 1, IF end < Len(rows) THEN end ELSE Len(rows))]

\* One statement of a call: the page, then the number of all.
listAudit(call) ==
  LET rows == buildWhere(call.filter)
      end  == call.offset + call.limit
  IN IF call.step = "entries"
     THEN [call EXCEPT !.step = "total",
             !.entries = SubSeq(rows, call.offset + 1, IF end < Len(rows) THEN end ELSE Len(rows))]
     ELSE [call EXCEPT !.step = "read", !.total = Len(rows)]

-----------------------------------------------------------------------------
(* The page                                                                *)

\* A navigation to a page of the trail; a later one takes its place.
\* BOUND: the page is left alone while an export runs, which shares only the log with it.
ShowPage(filter, page) ==
  /\ csv.step # "reading" /\ csv' = [step |-> "none"]
  /\ loading' = [call |-> Asked(filter, PAGE_SIZE, (page - 1) * PAGE_SIZE), page |-> page,
                 step |-> "reading", began |-> {}]
  /\ UNCHANGED <<log, view, walk>>

\* The distinct values of the rows, for the filter rail.
loadFacets == {log[k].kind : k \in DOMAIN log}

LoadAudit ==
  /\ loading.step = "reading" /\ loading.call.step # "read"
  /\ loading' = [loading EXCEPT !.call = listAudit(@),
       !.began = IF loading.call.step = "entries" THEN Ids(buildWhere(loading.call.filter)) ELSE @]
  /\ UNCHANGED <<log, view, walk, csv>>

\* What the page is rendered with, once both are read.
AuditPage ==
  /\ loading.step = "reading" /\ loading.call.step = "read"
  /\ LET call == loading.call
     IN /\ view' = [shown |-> "trail", filter |-> call.filter, page |-> loading.page,
                    rows |-> Len(call.entries), total |-> call.total, facets |-> loadFacets]
        /\ walk' = IF loading.page = 1
                   THEN [filter |-> call.filter, began |-> loading.began, seen |-> Ids(call.entries)]
                   ELSE [walk EXCEPT !.seen = @ \cup Ids(call.entries)]
  /\ loading' = [step |-> "none"]
  /\ UNCHANGED <<log, csv>>

\* The store could not be read: a panel says so.
LoadFails ==
  /\ loading.step = "reading"
  /\ loading' = [step |-> "none"]
  /\ view' = [shown |-> "error"]
  /\ UNCHANGED <<log, walk, csv>>

Shown == view.shown = "trail"
totalPages == LET n == (view.total + PAGE_SIZE - 1) \div PAGE_SIZE IN IF n > 1 THEN n ELSE 1
currentPage == IF view.page < totalPages THEN view.page ELSE totalPages
hasNext == currentPage < totalPages
hasPrev == currentPage > 1

\* The rail is there when the trail has rows, a filter is set or there is something to choose.
hasAnyRows == view.total > 0 \/ view.filter # All \/ view.facets # {}

OpenAudit == ShowPage(All, 1)   \* by the sidebar, and by the error panel's Retry

\* A filter is chosen, or all are cleared.
Update(filter) ==
  /\ Shown /\ hasAnyRows /\ filter \in view.facets \cup {All}
  /\ ShowPage(filter, 1)

\* The links under the rows keep the filter.
Pagination ==
  /\ Shown /\ view.rows > 0
  /\ \/ hasPrev /\ ShowPage(view.filter, currentPage - 1)
     \/ hasNext /\ ShowPage(view.filter, currentPage + 1)

-----------------------------------------------------------------------------
(* The export                                                              *)

ExportButton ==
  /\ Shown /\ view.total > 0 /\ csv.step # "reading" /\ loading.step = "none"
  /\ csv' = [step |-> "reading", call |-> Asked(view.filter, BATCH, 0), rows |-> {},
             began |-> Ids(buildWhere(view.filter))]
  /\ UNCHANGED <<log, loading, view, walk>>

ExportReads ==
  /\ csv.step = "reading" /\ csv.call.step # "read"
  /\ csv' = [csv EXCEPT !.call = listAudit(@)]
  /\ UNCHANGED <<log, loading, view, walk>>

\* The rows of a batch are written; a short batch, or one that reaches the total, is the last.
ExportWrites ==
  /\ csv.step = "reading" /\ csv.call.step = "read"
  /\ LET call   == csv.call
         offset == call.offset + Len(call.entries)
         last   == Len(call.entries) < BATCH \/ offset >= call.total
     IN csv' = [csv EXCEPT !.rows = @ \cup Ids(call.entries),
                           !.step = IF last THEN "whole" ELSE "reading",
                           !.call = Asked(call.filter, BATCH, offset)]
  /\ UNCHANGED <<log, loading, view, walk>>

\* The store fails: the file ends there.
ExportFails ==
  /\ csv.step = "reading"
  /\ csv' = [csv EXCEPT !.step = "cut"]
  /\ UNCHANGED <<log, loading, view, walk>>

TrailNext ==
  \/ \E kind \in Kind, at \in 1 .. Len(log) + 1 : recordAudit(kind, at)
  \/ OpenAudit \/ LoadAudit \/ AuditPage \/ LoadFails \/ Pagination
  \/ \E filter \in Kind \cup {All} : Update(filter)
  \/ ExportButton \/ ExportReads \/ ExportWrites \/ ExportFails

TrailSpec == TrailInit /\ [][TrailNext]_trailVars

-----------------------------------------------------------------------------
(* Property                                                                *)

\* Whoever walks the trail misses nothing that was there when he began, whatever is appended
\* meanwhile: a reader who uses the page's own controls has seen, on the last page, every
\* matching row there was when the first page was read, whatever filters were tried on the way;
\* an export that the store did not cut off holds every matching row there was at its start.
TrailSkipsNothing ==
  /\ Shown /\ ~hasNext => walk.filter = view.filter /\ walk.began \subseteq walk.seen
  /\ csv.step = "whole" => csv.began \subseteq csv.rows
=============================================================================
