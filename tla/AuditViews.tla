----------------------------- MODULE AuditViews -----------------------------
(***************************************************************************)
(* What an administrator reads of the request records while requests are   *)
(* recorded and cleaned up: the pages of the audit list and the dashboard  *)
(* (api.go).                                                               *)
(*                                                                         *)
(* A view takes one copy of the records under the mutex of the Store and   *)
(* changes nothing, so views do not disturb each other and one at a time   *)
(* is followed.  The list is spread over several requests, each with a     *)
(* copy of its own; the dashboard reads the clock before it takes the      *)
(* copy.                                                                   *)
(***************************************************************************)
EXTENDS UsageStore, Functions

CONSTANTS
  PageSize,  \* records on a page
  Queries,   \* what may be asked for: each the set of the records that match
  Span,      \* the range of the dashboard
  Bucket,    \* the width of one bar of its trend
  Slack      \* how far a record may lie in the future; a minute

ASSUME ViewConstants ==
  /\ PageSize \in Nat \ {0} /\ Bucket \in Nat \ {0} /\ Slack \in Nat
  /\ Queries \subseteq SUBSET (1 .. MaxRecords)
  /\ Span \in Nat /\ Span % Bucket = 0

VARIABLE view  \* the view that is being read, and what it showed

viewVars == <<vars, view>>

NoView == [at |-> "none"]

ViewInit == Init /\ view = NoView

(***************************************************************************)
(* The audit list                                                          *)
(***************************************************************************)
\* The records that pass the filters.  What the filters look at does not change, except
\* the names of accounts and keys, which are left out.
Matching(query) == {r \in usage : r.id \in query}

Identifiers(records) == {r.id : r \in records}

WrongOnPage(records, page) ==
  Identifiers({r \in records :
    Cardinality({s \in records : s.id < r.id}) \div PageSize = page - 1})
\* The list begins with the newest; a page that begins behind the last record is empty.
OnPage(records, page) ==
  Identifiers({r \in records : Cardinality(Newer(r, records)) \div PageSize = page - 1})

Pages(records) == (Cardinality(records) + PageSize - 1) \div PageSize

\* An administrator turns to the list; due and opened are history.
OpenList ==
  /\ view = NoView
  /\ \E query \in Queries :
       view' = [at |-> "paging", query |-> query, page |-> 1, shown |-> {},
                due |-> Identifiers(Matching(query)), opened |-> recorded]

\* The next page is asked for as long as the answer says that there is one.
HandleAudits ==
  /\ view.at = "paging"
  /\ LET records == Matching(view.query)
     IN  view' = [view EXCEPT !.at = IF view.page < Pages(records) THEN "paging" ELSE "read",
                              !.page = @ + 1,
                              !.shown = @ \cup OnPage(records, view.page)]

(***************************************************************************)
(* The dashboard                                                           *)
(***************************************************************************)
AskDashboard ==
  /\ view = NoView
  /\ view' = [at |-> "asked", clock |-> now]

\* Neither before the range nor more than Slack after the clock.
Counted == {r \in usage : r.time \in view.clock - Span .. view.clock + Slack}

\* A record that was started at the reading of the clock or later has no bar.
BarOf(t) == (t - (view.clock - Span)) \div Bucket

HandleDashboard ==
  /\ view.at = "asked"
  /\ view' = [at |-> "shown", clock |-> view.clock, requests |-> Cardinality(Counted),
              trend |-> [bar \in 0 .. Span \div Bucket - 1 |->
                           Cardinality({r \in Counted : BarOf(r.time) = bar})]]

ViewStep == OpenList \/ HandleAudits \/ AskDashboard \/ HandleDashboard

\* A view that is complete is judged as it stands and left at once.
Complete == view.at \in {"read", "shown"}

ViewsNext ==
  \/ ~Complete /\ Next /\ UNCHANGED view
  \/ ~Complete /\ ViewStep /\ UNCHANGED vars
  \/ Complete /\ view' = NoView /\ UNCHANGED vars

ViewsSpec == ViewInit /\ [][ViewsNext]_viewVars

(***************************************************************************)
(* Properties                                                              *)
(***************************************************************************)
Present == Identifiers(usage)

\* Records that were due when the list was opened, still exist and were on no page
Missed == (view.due \cap Present) \ view.shown

\* Records after m that were in the list at some time and have been removed
RemovedAfter(m) == {r \in view.query : r > m /\ r \notin Present
                                       /\ (r \in view.due \/ r \in view.opened + 1 .. recorded)}

\* A restart after a failed save, or after a clean-up that left the row of a record it
\* removed, shows records again that the memory had dropped.
NothingReturned == restarts = 0 \/ (failures = 0 /\ misread = {})

\* Requests that are recorded while the pages are read push no record off them: one is
\* missed only for a record after it that was removed meanwhile, and each hides at most one.
PagesMissNothing ==
  view.at = "read" /\ NothingReturned =>
    \A m \in Missed : Cardinality({n \in Missed : n >= m}) <= Cardinality(RemovedAfter(m))

\* Whatever was recorded after its clock was read, the dashboard's trend adds up to its
\* total without the requests that were not before that reading.
TrendAddsUp ==
  view.at = "asked" /\ view'.at = "shown" =>
    SumFunction(view'.trend)
      = view'.requests - Cardinality({r \in Counted : r.time >= view.clock})

\* What a view shows of records that change while it is read is complete.
ViewsAddUp == [][PagesMissNothing' /\ TrendAddsUp]_viewVars
=============================================================================
