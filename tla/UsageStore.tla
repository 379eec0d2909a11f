---------------------------- MODULE UsageStore ----------------------------
(***************************************************************************)
(* The request records of the Store: the memory from which the dashboard   *)
(* is computed, and the table atom2api_usage_records in SQLite             *)
(* (store.go, store_sqlite.go).                                            *)
(*                                                                         *)
(* Every operation runs under the mutex of the Store and ends with one     *)
(* transaction, so each is one action, with the transaction committed or   *)
(* not.  The table compares timestamps as text; a timestamp is modelled by *)
(* two digits of its fraction of a second.                                 *)
(*                                                                         *)
(* Records are appended in the order in which they are recorded and kept   *)
(* in that order, in memory and by seq on disk.  Their identifiers are     *)
(* numbered in it, so a set of records stands for the sequence.            *)
(***************************************************************************)
EXTENDS Integers, Sequences, FiniteSets

CONSTANTS
  Cap,         \* maxUsageRecords
  Base,        \* digits are 0 .. Base - 1
  Start,       \* the first reading of the clock
  Step,        \* the resolution of the clock, in units of the second digit
  Retention,   \* the age from which an administrator may clean up records
  MaxTime,     \* bound of the clock
  MaxRecords,  \* bound of the requests recorded
  MaxFailures, \* number of transactions that may fail
  MaxRestarts  \* number of times the process may be killed and restarted

ASSUME UsageConstants ==
  /\ Cap \in Nat \ {0}
  /\ Base \in Nat /\ Base > 1 /\ Step \in Nat \ {0}
  /\ Retention \in Nat \ {0}
  /\ Start \in Nat /\ Start >= Base
  /\ MaxTime \in Start .. Base * Base - 1
  /\ MaxRecords \in Nat /\ MaxFailures \in Nat /\ MaxRestarts \in Nat

VARIABLES
  now,      \* the clock
  usage,    \* persistedState.Usage
  count,    \* RequestCount of the account and of the key, in memory
  disk,     \* the rows of the table, and RequestCount, in SQLite
  recorded, \* number of calls of RecordUsage; identifies a record
  saved,    \* history: the records whose RecordUsage succeeded
  cutoff,   \* history: the latest cutoff before which records were deleted
  misread,  \* history: the records whose rows a clean-up judged otherwise than by the clock
  failures, restarts

history == <<saved, cutoff, misread>>
vars == <<now, usage, count, disk, recorded, history, failures, restarts>>

Record == [id : 1 .. MaxRecords, time : Start .. MaxTime, details : BOOLEAN]

Newer(r, S) == {s \in S : s.id > r.id}
Newest(S) == {r \in S : Cardinality(Newer(r, S)) < Cap}

(***************************************************************************)
(* Timestamps in memory and on disk                                        *)
(***************************************************************************)
\* sqliteTimestamp drops the trailing zeros of the fraction; the letter that ends the
\* text, Z, is greater than every digit, and is written Base here.
Text(t) == IF t % Base = 0 THEN <<t \div Base, Base>> ELSE <<t \div Base, t % Base, Base>>

\* The comparison of SQLite.  No text is a prefix of another one.
TextBefore(t, u) ==
  \E i \in DOMAIN Text(t) \cap DOMAIN Text(u) :
    /\ Text(t)[i] < Text(u)[i]
    /\ \A j \in 1 .. i - 1 : Text(t)[j] = Text(u)[j]

(***************************************************************************)
(* Operations                                                              *)
(***************************************************************************)
Init ==
  /\ now = Start
  /\ usage = {} /\ count = 0
  /\ disk = [rows |-> {}, count |-> 0]
  /\ recorded = 0
  /\ saved = {} /\ cutoff = 0 /\ misread = {}
  /\ failures = 0 /\ restarts = 0

Tick ==
  /\ now + Step <= MaxTime
  /\ now' = now + Step
  /\ UNCHANGED <<usage, count, disk, recorded, history, failures, restarts>>

Fails == failures < MaxFailures /\ failures' = failures + 1 /\ UNCHANGED disk

\* Definitions named Wrong... are plausible defects of the definition they precede;
\* they are not part of the specification.
WrongCompacted(rows, compact) ==
  IF compact THEN {r \in rows : Cardinality({s \in rows : s.id < r.id}) < Cap} ELSE rows
\* saveUsageLocked removes the rows beyond the cap when the memory went over it.
Compacted(rows, compact) == IF compact THEN Newest(rows) ELSE rows

\* A transaction that fails leaves the database as it was.
RolledBack(rows) == UNCHANGED disk

\* RecordUsage.  A request is recorded when it ends and carries the time of its start,
\* so records are not in the order of their times.
RecordUsage ==
  /\ recorded < MaxRecords
  /\ recorded' = recorded + 1
  /\ \E t \in {now, now - Step} \cap (Start .. MaxTime), details \in BOOLEAN :
       LET r == [id |-> recorded + 1, time |-> t, details |-> details]
       IN  /\ usage' = Newest(usage \cup {r})
           /\ count' = count + 1
           /\ \/ /\ disk' = [rows |-> Compacted(disk.rows \cup {r}, Cardinality(usage) = Cap),
                             count |-> count + 1]
                 /\ saved' = saved \cup {r}
                 /\ UNCHANGED failures
              \/ /\ failures < MaxFailures /\ failures' = failures + 1
                 /\ RolledBack(disk.rows \cup {r})
                 /\ UNCHANGED saved
  /\ UNCHANGED <<now, cutoff, misread, restarts>>

\* DELETE ... WHERE timestamp < ?
RowsKept(c) == {r \in disk.rows : ~TextBefore(r.time, c)}

\* Rows that go although they are not before c, and rows that stay although they are
Misjudged(c) == {r.id : r \in {s \in disk.rows : TextBefore(s.time, c) # (s.time < c)}}

\* DeleteUsageRecordsBefore; nothing is done when the memory holds no old record.
DeleteUsageRecordsBefore(c) ==
  LET kept == {r \in usage : r.time >= c}
  IN  \/ kept = usage /\ UNCHANGED vars
      \/ /\ kept # usage
         /\ \/ /\ disk' = [disk EXCEPT !.rows = RowsKept(c)]
               /\ usage' = kept
               /\ cutoff' = IF c > cutoff THEN c ELSE cutoff
               /\ misread' = misread \cup Misjudged(c)
               /\ UNCHANGED failures
            \/ Fails /\ UNCHANGED <<usage, cutoff, misread>>
         /\ UNCHANGED <<now, count, recorded, saved, restarts>>

Cleared(S, which) ==
  {IF r.id \in which THEN [r EXCEPT !.details = FALSE] ELSE r : r \in S}

WrongRowsCleared(which) == disk.rows
\* One UPDATE for each record that changed, found by its identifier and timestamp
RowsCleared(which) == Cleared(disk.rows, which)

ClearUsageDetailsBefore(c) ==
  LET changed == {r.id : r \in {s \in usage : s.time < c /\ s.details}}
  IN  \/ changed = {} /\ UNCHANGED vars
      \/ /\ changed # {}
         /\ \/ /\ disk' = [disk EXCEPT !.rows = RowsCleared(changed)]
               /\ usage' = Cleared(usage, changed)
               /\ UNCHANGED failures
            \/ Fails /\ UNCHANGED usage
         /\ UNCHANGED <<now, count, recorded, history, restarts>>

\* handleAuditCleanup computes the cutoff from the clock.
CleanUp ==
  \E c \in {t \in Start .. now - Retention : (now - t) % Step = 0} :
    DeleteUsageRecordsBefore(c) \/ ClearUsageDetailsBefore(c)

\* Any other call that saves the core state saves the counters with it.
SaveElsewhere ==
  /\ disk.count # count
  /\ disk' = [disk EXCEPT !.count = count]
  /\ UNCHANGED <<now, usage, count, recorded, history, failures, restarts>>

\* The process dies at any moment; loadSQLite reads the newest rows.
Restart ==
  /\ restarts < MaxRestarts
  /\ restarts' = restarts + 1
  /\ usage' = Newest(disk.rows)
  /\ count' = disk.count
  /\ UNCHANGED <<now, disk, recorded, history, failures>>

Next == Tick \/ RecordUsage \/ CleanUp \/ SaveElsewhere \/ Restart

Spec == Init /\ [][Next]_vars

(***************************************************************************)
(* Properties                                                              *)
(***************************************************************************)
TypeOK ==
  /\ now \in Start .. MaxTime
  /\ usage \subseteq Record /\ Cardinality(usage) <= Cap
  /\ count \in 0 .. recorded
  /\ disk \in [rows : SUBSET Record, count : 0 .. count]
  /\ recorded \in 0 .. MaxRecords
  /\ saved \subseteq Record
  /\ cutoff \in 0 .. MaxTime
  /\ misread \subseteq 1 .. recorded
  /\ failures \in 0 .. MaxFailures /\ restarts \in 0 .. MaxRestarts

\* As long as every transaction succeeded and no clean-up misjudged a row, a restart shows
\* the records it showed before: the capped memory, the compacted table and both kinds of
\* clean-up stay in step.
ReloadShowsTheSame == failures = 0 /\ misread = {} => usage = Newest(disk.rows)

\* A record that was saved survives failures of later transactions, compaction and
\* restarts: it is on disk unless Cap later ones were saved, it was old enough for a
\* clean-up, or a clean-up took its row for older than it is.
SavedSurvive ==
  \A r \in Newest(saved) :
    r.time >= cutoff => r.id \in misread \/ \E row \in disk.rows : row.id = r.id

\* The rows and the counters are written in one transaction: no row on disk is a request
\* that the stored counters leave out.
RowsAreCounted == Cardinality(disk.rows) <= disk.count

\* store.go:972: whatever fails or is restarted in between, no saved request is missing
\* from the rows, but for those of SavedSurvive, and none of the rows from the counters.
NothingLost == SavedSurvive /\ RowsAreCounted

\* audit_cleanup_test.go: after a clean-up of records the database contains none of those
\* it deleted.
CleanUpReachesDisk ==
  failures = 0 => \A r \in disk.rows : r.time >= cutoff

\* README.md:148: the latest request records are stored in the database.  A clean-up may
\* remove the row of a record that it keeps in memory (store_sqlite.go:428).
KeptOnDisk == failures = 0 => usage \subseteq disk.rows
=============================================================================
