---------------------------- MODULE PlanClaims ----------------------------
(***************************************************************************)
(* Scheduled and manual claims of the Coding Plan: PlanClaimService in     *)
(* plan_claim.go, the claim itself in codingplan.go, the handlers of       *)
(* api.go that change a schedule or delete accounts, and OAuth logins.     *)
(*                                                                         *)
(* A claim is a goroutine, started by the cron library, by an HTTP handler *)
(* or by a login.  Its steps are the critical sections of the code and the *)
(* calls to the Coding Plan API.  The handlers of an administrator are     *)
(* threads too: the row of an account and its cron entry are changed in    *)
(* separate critical sections, under the locks of the Store and of the     *)
(* service.                                                                *)
(***************************************************************************)
EXTENDS Integers, FiniteSets, Sequences

CONSTANTS
  Accounts,    \* identifiers of accounts; an identifier is never reissued
  Legacy,      \* the accounts stored before schedules were persisted
  Claims,      \* slots for claims in flight
  Handlers,    \* slots for administrative requests in flight
  Crons,       \* cron expressions
  Valid,       \* the expressions the parser accepts
  DefaultCron, \* defaultPlanClaimCron
  MaxLogs,     \* maxPlanClaimLogs
  MaxClaims,   \* bound of the claims started
  MaxFailures, \* number of Store saves that may fail
  MaxStops,    \* number of graceful stops of the process
  MaxKills,    \* number of times the process may be killed
  NoRow, NoEntry

ASSUME ClaimConstants ==
  /\ Legacy \subseteq Accounts
  /\ Valid \subseteq Crons /\ DefaultCron \in Valid
  /\ MaxLogs \in Nat \ {0} /\ MaxClaims \in Nat
  /\ MaxFailures \in Nat /\ MaxStops \in Nat /\ MaxKills \in Nat
  /\ NoEntry \notin Crons
  /\ NoRow \notin [enabled : BOOLEAN, cron : Crons]

VARIABLES
  stored,   \* stored[a]: the schedule in the row of the account, in the memory of the Store
  disk,     \* what SQLite holds: the rows and the claim logs
  issued,   \* the identifiers of accounts issued so far
  logs,     \* PlanClaimLogs in the memory of the Store, oldest first
  jobs,     \* jobs[a][x]: entries of the cron library for account a and expression x
  entries,  \* entries[a]: the expression of the entry the service knows of, or NoEntry
  running,  \* PlanClaimService.running
  claim,    \* claim[c]: local state of a claim
  handler,  \* handler[h]: local state of an administrative request
  process,  \* "up", "closing" (the server has shut down, Close waits), "down"
  started,  \* number of claims started; identifies a claim's log
  failures, stops, kills

store == <<stored, disk, issued, logs, failures>>
cron == <<jobs, entries>>
bounds == <<started, stops, kills>>
vars == <<stored, disk, issued, logs, jobs, entries, running, claim, handler, process,
          started, failures, stops, kills>>

Schedule == [enabled : BOOLEAN, cron : Crons]
Tiers == <<"Max", "Pro", "Lite">>
Log == [id : 1 .. MaxClaims, trigger : {"manual", "scheduled"},
        status : {"running", "success", "failed"}]

Idle == [pc |-> "idle"]
Exists(a) == stored[a] # NoRow
NoJobs == [a \in Accounts |-> [x \in Crons |-> 0]]

\* Account.View: rows without a schedule predate schedules, which were always on then.
LegacySchedule == [enabled |-> TRUE, cron |-> DefaultCron]
\* defaultPlanClaimSchedule, the schedule of a new account
NewSchedule == [enabled |-> FALSE, cron |-> DefaultCron]

(***************************************************************************)
(* The Store                                                               *)
(***************************************************************************)
\* saveLocked writes the whole state in a transaction, or fails and leaves the
\* memory changed.  The caller says what became of rows and logs.
Save(rows, ls, ok) ==
  /\ stored' = rows
  /\ logs' = ls
  /\ IF ok THEN disk' = [rows |-> rows, logs |-> ls] /\ UNCHANGED failures
     ELSE failures < MaxFailures /\ failures' = failures + 1 /\ UNCHANGED disk

\* Any other call that saves the core state writes what an earlier failure left behind.
SaveElsewhere ==
  /\ disk # [rows |-> stored, logs |-> logs]
  /\ process # "down"
  /\ Save(stored, logs, TRUE)
  /\ UNCHANGED <<issued, jobs, entries, running, claim, handler, process, bounds>>

\* Definitions named Wrong... are plausible defects of the definition they precede;
\* they are not part of the specification.
\* The cap in StartPlanClaimLog
Newest(ls) == IF Len(ls) > MaxLogs THEN SubSeq(ls, Len(ls) - MaxLogs + 1, Len(ls)) ELSE ls

\* UpdateAccount of fields other than the schedule; it fails for an account that is gone.
UpdateAccount(a, ok) == Exists(a) /\ Save(stored, logs, ok)

(***************************************************************************)
(* The cron library and the service's table of entries                     *)
(***************************************************************************)
WrongWithout(js, a, e) == js
\* cron.Remove of entry e of account a
Without(js, a, e) == IF e = NoEntry THEN js ELSE [js EXCEPT ![a][e] = @ - 1]

\* The critical section of Reschedule, for a schedule read before.
Install(js, es, a, s) ==
  LET rest == Without(js, a, es[a])
  IN  /\ jobs' = IF s.enabled THEN [rest EXCEPT ![a][s.cron] = @ + 1] ELSE rest
      /\ entries' = [es EXCEPT ![a] = IF s.enabled THEN s.cron ELSE NoEntry]

Uninstall(a) ==
  /\ jobs' = Without(jobs, a, entries[a])
  /\ entries' = [entries EXCEPT ![a] = NoEntry]

\* PlanClaimService.Start on the rows of a starting process; it fails, and the process
\* with it, when an enabled schedule has an expression the parser refuses.
StartsOn(rows) ==
  \A a \in Accounts : rows[a] # NoRow /\ rows[a].enabled => rows[a].cron \in Valid
EntriesOn(rows) ==
  [a \in Accounts |-> IF rows[a] # NoRow /\ rows[a].enabled
                      THEN rows[a].cron ELSE NoEntry]
JobsOf(es) == [a \in Accounts |-> [x \in Crons |-> IF x = es[a] THEN 1 ELSE 0]]

LegacyRows ==
  [a \in Accounts |-> IF a \in Legacy THEN LegacySchedule ELSE NoRow]

Init ==
  /\ stored = LegacyRows
  /\ logs = <<>>
  /\ disk = [rows |-> LegacyRows, logs |-> <<>>]
  /\ issued = Legacy
  /\ entries = EntriesOn(LegacyRows)
  /\ jobs = JobsOf(EntriesOn(LegacyRows))
  /\ running = {}
  /\ claim = [c \in Claims |-> Idle]
  /\ handler = [h \in Handlers |-> Idle]
  /\ process = "up"
  /\ started = 0 /\ failures = 0 /\ stops = 0 /\ kills = 0

(***************************************************************************)
(* A claim                                                                 *)
(***************************************************************************)
Go(c, local) == claim' = [claim EXCEPT ![c] = local]
At(c, pc) == claim[c].pc = pc

Called(a, trigger, login) ==
  [pc |-> "read", account |-> a, trigger |-> trigger, login |-> login, id |-> started + 1,
   tried |-> 0, failed |-> FALSE]

Begins(c, a, trigger, login) ==
  /\ At(c, "idle")
  /\ started < MaxClaims
  /\ started' = started + 1
  /\ Go(c, Called(a, trigger, login))

\* The cron library runs a job of account a; it does so until Close has stopped it.
Fire(c, a) ==
  /\ process # "down"
  /\ \E x \in Crons : jobs[a][x] > 0
  /\ Begins(c, a, "scheduled", FALSE)
  /\ UNCHANGED <<store, cron, running, handler, process, stops, kills>>

\* HandleAccountClaim, for an account that exists or no longer does
ClaimByHand(c, a) ==
  /\ process = "up"
  /\ a \in issued
  /\ Begins(c, a, "manual", FALSE)
  /\ UNCHANGED <<store, cron, running, handler, process, stops, kills>>

\* UpsertAccount and the call of Claim in OAuthManager.Poll: a login creates an account
\* or replaces the row of the one it knows, whose schedule it keeps.
Login(c, a) ==
  /\ process = "up"
  /\ Exists(a) \/ a \notin issued
  /\ issued' = issued \cup {a}
  /\ LET rows == [stored EXCEPT ![a] = IF Exists(a) THEN @ ELSE NewSchedule]
     IN  \/ Save(rows, logs, TRUE) /\ Begins(c, a, "manual", TRUE)
         \/ /\ At(c, "idle")
            /\ Save(rows, logs, FALSE)
            /\ UNCHANGED <<claim, started>>
  /\ UNCHANGED <<cron, running, handler, process, stops, kills>>

\* Where a claim that leaves Claim with an error goes: a login marks the account.
Failed(c) == IF claim[c].login THEN [claim[c] EXCEPT !.pc = "mark"] ELSE Idle

ReadAccount(c) ==
  /\ At(c, "read")
  /\ Go(c, IF Exists(claim[c].account) THEN [claim[c] EXCEPT !.pc = "begin"] ELSE Failed(c))
  /\ UNCHANGED <<store, cron, running, handler, process, bounds>>

WrongBusy(a) == FALSE
Busy(a) == a \in running

\* begin
Begin(c) ==
  /\ At(c, "begin")
  /\ IF Busy(claim[c].account)
     THEN Go(c, Failed(c)) /\ UNCHANGED running
     ELSE /\ running' = running \cup {claim[c].account}
          /\ Go(c, [claim[c] EXCEPT !.pc = "log"])
  /\ UNCHANGED <<store, cron, handler, process, bounds>>

WrongAfterLog(c, ok) == IF ok THEN [claim[c] EXCEPT !.pc = "authorize"] ELSE Failed(c)
\* finish is deferred before the log is started.
AfterLog(c, ok) ==
  IF ok THEN [claim[c] EXCEPT !.pc = "authorize"]
  ELSE [claim[c] EXCEPT !.pc = "finish", !.failed = TRUE]

\* StartPlanClaimLog
StartLog(c) ==
  /\ At(c, "log")
  /\ \E ok \in BOOLEAN :
       /\ Save(stored,
               Newest(Append(logs, [id |-> claim[c].id, trigger |-> claim[c].trigger,
                                    status |-> "running"])),
               ok)
       /\ Go(c, AfterLog(c, ok))
  /\ UNCHANGED <<issued, cron, running, handler, process, bounds>>

WrongGiveUp(c) == Go(c, [claim[c] EXCEPT !.pc = "finish", !.failed = TRUE])
GiveUp(c) == Go(c, [claim[c] EXCEPT !.pc = "finishlog", !.failed = TRUE])

\* ClaimAndSyncDetailed reads the account again and refreshes its token, which may fail.
Authorize(c) ==
  /\ At(c, "authorize")
  /\ \/ Exists(claim[c].account) /\ Go(c, [claim[c] EXCEPT !.pc = "claim"])
     \/ GiveUp(c)
  /\ UNCHANGED <<store, cron, running, handler, process, bounds>>

\* The loop over the tiers stops at the first one granted, or already held, and fails
\* when the last one was refused.
TryTier(c) ==
  /\ At(c, "claim")
  /\ \/ Go(c, [claim[c] EXCEPT !.pc = "sync"])
     \/ /\ claim[c].tried + 1 < Len(Tiers)
        /\ Go(c, [claim[c] EXCEPT !.tried = @ + 1])
     \/ /\ claim[c].tried + 1 = Len(Tiers)
        /\ GiveUp(c)
  /\ UNCHANGED <<store, cron, running, handler, process, bounds>>

\* After a granted tier the status or the models cannot be fetched.
FetchFails(c) ==
  /\ At(c, "sync")
  /\ GiveUp(c)
  /\ UNCHANGED <<store, cron, running, handler, process, bounds>>

\* The end of ClaimAndSyncDetailed stores the plan and the models.
SyncAccount(c) ==
  /\ At(c, "sync")
  /\ \/ \E ok \in BOOLEAN :
          /\ UpdateAccount(claim[c].account, ok)
          /\ Go(c, [claim[c] EXCEPT !.pc = "finishlog", !.failed = ~ok])
     \/ /\ ~Exists(claim[c].account)
        /\ GiveUp(c)
        /\ UNCHANGED <<stored, logs, disk, failures>>
  /\ UNCHANGED <<issued, cron, running, handler, process, bounds>>

\* FinishPlanClaimLog: the log with the identifier of the claim, if it is still there
Finished(c) ==
  [i \in DOMAIN logs |->
     IF logs[i].id = claim[c].id
     THEN [logs[i] EXCEPT !.status = IF claim[c].failed THEN "failed" ELSE "success"]
     ELSE logs[i]]

FinishLog(c) ==
  /\ At(c, "finishlog")
  /\ IF \E i \in DOMAIN logs : logs[i].id = claim[c].id
     THEN \E ok \in BOOLEAN :
            /\ Save(stored, Finished(c), ok)
            /\ Go(c, [claim[c] EXCEPT !.pc = "finish", !.failed = @ \/ ~ok])
     ELSE /\ Go(c, [claim[c] EXCEPT !.pc = "finish", !.failed = TRUE])
          /\ UNCHANGED <<stored, logs, disk, failures>>
  /\ UNCHANGED <<issued, cron, running, handler, process, bounds>>

\* The deferred finish
Finish(c) ==
  /\ At(c, "finish")
  /\ running' = running \ {claim[c].account}
  /\ Go(c, IF claim[c].failed THEN Failed(c) ELSE Idle)
  /\ UNCHANGED <<store, cron, handler, process, bounds>>

\* Poll sets the account to "error" when its claim failed, also with errPlanClaimInProgress.
MarkAccount(c) ==
  /\ At(c, "mark")
  /\ \/ \E ok \in BOOLEAN : UpdateAccount(claim[c].account, ok)
     \/ ~Exists(claim[c].account) /\ UNCHANGED <<stored, logs, disk, failures>>
  /\ Go(c, Idle)
  /\ UNCHANGED <<issued, cron, running, handler, process, bounds>>

ClaimStep(c) ==
  \/ ReadAccount(c) \/ Begin(c) \/ StartLog(c) \/ Authorize(c) \/ TryTier(c)
  \/ FetchFails(c) \/ SyncAccount(c) \/ FinishLog(c) \/ Finish(c) \/ MarkAccount(c)

(***************************************************************************)
(* Administrative requests                                                 *)
(***************************************************************************)
Answer(h) == handler' = [handler EXCEPT ![h] = Idle]
Then(h, local) == handler' = [handler EXCEPT ![h] = local]
Serves(h) == handler[h] = Idle /\ process = "up"

WrongAccepted(s) == TRUE
\* HandleAccountUpdate checks the expression of a schedule that is switched on.
Accepted(s) == s.enabled => s.cron \in Valid

\* HandleAccountUpdate with a schedule, up to the call of Reschedule
Patch(h, a, s) ==
  /\ Serves(h)
  /\ Exists(a)
  /\ Accepted(s)
  /\ \E ok \in BOOLEAN :
       /\ Save([stored EXCEPT ![a] = s], logs, ok)
       /\ IF ok THEN Then(h, [pc |-> "reread", account |-> a]) ELSE Answer(h)
  /\ UNCHANGED <<issued, cron, running, claim, process, bounds>>

\* Reschedule reads the account; it fails for one that is gone, or whose schedule
\* does not parse.
Reread(h) ==
  /\ handler[h].pc = "reread"
  /\ LET a == handler[h].account
     IN  IF Exists(a) /\ Accepted(stored[a])
         THEN Then(h, [pc |-> "install", account |-> a, schedule |-> stored[a]])
         ELSE Answer(h)
  /\ UNCHANGED <<store, cron, running, claim, process, bounds>>

\* Reschedule under the service's mutex
Reschedule(h) ==
  /\ handler[h].pc = "install"
  /\ Install(jobs, entries, handler[h].account, handler[h].schedule)
  /\ Answer(h)
  /\ UNCHANGED <<store, running, claim, process, bounds>>

\* DeleteAccount and DeleteErrorAccounts, then one Unschedule for each account deleted
DeleteAll(h, dead) ==
  \E ok \in BOOLEAN :
    /\ Save([a \in Accounts |-> IF a \in dead THEN NoRow ELSE stored[a]], logs, ok)
    /\ IF ok THEN Then(h, [pc |-> "unschedule", accounts |-> dead]) ELSE Answer(h)

HandleAccountDelete(h, a) ==
  /\ Serves(h)
  /\ Exists(a)
  /\ DeleteAll(h, {a})
  /\ UNCHANGED <<issued, cron, running, claim, process, bounds>>

\* Which accounts have the status "error" is decided by their requests and claims.
HandleErrorAccountsDelete(h) ==
  /\ Serves(h)
  /\ \E dead \in SUBSET {a \in Accounts : Exists(a)} :
       IF dead = {} THEN UNCHANGED <<stored, logs, disk, failures, handler>>
       ELSE DeleteAll(h, dead)
  /\ UNCHANGED <<issued, cron, running, claim, process, bounds>>

WrongUnscheduled(a) == UNCHANGED cron
Unscheduled(a) == Uninstall(a)

Unschedule(h) ==
  /\ handler[h].pc = "unschedule"
  /\ \E a \in handler[h].accounts :
       /\ Unscheduled(a)
       /\ IF handler[h].accounts = {a} THEN Answer(h)
          ELSE Then(h, [handler[h] EXCEPT !.accounts = @ \ {a}])
  /\ UNCHANGED <<store, running, claim, process, bounds>>

HandlerStep(h) ==
  \/ \E a \in Accounts, s \in Schedule : Patch(h, a, s)
  \/ \E a \in Accounts : HandleAccountDelete(h, a)
  \/ HandleErrorAccountsDelete(h)
  \/ Reread(h) \/ Reschedule(h) \/ Unschedule(h)

(***************************************************************************)
(* The process                                                             *)
(***************************************************************************)
\* The threads of the process are gone; what it had in memory is not read again.
Dies ==
  /\ process' = "down"
  /\ claim' = [c \in Claims |-> Idle]
  /\ handler' = [h \in Handlers |-> Idle]
  /\ running' = {}

\* main after a signal: the server takes no new requests and waits up to ten seconds
\* for those in flight; then Close stops the cron library.
Shutdown ==
  /\ process = "up"
  /\ stops < MaxStops
  /\ stops' = stops + 1
  /\ process' = "closing"
  /\ UNCHANGED <<store, cron, running, claim, handler, started, kills>>

WrongWaits == {}
\* The claims that Close waits for
Waits == {c \in Claims : claim[c] # Idle /\ claim[c].trigger = "scheduled"}

\* Close returns and the process ends; requests still in flight end with it.
Close ==
  /\ process = "closing"
  /\ Waits = {}
  /\ Dies
  /\ UNCHANGED <<store, cron, bounds>>

Kill ==
  /\ process # "down"
  /\ kills < MaxKills
  /\ kills' = kills + 1
  /\ Dies
  /\ UNCHANGED <<store, cron, started, stops>>

\* NewStore and PlanClaimService.Start
Restart ==
  /\ process = "down"
  /\ StartsOn(disk.rows)
  /\ process' = "up"
  /\ stored' = disk.rows
  /\ logs' = disk.logs
  /\ entries' = EntriesOn(disk.rows)
  /\ jobs' = JobsOf(EntriesOn(disk.rows))
  /\ UNCHANGED <<disk, issued, failures, running, claim, handler, bounds>>

Next ==
  \/ \E c \in Claims, a \in Accounts : Fire(c, a) \/ ClaimByHand(c, a) \/ Login(c, a)
  \/ \E c \in Claims : ClaimStep(c)
  \/ \E h \in Handlers : HandlerStep(h)
  \/ SaveElsewhere \/ Shutdown \/ Close \/ Kill \/ Restart

Spec == Init /\ [][Next]_vars
\* A goroutine in the middle of a claim runs on: its calls to the Coding Plan API end
\* by the time-outs of the client and of the context.
FairSpec == Spec /\ \A c \in Claims : WF_vars(ClaimStep(c))

(***************************************************************************)
(* Properties                                                              *)
(***************************************************************************)
Working(c) == claim[c].pc \in {"log", "authorize", "claim", "sync", "finishlog", "finish"}
Logged(c) == claim[c].pc \in {"authorize", "claim", "sync", "finishlog"}

Local == [pc : {"read", "begin", "log", "authorize", "claim", "sync", "finishlog", "finish", "mark"},
          account : Accounts, trigger : {"manual", "scheduled"}, login : BOOLEAN,
          id : 1 .. MaxClaims, tried : 0 .. Len(Tiers) - 1, failed : BOOLEAN]
Serving == [pc : {"reread"}, account : Accounts]
           \cup [pc : {"install"}, account : Accounts, schedule : Schedule]
           \cup [pc : {"unschedule"}, accounts : SUBSET Accounts]
Logs == {ls \in Seq(Log) : Len(ls) <= MaxLogs}

\* The state has its type: no claim log beyond the cap, no negative number of cron
\* entries, no fourth tier.
TypeOK ==
  /\ stored \in [Accounts -> Schedule \cup {NoRow}]
  /\ disk.rows \in [Accounts -> Schedule \cup {NoRow}] /\ disk.logs \in Logs
  /\ issued \subseteq Accounts
  /\ logs \in Logs
  /\ jobs \in [Accounts -> [Crons -> Nat]]
  /\ entries \in [Accounts -> Crons \cup {NoEntry}]
  /\ running \subseteq Accounts
  /\ claim \in [Claims -> Local \cup {Idle}]
  /\ handler \in [Handlers -> Serving \cup {Idle}]
  /\ process \in {"up", "closing", "down"}
  /\ started \in 0 .. MaxClaims
  /\ failures \in 0 .. MaxFailures /\ stops \in 0 .. MaxStops /\ kills \in 0 .. MaxKills

\* An account has at most one claim between begin and finish, whoever started it:
\* cron, the administrator or a login.  running holds exactly these accounts, so a
\* claim refused or failed never lets the next one in early, nor locks it out.
OneClaimPerAccount ==
  /\ running = {claim[c].account : c \in {d \in Claims : Working(d)}}
  /\ \A c, d \in Claims :
       Working(c) /\ Working(d) /\ claim[c].account = claim[d].account => c = d

\* The cron library runs the entries of the table and no others: an entry that the
\* service no longer knows of could never be removed, and would claim twice.
NoStrayJob == jobs = JobsOf(entries)

\* Between administrative requests handled one at a time, the entries are those of the
\* stored schedules, as long as every save succeeded.
InstalledIsStored ==
  process = "up" /\ failures = 0 /\ (\A h \in Handlers : handler[h] = Idle)
    => entries = EntriesOn(stored)

\* Whatever the administrator stored, and wherever the process died, a process that
\* starts on the database can schedule every account: Start, and main with it, would
\* fail on the first expression that does not parse.
StartsAgain == StartsOn(disk.rows) /\ StartsOn(stored)

\* Without failed saves and interruptions, a log says "running" only while its claim
\* runs: every way out of Claim after StartPlanClaimLog finishes the log.
RunningLogsHaveClaims ==
  failures = 0 /\ stops = 0 /\ kills = 0
    => \A i \in DOMAIN logs :
         logs[i].status = "running" => \E c \in Claims : Logged(c) /\ claim[c].id = logs[i].id

\* A graceful stop leaves no scheduled claim half done: Close waits for the jobs before
\* the database is closed, so their logs are finished in SQLite.
ScheduledLogsSettled ==
  process = "down" /\ kills = 0 /\ failures = 0
    => \A i \in DOMAIN disk.logs :
         disk.logs[i].trigger = "scheduled" => disk.logs[i].status # "running"

\* A "running" claim log does not stay so, unless a save failed or the process stopped.
LogRunning(n) == \E i \in DOMAIN logs : logs[i].id = n /\ logs[i].status = "running"
LogsSettle ==
  \A n \in 1 .. MaxClaims :
    []<>(~LogRunning(n) \/ failures > 0 \/ stops > 0 \/ kills > 0)

\* An account is not locked out of claims for ever: whatever fails, finish runs.  And the
\* page of claims does not show for ever a claim that ended.
ClaimsEnd == (\A a \in Accounts : []<>(a \notin running)) /\ LogsSettle
=============================================================================
