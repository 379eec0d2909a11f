-------------------------- MODULE PlanClaimsProofs --------------------------
(***************************************************************************)
(* Proofs about PlanClaims for every number of accounts, claims in flight, *)
(* administrative requests and failures.                                   *)
(***************************************************************************)
EXTENDS PlanClaims, SequenceTheorems, TLAPS

-----------------------------------------------------------------------------
(* Entries and jobs *)

(* Start and every critical section of Reschedule and Unschedule keep the  *)
(* cron library and the table of entries in step.                          *)
LEMMA InstallKeepsJobs ==
  ASSUME NEW a \in Accounts, NEW s \in Schedule,
         entries \in [Accounts -> Crons \cup {NoEntry}], NoStrayJob,
         Install(jobs, entries, a, s)
  PROVE  entries' \in [Accounts -> Crons \cup {NoEntry}] /\ NoStrayJob'
<1> DEFINE rest == Without(jobs, a, entries[a])
<1>1. s.enabled \in BOOLEAN /\ s.cron \in Crons /\ NoEntry \notin Crons
  BY ClaimConstants DEF Schedule
<1>2. entries' = [entries EXCEPT ![a] = IF s.enabled THEN s.cron ELSE NoEntry]
  BY DEF Install
<1>3. entries' \in [Accounts -> Crons \cup {NoEntry}]
  BY <1>1, <1>2
<1>4. \A b \in Accounts : entries'[b] = IF b = a THEN IF s.enabled THEN s.cron ELSE NoEntry
                                        ELSE entries[b]
  BY <1>2
<1>5. jobs = [b \in Accounts |-> [x \in Crons |-> IF x = entries[b] THEN 1 ELSE 0]]
  BY DEF NoStrayJob, JobsOf
<1>6. rest = [b \in Accounts |-> [x \in Crons |->
                IF b = a THEN 0 ELSE IF x = entries[b] THEN 1 ELSE 0]]
  <2>1. CASE entries[a] = NoEntry
    BY <2>1, <1>1, <1>5 DEF Without
  <2>2. CASE entries[a] # NoEntry
    <3>1. entries[a] \in Crons
      BY <2>2
    <3>2. rest = [jobs EXCEPT ![a] = [jobs[a] EXCEPT ![entries[a]] = jobs[a][entries[a]] - 1]]
      BY <2>2 DEF Without
    <3>3. jobs[a] = [x \in Crons |-> IF x = entries[a] THEN 1 ELSE 0]
      BY <1>5
    <3>4. [jobs[a] EXCEPT ![entries[a]] = jobs[a][entries[a]] - 1] = [x \in Crons |-> 0]
      BY <3>1, <3>3
    <3>5. rest = [jobs EXCEPT ![a] = [x \in Crons |-> 0]]
      BY <3>2, <3>4
    <3> HIDE DEF rest
    <3>6. rest = [b \in Accounts |-> IF b = a THEN [x \in Crons |-> 0] ELSE jobs[b]]
      BY <3>5, <1>5
    <3>7. ASSUME NEW b \in Accounts
          PROVE  (IF b = a THEN [x \in Crons |-> 0] ELSE jobs[b])
                   = [x \in Crons |-> IF b = a THEN 0 ELSE IF x = entries[b] THEN 1 ELSE 0]
      BY <1>5
    <3> QED
      BY <3>6, <3>7
  <2> QED
    BY <2>1, <2>2
<1>7. jobs' = [b \in Accounts |-> [x \in Crons |-> IF x = entries'[b] THEN 1 ELSE 0]]
  <2>1. CASE ~s.enabled
    <3>1. jobs' = rest
      BY <2>1 DEF Install
    <3> QED
      BY <3>1, <2>1, <1>1, <1>4, <1>6
  <2>2. CASE s.enabled
    <3>1. jobs' = [rest EXCEPT ![a] = [rest[a] EXCEPT ![s.cron] = rest[a][s.cron] + 1]]
      BY <2>2 DEF Install
    <3>2. rest[a] = [x \in Crons |-> 0]
      BY <1>6
    <3> HIDE DEF rest
    <3>3. [rest[a] EXCEPT ![s.cron] = rest[a][s.cron] + 1]
            = [x \in Crons |-> IF x = s.cron THEN 1 ELSE 0]
      BY <3>2, <1>1
    <3>4. jobs' = [rest EXCEPT ![a] = [x \in Crons |-> IF x = s.cron THEN 1 ELSE 0]]
      BY <3>1, <3>3
    <3>5. jobs' = [b \in Accounts |-> IF b = a THEN [x \in Crons |-> IF x = s.cron THEN 1 ELSE 0]
                                      ELSE rest[b]]
      BY <3>4, <1>6
    <3>6. ASSUME NEW b \in Accounts
          PROVE  (IF b = a THEN [x \in Crons |-> IF x = s.cron THEN 1 ELSE 0] ELSE rest[b])
                   = [x \in Crons |-> IF x = entries'[b] THEN 1 ELSE 0]
      <4>1. CASE b = a
        <5>1. entries'[b] = s.cron
          BY <4>1, <2>2, <1>4
        <5> QED
          BY <4>1, <5>1
      <4>2. CASE b # a
        <5>1. entries'[b] = entries[b]
          BY <4>2, <1>4
        <5>2. rest[b] = [x \in Crons |-> IF x = entries[b] THEN 1 ELSE 0]
          BY <4>2, <1>6
        <5> QED
          BY <4>2, <5>1, <5>2
      <4> QED
        BY <4>1, <4>2
    <3> QED
      BY <3>5, <3>6
  <2> QED
    BY <2>1, <2>2, <1>1
<1> QED
  BY <1>3, <1>7 DEF NoStrayJob, JobsOf

(* Unscheduling is installing a schedule that is switched off. *)
LEMMA UninstallKeepsJobs ==
  ASSUME NEW a \in Accounts,
         entries \in [Accounts -> Crons \cup {NoEntry}], NoStrayJob, Uninstall(a)
  PROVE  entries' \in [Accounts -> Crons \cup {NoEntry}] /\ NoStrayJob'
<1> DEFINE off == [enabled |-> FALSE, cron |-> DefaultCron]
<1>1. off \in Schedule
  BY ClaimConstants DEF Schedule
<1>2. Install(jobs, entries, a, off)
  BY DEF Install, Uninstall
<1> QED
  BY <1>1, <1>2, InstallKeepsJobs
-----------------------------------------------------------------------------
(* Types *)

Rows == [Accounts -> Schedule \cup {NoRow}]

JobsOK == entries \in [Accounts -> Crons \cup {NoEntry}] /\ NoStrayJob
StoreOK ==
  /\ stored \in Rows /\ disk.rows \in Rows
  /\ logs \in Logs /\ disk.logs \in Logs
  /\ failures \in 0 .. MaxFailures
ThreadsOK ==
  /\ claim \in [Claims -> Local \cup {Idle}]
  /\ handler \in [Handlers -> Serving \cup {Idle}]
  /\ running \subseteq Accounts
ProcessOK ==
  /\ issued \subseteq Accounts
  /\ process \in {"up", "closing", "down"}
  /\ started \in 0 .. MaxClaims /\ stops \in 0 .. MaxStops /\ kills \in 0 .. MaxKills

LEMMA TypeParts == JobsOK /\ StoreOK /\ ThreadsOK /\ ProcessOK => TypeOK
<1>1. NoStrayJob => jobs \in [Accounts -> [Crons -> Nat]]
  BY DEF NoStrayJob, JobsOf
<1> QED
  BY <1>1 DEF TypeOK, JobsOK, StoreOK, ThreadsOK, ProcessOK, Rows

LEMMA SaveType ==
  ASSUME NEW rows \in Rows, NEW ls \in Logs, NEW ok \in BOOLEAN, StoreOK, Save(rows, ls, ok)
  PROVE  StoreOK'
  BY ClaimConstants DEF StoreOK, Save

(* The cap keeps the log a sequence of logs no longer than the cap. *)
LEMMA NewestType ==
  ASSUME NEW ls \in Seq(Log)
  PROVE  Newest(ls) \in Logs
<1>1. MaxLogs \in Nat \ {0} /\ Len(ls) \in Nat
  BY ClaimConstants, LenProperties
<1>2. CASE Len(ls) <= MaxLogs
  BY <1>1, <1>2 DEF Newest, Logs
<1>3. CASE Len(ls) > MaxLogs
  <2> DEFINE m == Len(ls) - MaxLogs + 1
  <2>1. m \in Int /\ m >= 1 /\ m <= Len(ls) /\ Len(ls) - m + 1 = MaxLogs
    BY <1>1, <1>3
  <2>2. \A i \in m .. Len(ls) : ls[i] \in Log
    BY <1>1, <2>1, ElementOfSeq
  <2> HIDE DEF m
  <2>3. SubSeq(ls, m, Len(ls)) \in Seq(Log) /\ Len(SubSeq(ls, m, Len(ls))) = Len(ls) - m + 1
    BY <1>1, <2>1, <2>2, SubSeqProperties
  <2>4. Newest(ls) = SubSeq(ls, m, Len(ls))
    BY <1>3 DEF Newest, m
  <2> QED
    BY <1>1, <2>1, <2>3, <2>4 DEF Logs
<1> QED
  BY <1>1, <1>2, <1>3

LEMMA ClaimParts ==
  ASSUME ThreadsOK, NEW c \in Claims, claim[c].pc # "idle"
  PROVE  claim[c] \in Local
<1>1. claim[c] \in Local \cup {Idle}
  BY DEF ThreadsOK
<1> QED
  BY <1>1 DEF Idle

LEMMA GoType ==
  ASSUME ThreadsOK, NEW c \in Claims, NEW local \in Local \cup {Idle}, Go(c, local)
  PROVE  claim' \in [Claims -> Local \cup {Idle}]
  BY DEF ThreadsOK, Go

LEMMA FailedType ==
  ASSUME ThreadsOK, NEW c \in Claims, claim[c].pc # "idle"
  PROVE  Failed(c) \in Local \cup {Idle}
<1>1. claim[c] \in Local
  BY ClaimParts
<1> QED
  BY <1>1 DEF Failed, Local

TypeInv == JobsOK /\ StoreOK /\ ThreadsOK /\ ProcessOK

LEMMA TypeInit == Init => TypeInv
<1> SUFFICES ASSUME Init PROVE TypeInv
  OBVIOUS
<1> USE ClaimConstants
<1>1. LegacyRows \in Rows
  BY DEF LegacyRows, LegacySchedule, Rows, Schedule
<1>2. EntriesOn(LegacyRows) \in [Accounts -> Crons \cup {NoEntry}]
  BY <1>1 DEF EntriesOn, Rows, Schedule
<1>3. <<>> \in Logs
  BY EmptySeq DEF Logs
<1> QED
  BY <1>1, <1>2, <1>3 DEF Init, TypeInv, JobsOK, NoStrayJob, StoreOK, ThreadsOK, ProcessOK

LEMMA BeginsType ==
  ASSUME TypeInv, NEW c \in Claims, NEW a \in Accounts, NEW trigger \in {"manual", "scheduled"},
         NEW login \in BOOLEAN, Begins(c, a, trigger, login)
  PROVE  claim' \in [Claims -> Local \cup {Idle}] /\ started' \in 0 .. MaxClaims
<1>1. started \in Nat /\ started < MaxClaims /\ MaxClaims \in Nat
  BY ClaimConstants DEF TypeInv, ProcessOK, Begins
<1>2. Called(a, trigger, login) \in Local
  BY <1>1, LenProperties DEF Called, Local, Tiers
<1> QED
  BY <1>1, <1>2, GoType DEF TypeInv, Begins

(* The steps of a claim change claim[c] to another local state, running and *)
(* the Store.                                                              *)
LEMMA ClaimStepType ==
  ASSUME TypeInv, NEW c \in Claims, ClaimStep(c)
  PROVE  TypeInv'
<1> USE DEF TypeInv
<1>1. claim[c] \in Local /\ JobsOK' /\ ProcessOK'
  <2>1. claim[c].pc # "idle" /\ UNCHANGED <<jobs, entries, issued, process, started, stops, kills>>
    BY DEF ClaimStep, At, cron, store, bounds, ReadAccount, Begin, StartLog, Authorize, TryTier,
           FetchFails, SyncAccount, FinishLog, Finish, MarkAccount
  <2> QED
    BY <2>1, ClaimParts DEF JobsOK, NoStrayJob, ProcessOK
<1>2. Failed(c) \in Local \cup {Idle}
  BY <1>1 DEF Failed, Local
<1>3. Idle \in Local \cup {Idle} /\ stored \in Rows /\ logs \in Logs
  BY DEF StoreOK
<1>4. CASE ReadAccount(c)
  <2>1. [claim[c] EXCEPT !.pc = "begin"] \in Local
    BY <1>1 DEF Local
  <2> QED
    BY <1>1, <1>2, <1>4, <2>1, GoType DEF ReadAccount, ThreadsOK, StoreOK, store
<1>5. CASE Begin(c)
  <2>1. [claim[c] EXCEPT !.pc = "log"] \in Local /\ claim[c].account \in Accounts
    BY <1>1 DEF Local
  <2>2. claim' \in [Claims -> Local \cup {Idle}]
    BY <1>2, <1>5, <2>1, GoType DEF Begin
  <2> QED
    BY <1>1, <1>5, <2>1, <2>2 DEF Begin, ThreadsOK, StoreOK, store
<1>6. CASE StartLog(c)
  <2>1. PICK ok \in BOOLEAN :
          /\ Save(stored, Newest(Append(logs, [id |-> claim[c].id, trigger |-> claim[c].trigger,
                                               status |-> "running"])), ok)
          /\ Go(c, AfterLog(c, ok))
    BY <1>6 DEF StartLog
  <2>2. [id |-> claim[c].id, trigger |-> claim[c].trigger, status |-> "running"] \in Log
    BY <1>1 DEF Local, Log
  <2>3. Append(logs, [id |-> claim[c].id, trigger |-> claim[c].trigger, status |-> "running"])
          \in Seq(Log)
    BY <1>3, <2>2, AppendProperties DEF Logs
  <2>4. StoreOK'
    BY <1>3, <2>1, <2>3, NewestType, SaveType
  <2>5. AfterLog(c, ok) \in Local
    BY <1>1 DEF AfterLog, Local
  <2> QED
    BY <1>1, <1>6, <2>1, <2>4, <2>5, GoType DEF StartLog, ThreadsOK
<1>7. ASSUME GiveUp(c) PROVE claim' \in [Claims -> Local \cup {Idle}]
  <2>1. [claim[c] EXCEPT !.pc = "finishlog", !.failed = TRUE] \in Local
    BY <1>1 DEF Local
  <2> QED
    BY <1>7, <2>1, GoType DEF GiveUp
<1>8. CASE Authorize(c)
  <2>1. [claim[c] EXCEPT !.pc = "claim"] \in Local
    BY <1>1, <1>8 DEF Authorize, At, Local
  <2>2. claim' \in [Claims -> Local \cup {Idle}]
    BY <1>7, <1>8, <2>1, GoType DEF Authorize
  <2> QED
    BY <1>1, <1>8, <2>2 DEF Authorize, ThreadsOK, StoreOK, store
<1>9. CASE FetchFails(c)
  BY <1>1, <1>7, <1>9 DEF FetchFails, ThreadsOK, StoreOK, store
<1>10. CASE TryTier(c)
  <2>1. [claim[c] EXCEPT !.pc = "sync"] \in Local
    BY <1>1 DEF Local
  <2>2. claim[c].tried + 1 < Len(Tiers)
          => [claim[c] EXCEPT !.tried = claim[c].tried + 1] \in Local
    BY <1>1, LenProperties DEF Local, Tiers
  <2>3. claim' \in [Claims -> Local \cup {Idle}]
    BY <1>7, <1>10, <2>1, <2>2, GoType DEF TryTier
  <2> QED
    BY <1>1, <1>10, <2>3 DEF TryTier, ThreadsOK, StoreOK, store
<1>11. ASSUME NEW ok \in BOOLEAN, UpdateAccount(claim[c].account, ok)
       PROVE  StoreOK'
  BY <1>3, <1>11, SaveType DEF UpdateAccount
<1>12. ASSUME UNCHANGED <<stored, logs, disk, failures>> PROVE StoreOK'
  BY <1>12 DEF StoreOK
<1>13. CASE SyncAccount(c)
  <2>1. \A ok \in BOOLEAN : [claim[c] EXCEPT !.pc = "finishlog", !.failed = ~ok] \in Local
    BY <1>1 DEF Local
  <2>2. claim' \in [Claims -> Local \cup {Idle}]
    BY <1>7, <1>13, <2>1, GoType DEF SyncAccount
  <2>3. StoreOK'
    BY <1>11, <1>12, <1>13 DEF SyncAccount
  <2> QED
    BY <1>1, <1>13, <2>2, <2>3 DEF SyncAccount, ThreadsOK
<1>14. CASE FinishLog(c)
  <2>1. \A ok \in BOOLEAN :
          [claim[c] EXCEPT !.pc = "finish", !.failed = claim[c].failed \/ ~ok] \in Local
    BY <1>1 DEF Local
  <2>2. [claim[c] EXCEPT !.pc = "finish", !.failed = TRUE] \in Local
    BY <1>1 DEF Local
  <2>3. claim' \in [Claims -> Local \cup {Idle}]
    BY <1>14, <2>1, <2>2, GoType DEF FinishLog
  <2>4. Finished(c) \in Logs
    <3>1. logs \in Seq(Log) /\ Len(logs) \in Nat /\ Len(logs) <= MaxLogs
          /\ DOMAIN logs = 1 .. Len(logs)
      BY <1>3, LenProperties DEF Logs
    <3>2. \A i \in 1 .. Len(logs) : logs[i] \in Log
      BY <3>1, ElementOfSeq
    <3>3. \A i \in 1 .. Len(logs) : Finished(c)[i] \in Log
      BY <3>1, <3>2 DEF Finished, Log
    <3>4. DOMAIN Finished(c) = 1 .. Len(logs) /\ Finished(c) = [i \in 1 .. Len(logs) |-> Finished(c)[i]]
      BY <3>1 DEF Finished
    <3>5. Finished(c) \in Seq(Log) /\ Len(Finished(c)) = Len(logs)
      BY <3>1, <3>3, <3>4, IsASeq, LenProperties
    <3> QED
      BY <3>1, <3>5 DEF Logs
  <2>5. StoreOK'
    BY <1>3, <1>12, <1>14, <2>4, SaveType DEF FinishLog
  <2> QED
    BY <1>1, <1>14, <2>3, <2>5 DEF FinishLog, ThreadsOK
<1>15. CASE Finish(c)
  <2>1. claim' \in [Claims -> Local \cup {Idle}]
    BY <1>2, <1>15, GoType DEF Finish
  <2> QED
    BY <1>1, <1>15, <2>1 DEF Finish, ThreadsOK, StoreOK, store
<1>16. CASE MarkAccount(c)
  <2>1. claim' \in [Claims -> Local \cup {Idle}]
    BY <1>16, GoType DEF MarkAccount
  <2>2. StoreOK'
    BY <1>11, <1>12, <1>16 DEF MarkAccount
  <2> QED
    BY <1>1, <1>16, <2>1, <2>2 DEF MarkAccount, ThreadsOK
<1> QED
  BY <1>4, <1>5, <1>6, <1>8, <1>9, <1>10, <1>13, <1>14, <1>15, <1>16 DEF ClaimStep

LEMMA StartsClaimType ==
  ASSUME TypeInv, NEW c \in Claims, NEW a \in Accounts,
         Fire(c, a) \/ ClaimByHand(c, a) \/ Login(c, a)
  PROVE  TypeInv'
<1> USE DEF TypeInv
<1>1. CASE Fire(c, a)
  BY <1>1, BeginsType
  DEF Fire, JobsOK, NoStrayJob, StoreOK, ThreadsOK, ProcessOK, store, cron
<1>2. CASE ClaimByHand(c, a)
  BY <1>2, BeginsType
  DEF ClaimByHand, JobsOK, NoStrayJob, StoreOK, ThreadsOK, ProcessOK, store, cron
<1>3. CASE Login(c, a)
  <2>1. [stored EXCEPT ![a] = IF Exists(a) THEN stored[a] ELSE NewSchedule] \in Rows
    BY ClaimConstants DEF StoreOK, Rows, Schedule, NewSchedule
  <2>2. StoreOK'
    BY <1>3, <2>1, SaveType DEF Login, StoreOK
  <2>3. claim' \in [Claims -> Local \cup {Idle}] /\ started' \in 0 .. MaxClaims
    <3>1. CASE Begins(c, a, "manual", TRUE)
      BY <3>1, BeginsType
    <3>2. CASE UNCHANGED <<claim, started>>
      BY <3>2 DEF ThreadsOK, ProcessOK
    <3> QED
      BY <1>3, <3>1, <3>2 DEF Login
  <2>4. issued' \subseteq Accounts
    BY <1>3 DEF Login, ProcessOK
  <2> QED
    BY <1>3, <2>2, <2>3, <2>4 DEF Login, JobsOK, NoStrayJob, ThreadsOK, ProcessOK, cron
<1> QED
  BY <1>1, <1>2, <1>3

LEMMA ServingParts ==
  ASSUME ThreadsOK, NEW h \in Handlers
  PROVE  /\ handler[h].pc = "reread" => handler[h].account \in Accounts
         /\ handler[h].pc = "install" => handler[h].account \in Accounts /\ handler[h].schedule \in Schedule
         /\ handler[h].pc = "unschedule" => handler[h].accounts \subseteq Accounts
<1>1. handler[h] \in Serving \cup {Idle}
  BY DEF ThreadsOK
<1> QED
  BY <1>1 DEF Serving, Idle

LEMMA DeleteAllType ==
  ASSUME TypeInv, NEW h \in Handlers, NEW dead \in SUBSET Accounts, DeleteAll(h, dead)
  PROVE  StoreOK' /\ handler' \in [Handlers -> Serving \cup {Idle}]
<1>1. stored \in Rows /\ logs \in Logs
  BY DEF TypeInv, StoreOK
<1>2. [a \in Accounts |-> IF a \in dead THEN NoRow ELSE stored[a]] \in Rows
  BY <1>1 DEF Rows
<1>3. [pc |-> "unschedule", accounts |-> dead] \in Serving
  BY DEF Serving
<1>4. StoreOK'
  BY <1>1, <1>2, SaveType DEF DeleteAll, TypeInv
<1> QED
  BY <1>3, <1>4 DEF DeleteAll, Then, Answer, TypeInv, ThreadsOK

LEMMA HandlerStepType ==
  ASSUME TypeInv, NEW h \in Handlers, HandlerStep(h)
  PROVE  TypeInv'
<1> USE DEF TypeInv
<1>1. stored \in Rows /\ logs \in Logs
  BY DEF StoreOK
<1>2. CASE \E a \in Accounts, s \in Schedule : Patch(h, a, s)
  <2>1. PICK a \in Accounts, s \in Schedule : Patch(h, a, s)
    BY <1>2
  <2>2. [stored EXCEPT ![a] = s] \in Rows
    BY <1>1 DEF Rows
  <2>3. StoreOK'
    BY <1>1, <2>1, <2>2, SaveType DEF Patch
  <2>4. [pc |-> "reread", account |-> a] \in Serving
    BY DEF Serving
  <2>5. handler' \in [Handlers -> Serving \cup {Idle}]
    BY <2>1, <2>4 DEF Patch, Then, Answer, ThreadsOK
  <2> QED
    BY <2>1, <2>3, <2>5 DEF Patch, JobsOK, NoStrayJob, ThreadsOK, ProcessOK, cron, bounds
<1>3. CASE \E a \in Accounts : HandleAccountDelete(h, a)
  <2>1. PICK a \in Accounts : HandleAccountDelete(h, a)
    BY <1>3
  <2>2. StoreOK' /\ handler' \in [Handlers -> Serving \cup {Idle}]
    BY <2>1, DeleteAllType DEF HandleAccountDelete
  <2> QED
    BY <2>1, <2>2
    DEF HandleAccountDelete, JobsOK, NoStrayJob, ThreadsOK, ProcessOK, cron, bounds
<1>4. CASE HandleErrorAccountsDelete(h)
  <2>1. StoreOK' /\ handler' \in [Handlers -> Serving \cup {Idle}]
    <3>1. CASE UNCHANGED <<stored, logs, disk, failures, handler>>
      BY <3>1 DEF StoreOK, ThreadsOK
    <3>2. ASSUME NEW dead \in SUBSET Accounts, DeleteAll(h, dead)
          PROVE  StoreOK' /\ handler' \in [Handlers -> Serving \cup {Idle}]
      BY <3>2, DeleteAllType
    <3> QED
      BY <1>4, <3>1, <3>2 DEF HandleErrorAccountsDelete
  <2> QED
    BY <1>4, <2>1
    DEF HandleErrorAccountsDelete, JobsOK, NoStrayJob, ThreadsOK, ProcessOK, cron, bounds
<1>5. CASE Reread(h)
  <2>1. handler[h].account \in Accounts
    BY <1>5, ServingParts DEF Reread
  <2>2. Exists(handler[h].account) => stored[handler[h].account] \in Schedule
    BY <1>1, <2>1 DEF Rows, Exists
  <2>3. Exists(handler[h].account)
          => [pc |-> "install", account |-> handler[h].account,
              schedule |-> stored[handler[h].account]] \in Serving
    BY <2>1, <2>2 DEF Serving
  <2>4. handler' \in [Handlers -> Serving \cup {Idle}]
    BY <1>5, <2>3 DEF Reread, Then, Answer, ThreadsOK
  <2> QED
    BY <1>5, <2>4
    DEF Reread, JobsOK, NoStrayJob, StoreOK, ThreadsOK, ProcessOK, store, cron, bounds
<1>6. CASE Reschedule(h)
  <2>1. handler[h].account \in Accounts /\ handler[h].schedule \in Schedule
    BY <1>6, ServingParts DEF Reschedule
  <2>2. JobsOK'
    BY <1>6, <2>1, InstallKeepsJobs DEF Reschedule, JobsOK
  <2> QED
    BY <1>6, <2>2 DEF Reschedule, Answer, StoreOK, ThreadsOK, ProcessOK, store, bounds
<1>7. CASE Unschedule(h)
  <2>1. handler[h] \in Serving /\ handler[h].pc = "unschedule" /\ handler[h].accounts \subseteq Accounts
    BY <1>7, ServingParts DEF Unschedule, ThreadsOK, Idle
  <2>2. PICK a \in handler[h].accounts :
          /\ Uninstall(a)
          /\ IF handler[h].accounts = {a} THEN Answer(h)
             ELSE Then(h, [handler[h] EXCEPT !.accounts = handler[h].accounts \ {a}])
    BY <1>7 DEF Unschedule, Unscheduled
  <2>3. JobsOK'
    BY <2>1, <2>2, UninstallKeepsJobs DEF JobsOK
  <2>4. [handler[h] EXCEPT !.accounts = handler[h].accounts \ {a}] \in Serving
    BY <2>1 DEF Serving
  <2>5. handler' \in [Handlers -> Serving \cup {Idle}]
    BY <2>2, <2>4 DEF Then, Answer, ThreadsOK
  <2> QED
    BY <1>7, <2>3, <2>5 DEF Unschedule, StoreOK, ThreadsOK, ProcessOK, store, bounds
<1> QED
  BY <1>2, <1>3, <1>4, <1>5, <1>6, <1>7 DEF HandlerStep

LEMMA ProcessStepType ==
  ASSUME TypeInv, SaveElsewhere \/ Shutdown \/ Close \/ Kill \/ Restart \/ UNCHANGED vars
  PROVE  TypeInv'
<1> USE DEF TypeInv
<1>1. CASE SaveElsewhere
  BY <1>1, SaveType
  DEF SaveElsewhere, JobsOK, NoStrayJob, StoreOK, ThreadsOK, ProcessOK, bounds
<1>2. CASE Shutdown
  BY <1>2, ClaimConstants
  DEF Shutdown, JobsOK, NoStrayJob, StoreOK, ThreadsOK, ProcessOK, store, cron
<1>3. CASE Close
  BY <1>3 DEF Close, Dies, JobsOK, NoStrayJob, StoreOK, ThreadsOK, ProcessOK, store, cron, bounds
<1>4. CASE Kill
  BY <1>4, ClaimConstants
  DEF Kill, Dies, JobsOK, NoStrayJob, StoreOK, ThreadsOK, ProcessOK, store, cron
<1>5. CASE Restart
  <2>1. disk.rows \in Rows
    BY DEF StoreOK
  <2>2. EntriesOn(disk.rows) \in [Accounts -> Crons \cup {NoEntry}]
    BY <2>1 DEF EntriesOn, Rows, Schedule
  <2> QED
    BY <1>5, <2>1, <2>2
    DEF Restart, JobsOK, NoStrayJob, StoreOK, ThreadsOK, ProcessOK, bounds
<1>6. CASE UNCHANGED vars
  BY <1>6 DEF vars, JobsOK, NoStrayJob, StoreOK, ThreadsOK, ProcessOK
<1> QED
  BY <1>1, <1>2, <1>3, <1>4, <1>5, <1>6

LEMMA TypeStep == TypeInv /\ [Next]_vars => TypeInv'
  BY ClaimStepType, StartsClaimType, HandlerStepType, ProcessStepType DEF Next

LEMMA TypeInvHolds == Spec => []TypeInv
  BY TypeInit, TypeStep, PTL DEF Spec

(* Every reachable state has its type: in particular the claim logs never  *)
(* exceed the cap and no cron entry is removed twice.                      *)
THEOREM TypeCorrect == Spec => []TypeOK
<1>1. TypeInv => TypeOK
  BY TypeParts DEF TypeInv
<1> QED
  BY <1>1, TypeInvHolds, PTL

(* Whatever handlers overlap, the cron library runs exactly the entries    *)
(* the service knows of.                                                   *)
THEOREM NoStrayJobHolds == Spec => []NoStrayJob
<1>1. TypeInv => NoStrayJob
  BY DEF TypeInv, JobsOK
<1> QED
  BY <1>1, TypeInvHolds, PTL

-----------------------------------------------------------------------------
(* One claim per account *)

LEMMA OneClaimStep ==
  ASSUME TypeInv, OneClaimPerAccount, [Next]_vars
  PROVE  OneClaimPerAccount'
<1> DEFINE Same(c) == /\ Working(c)' <=> Working(c)
                      /\ Working(c) => claim'[c].account = claim[c].account
<1>1. ASSUME \A c \in Claims : Same(c), running' = running
      PROVE  OneClaimPerAccount'
  BY <1>1 DEF OneClaimPerAccount
<1>2. ASSUME NEW c \in Claims, ClaimStep(c) PROVE OneClaimPerAccount'
  <2>1. \A d \in Claims \ {c} : claim'[d] = claim[d]
    BY <1>2 DEF ClaimStep, Go, ReadAccount, Begin, StartLog, Authorize, TryTier, GiveUp,
                FetchFails, SyncAccount, FinishLog, Finish, MarkAccount, TypeInv, ThreadsOK
  <2>2. \A d \in Claims \ {c} : Same(d)
    BY <2>1 DEF Working
  <2>3. claim[c] \in Local /\ claim \in [Claims -> Local \cup {Idle}] /\ Idle.pc = "idle"
    BY <1>2, ClaimParts DEF TypeInv, ThreadsOK, Idle, ClaimStep, At, ReadAccount, Begin, StartLog,
       Authorize, TryTier, FetchFails, SyncAccount, FinishLog, Finish, MarkAccount
  <2>4. ~Working(c) /\ ~Working(c)' /\ running' = running => OneClaimPerAccount'
    BY <1>1, <2>2 DEF Working
  <2>5. Failed(c).pc \in {"mark", "idle"}
    BY <2>3 DEF Failed, Local
  <2>6. CASE ReadAccount(c)
    BY <2>3, <2>4, <2>5, <2>6 DEF ReadAccount, At, Go, Working, Local
  <2>7. CASE MarkAccount(c)
    BY <2>3, <2>4, <2>7 DEF MarkAccount, At, Go, Working
  <2>8. CASE Begin(c) /\ Busy(claim[c].account)
    BY <2>3, <2>4, <2>5, <2>8 DEF Begin, At, Go, Working
  <2>9. CASE Begin(c) /\ ~Busy(claim[c].account)
    <3>1. ~Working(c) /\ claim[c].account \notin running /\ running' = running \cup {claim[c].account}
      BY <2>9 DEF Begin, At, Working, Busy
    <3>2. Working(c)' /\ claim'[c].account = claim[c].account
      BY <2>3, <2>9 DEF Begin, Go, Working, Local
    <3> QED
      BY <2>2, <3>1, <3>2 DEF OneClaimPerAccount
  <2>10. CASE Finish(c)
    <3>1. Working(c) /\ running' = running \ {claim[c].account}
      BY <2>10 DEF Finish, At, Working
    <3>2. ~Working(c)'
      BY <2>3, <2>5, <2>10 DEF Finish, Go, Working
    <3> QED
      BY <2>2, <3>1, <3>2 DEF OneClaimPerAccount
  <2>11. CASE StartLog(c) \/ Authorize(c) \/ TryTier(c) \/ FetchFails(c) \/ SyncAccount(c) \/ FinishLog(c)
    <3>1. Working(c) /\ running' = running
      BY <2>11 DEF StartLog, Authorize, TryTier, FetchFails, SyncAccount, FinishLog, At, Working
    <3>2. ASSUME NEW local \in Local, Go(c, local), local.account = claim[c].account,
                 local.pc \in {"authorize", "claim", "sync", "finishlog", "finish"}
          PROVE  Working(c)' /\ claim'[c].account = claim[c].account
      BY <2>3, <3>2 DEF Go, Working
    <3>3. ASSUME NEW pc \in {"authorize", "claim", "sync", "finishlog", "finish"},
                 NEW failed \in BOOLEAN,
                 Go(c, [claim[c] EXCEPT !.pc = pc, !.failed = failed])
          PROVE  Working(c)' /\ claim'[c].account = claim[c].account
      <4> DEFINE l == [claim[c] EXCEPT !.pc = pc, !.failed = failed]
      <4>1. l \in Local /\ l.account = claim[c].account /\ l.pc = pc
        BY <2>3 DEF Local
      <4> QED
        BY <3>2, <3>3, <4>1
    <3>4. ASSUME NEW pc \in {"authorize", "claim", "sync", "finishlog", "finish"},
                 Go(c, [claim[c] EXCEPT !.pc = pc])
          PROVE  Working(c)' /\ claim'[c].account = claim[c].account
      BY <2>3, <3>4 DEF Go, Working, Local
    <3>5. ASSUME StartLog(c)
          PROVE  Working(c)' /\ claim'[c].account = claim[c].account
      BY <3>3, <3>4, <3>5 DEF StartLog, AfterLog
    <3>6. ASSUME Authorize(c) \/ FetchFails(c)
          PROVE  Working(c)' /\ claim'[c].account = claim[c].account
      BY <3>3, <3>4, <3>6 DEF Authorize, FetchFails, GiveUp
    <3>7. ASSUME TryTier(c)
          PROVE  Working(c)' /\ claim'[c].account = claim[c].account
      <4>1. ASSUME At(c, "claim"), Go(c, [claim[c] EXCEPT !.tried = claim[c].tried + 1])
            PROVE  Working(c)' /\ claim'[c].account = claim[c].account
        BY <2>3, <4>1 DEF Go, At, Working, Local
      <4> QED
        BY <3>3, <3>4, <3>7, <4>1 DEF TryTier, GiveUp
    <3>8. ASSUME SyncAccount(c)
          PROVE  Working(c)' /\ claim'[c].account = claim[c].account
      BY <3>3, <3>8 DEF SyncAccount, GiveUp
    <3>9. ASSUME FinishLog(c)
          PROVE  Working(c)' /\ claim'[c].account = claim[c].account
      <4>1. claim[c].failed \in BOOLEAN
        BY <2>3 DEF Local
      <4> QED
        BY <3>3, <3>9, <4>1 DEF FinishLog
    <3>10. Working(c)' /\ claim'[c].account = claim[c].account
      BY <2>11, <3>5, <3>6, <3>7, <3>8, <3>9
    <3> QED
      BY <1>1, <2>2, <3>1, <3>10
  <2> QED
    BY <1>2, <2>6, <2>7, <2>8, <2>9, <2>10, <2>11 DEF ClaimStep
<1>3. ASSUME NEW c \in Claims, NEW a \in Accounts, Fire(c, a) \/ ClaimByHand(c, a) \/ Login(c, a)
      PROVE  OneClaimPerAccount'
  <2>1. running' = running /\ ~Working(c)
    BY <1>3 DEF Fire, ClaimByHand, Login, Begins, At, Working
  <2>2. \A d \in Claims \ {c} : claim'[d] = claim[d]
    BY <1>3 DEF Fire, ClaimByHand, Login, Begins, Go, TypeInv, ThreadsOK
  <2>3. claim'[c] = claim[c] \/ claim'[c].pc = "read"
    <3>1. ASSUME NEW trigger, NEW login, Begins(c, a, trigger, login) PROVE claim'[c].pc = "read"
      BY <3>1 DEF Begins, Called, Go, TypeInv, ThreadsOK
    <3> QED
      BY <1>3, <3>1 DEF Fire, ClaimByHand, Login
  <2> QED
    BY <1>1, <2>1, <2>2, <2>3 DEF Working
<1>4. ASSUME UNCHANGED <<claim, running>> PROVE OneClaimPerAccount'
  BY <1>1, <1>4 DEF Working
<1>5. ASSUME NEW h \in Handlers, HandlerStep(h) PROVE OneClaimPerAccount'
  BY <1>4, <1>5 DEF HandlerStep, Patch, HandleAccountDelete, HandleErrorAccountsDelete, Reread,
                    Reschedule, Unschedule
<1>6. ASSUME Dies PROVE OneClaimPerAccount'
  <2>1. \A c \in Claims : ~Working(c)'
    BY <1>6 DEF Dies, Working, Idle
  <2> QED
    BY <1>6, <2>1 DEF Dies, OneClaimPerAccount
<1>7. CASE SaveElsewhere \/ Shutdown \/ Restart \/ UNCHANGED vars
  BY <1>4, <1>7 DEF SaveElsewhere, Shutdown, Restart, vars
<1>8. CASE Close \/ Kill
  BY <1>6, <1>8 DEF Close, Kill
<1> QED
  BY <1>2, <1>3, <1>5, <1>7, <1>8 DEF Next

(* At most one claim of an account is in progress, for any number of claims *)
(* in flight, failures and restarts, and running is exact.                  *)
THEOREM OneClaimHolds == Spec => []OneClaimPerAccount
<1>1. Init => OneClaimPerAccount
  BY DEF Init, OneClaimPerAccount, Working, Idle
<1>2. TypeInv /\ OneClaimPerAccount /\ [Next]_vars => OneClaimPerAccount'
  BY OneClaimStep
<1> QED
  BY <1>1, <1>2, TypeInvHolds, PTL DEF Spec

-----------------------------------------------------------------------------
(* Schedules the parser accepts *)

LEMMA SaveStarts ==
  ASSUME NEW rows \in Rows, NEW ls \in Logs, NEW ok \in BOOLEAN,
         StartsAgain, StartsOn(rows), Save(rows, ls, ok)
  PROVE  StartsAgain'
  BY DEF StartsAgain, StartsOn, Save

LEMMA StartsStep ==
  ASSUME TypeInv, StartsAgain, [Next]_vars
  PROVE  StartsAgain'
<1>1. /\ stored \in Rows /\ logs \in Logs /\ disk.rows \in Rows
      /\ StartsOn(stored) /\ StartsOn(disk.rows)
  BY DEF TypeInv, StoreOK, StartsAgain
<1>2. ASSUME UNCHANGED <<stored, disk>> PROVE StartsAgain'
  BY <1>2 DEF StartsAgain, StartsOn
<1>3. ASSUME NEW ok \in BOOLEAN, NEW ls, Save(stored, ls, ok) PROVE StartsAgain'
  BY <1>1, <1>3 DEF StartsAgain, StartsOn, Save
<1>4. ASSUME NEW c \in Claims, ClaimStep(c) PROVE StartsAgain'
  BY <1>2, <1>3, <1>4
  DEF ClaimStep, ReadAccount, Begin, StartLog, Authorize, TryTier, FetchFails, SyncAccount,
      FinishLog, Finish, MarkAccount, UpdateAccount, store
<1>5. ASSUME NEW c \in Claims, NEW a \in Accounts, Fire(c, a) \/ ClaimByHand(c, a)
      PROVE  StartsAgain'
  BY <1>2, <1>5 DEF Fire, ClaimByHand, store
(* A login keeps the schedule of an account it knows; that of a new account *)
(* is switched off.                                                         *)
<1>6. ASSUME NEW c \in Claims, NEW a \in Accounts, Login(c, a)
      PROVE  StartsAgain'
  <2> DEFINE rows == [stored EXCEPT ![a] = IF Exists(a) THEN stored[a] ELSE NewSchedule]
  <2>1. rows \in Rows
    BY <1>1, ClaimConstants DEF Rows, Schedule, NewSchedule
  <2>2. StartsOn(rows)
    BY <1>1 DEF StartsOn, NewSchedule, Rows
  <2>3. PICK ok \in BOOLEAN : Save(rows, logs, ok)
    BY <1>6 DEF Login
  <2> QED
    BY <1>1, <2>1, <2>2, <2>3, SaveStarts
<1>7. ASSUME NEW h \in Handlers, HandlerStep(h) PROVE StartsAgain'
  <2>1. ASSUME NEW a \in Accounts, NEW s \in Schedule, Patch(h, a, s) PROVE StartsAgain'
    <3>1. PICK ok \in BOOLEAN : Save([stored EXCEPT ![a] = s], logs, ok)
      BY <2>1 DEF Patch
    <3>2. StartsOn([stored EXCEPT ![a] = s]) /\ [stored EXCEPT ![a] = s] \in Rows
      BY <1>1, <2>1 DEF StartsOn, Patch, Accepted, Rows
    <3> QED
      BY <1>1, <3>1, <3>2, SaveStarts
  <2>2. ASSUME NEW dead \in SUBSET Accounts, DeleteAll(h, dead) PROVE StartsAgain'
    <3> DEFINE rows == [a \in Accounts |-> IF a \in dead THEN NoRow ELSE stored[a]]
    <3>1. PICK ok \in BOOLEAN : Save(rows, logs, ok)
      BY <2>2 DEF DeleteAll
    <3>2. StartsOn(rows) /\ rows \in Rows
      BY <1>1 DEF StartsOn, Rows
    <3> QED
      BY <1>1, <3>1, <3>2, SaveStarts
  <2>3. CASE \E a \in Accounts, s \in Schedule : Patch(h, a, s)
    BY <2>1, <2>3
  <2>4. CASE \E a \in Accounts : HandleAccountDelete(h, a)
    BY <2>2, <2>4 DEF HandleAccountDelete
  <2>5. CASE HandleErrorAccountsDelete(h)
    BY <1>2, <2>2, <2>5 DEF HandleErrorAccountsDelete
  <2>6. CASE Reread(h) \/ Reschedule(h) \/ Unschedule(h)
    BY <1>2, <2>6 DEF Reread, Reschedule, Unschedule, store
  <2> QED
    BY <1>7, <2>3, <2>4, <2>5, <2>6 DEF HandlerStep
<1>8. CASE SaveElsewhere
  BY <1>3, <1>8 DEF SaveElsewhere
<1>9. CASE Shutdown \/ Close \/ Kill \/ UNCHANGED vars
  BY <1>2, <1>9 DEF Shutdown, Close, Kill, vars, store
<1>10. CASE Restart
  BY <1>1, <1>10 DEF Restart, StartsAgain, StartsOn
<1> QED
  BY <1>4, <1>5, <1>6, <1>7, <1>8, <1>9, <1>10 DEF Next

(* A process that starts on the database never fails on an expression of a *)
(* schedule, whatever was stored, however many saves failed and wherever   *)
(* processes before it died.                                               *)
THEOREM StartsAgainHolds == Spec => []StartsAgain
<1>1. Init => StartsAgain
  BY ClaimConstants DEF Init, StartsAgain, StartsOn, LegacyRows, LegacySchedule
<1>2. TypeInv /\ StartsAgain /\ [Next]_vars => StartsAgain'
  BY StartsStep
<1> QED
  BY <1>1, <1>2, TypeInvHolds, PTL DEF Spec

-----------------------------------------------------------------------------
(* Claim logs *)

(* Unless a save failed, SQLite holds what the memory of the Store holds.  *)
InStep == failures = 0 => disk = [rows |-> stored, logs |-> logs]

(* A process that is down runs nothing. *)
NoThreads ==
  process = "down" => /\ \A c \in Claims : claim[c] = Idle
                    /\ \A h \in Handlers : handler[h] = Idle

(* The process left "up" by a stop or was killed. *)
Interrupted == process # "up" => stops > 0 \/ kills > 0

(* The claim c will finish the log l. *)
Covers(c, l) == Logged(c) /\ claim[c].id = l.id /\ claim[c].trigger = l.trigger

(* The logs a claim has yet to finish: after a graceful stop the scheduled *)
(* ones only, since Close lets no other claim finish.                      *)
Unfinished ==
  {l \in Log : /\ \E i \in DOMAIN logs : logs[i] = l
               /\ l.status = "running"
               /\ stops = 0 \/ l.trigger = "scheduled"}
LogsCovered ==
  failures = 0 /\ kills = 0 => \A l \in Unfinished : \E c \in Claims : Covers(c, l)

LogInv == InStep /\ NoThreads /\ Interrupted /\ LogsCovered

LEMMA InStepStep ==
  ASSUME TypeInv, InStep, [Next]_vars
  PROVE  InStep'
<1>1. failures \in Nat
  BY ClaimConstants DEF TypeInv, StoreOK
<1>2. ASSUME UNCHANGED <<stored, logs, disk, failures>> PROVE InStep'
  BY <1>2 DEF InStep
<1>3. ASSUME NEW rows, NEW ls, NEW ok \in BOOLEAN, Save(rows, ls, ok) PROVE InStep'
  BY <1>1, <1>3 DEF InStep, Save
<1>4. ASSUME NEW c \in Claims, ClaimStep(c) PROVE InStep'
  BY <1>2, <1>3, <1>4
  DEF ClaimStep, ReadAccount, Begin, StartLog, Authorize, TryTier, FetchFails, SyncAccount,
      FinishLog, Finish, MarkAccount, UpdateAccount, store
<1>5. ASSUME NEW c \in Claims, NEW a \in Accounts, Fire(c, a) \/ ClaimByHand(c, a) \/ Login(c, a)
      PROVE  InStep'
  BY <1>2, <1>3, <1>5 DEF Fire, ClaimByHand, Login, store
<1>6. ASSUME NEW h \in Handlers, HandlerStep(h) PROVE InStep'
  BY <1>2, <1>3, <1>6
  DEF HandlerStep, Patch, HandleAccountDelete, HandleErrorAccountsDelete, DeleteAll, Reread,
      Reschedule, Unschedule, store
<1>7. CASE SaveElsewhere
  BY <1>3, <1>7 DEF SaveElsewhere
<1>8. CASE Shutdown \/ Close \/ Kill \/ UNCHANGED vars
  BY <1>2, <1>8 DEF Shutdown, Close, Kill, vars, store
<1>9. CASE Restart
  BY <1>9 DEF Restart, InStep
<1> QED
  BY <1>4, <1>5, <1>6, <1>7, <1>8, <1>9 DEF Next

LEMMA NoThreadsStep ==
  ASSUME TypeInv, NoThreads, [Next]_vars
  PROVE  NoThreads'
<1>1. ASSUME process' # "down" PROVE NoThreads'
  BY <1>1 DEF NoThreads
<1>2. ASSUME UNCHANGED <<process, claim, handler>> PROVE NoThreads'
  BY <1>2 DEF NoThreads
<1>3. ASSUME NEW c \in Claims, ClaimStep(c) PROVE NoThreads'
  <2>1. claim[c].pc # "idle" /\ UNCHANGED process
    BY <1>3 DEF ClaimStep, At, ReadAccount, Begin, StartLog, Authorize, TryTier, FetchFails,
                SyncAccount, FinishLog, Finish, MarkAccount
  <2>2. claim[c] # Idle
    BY <2>1 DEF Idle
  <2> QED
    BY <1>1, <2>1, <2>2 DEF NoThreads
<1>4. ASSUME NEW c \in Claims, NEW a \in Accounts, Fire(c, a) \/ ClaimByHand(c, a) \/ Login(c, a)
      PROVE  NoThreads'
  BY <1>1, <1>4 DEF Fire, ClaimByHand, Login
<1>5. ASSUME NEW h \in Handlers, HandlerStep(h) PROVE NoThreads'
  <2>1. CASE Reread(h) \/ Reschedule(h) \/ Unschedule(h)
    <3>1. handler[h] # Idle /\ process' = process
      BY <2>1 DEF Reread, Reschedule, Unschedule, Idle, bounds
    <3> QED
      BY <1>1, <3>1 DEF NoThreads
  <2>2. CASE process = "up" /\ process' = process
    BY <1>1, <2>2
  <2> QED
    BY <1>5, <2>1, <2>2
    DEF HandlerStep, Patch, HandleAccountDelete, HandleErrorAccountsDelete, Serves, bounds
<1>6. CASE SaveElsewhere \/ UNCHANGED vars
  BY <1>2, <1>6 DEF SaveElsewhere, vars
<1>7. CASE Shutdown \/ Restart
  BY <1>1, <1>7 DEF Shutdown, Restart
<1>8. CASE Close \/ Kill
  BY <1>8 DEF Close, Kill, Dies, NoThreads
<1> QED
  BY <1>3, <1>4, <1>5, <1>6, <1>7, <1>8 DEF Next

(* The cap drops logs, it changes none. *)
LEMMA NewestIsPart ==
  ASSUME NEW ls \in Seq(Log), NEW i \in DOMAIN Newest(ls)
  PROVE  \E j \in DOMAIN ls : Newest(ls)[i] = ls[j]
<1>1. MaxLogs \in Nat \ {0} /\ Len(ls) \in Nat /\ DOMAIN ls = 1 .. Len(ls)
  BY ClaimConstants, LenProperties
<1>2. CASE Len(ls) <= MaxLogs
  BY <1>1, <1>2 DEF Newest
<1>3. CASE Len(ls) > MaxLogs
  <2> DEFINE m == Len(ls) - MaxLogs + 1
  <2>1. m \in Int /\ m >= 1 /\ m <= Len(ls) /\ Len(ls) - m + 1 = MaxLogs
    BY <1>1, <1>3
  <2>2. \A k \in m .. Len(ls) : ls[k] \in Log
    BY <1>1, <2>1, ElementOfSeq
  <2> HIDE DEF m
  <2>3. SubSeq(ls, m, Len(ls)) = [k \in 1 .. Len(ls) - m + 1 |-> ls[m + k - 1]]
    BY <1>1, <2>1, <2>2, SubSeqProperties
  <2>4. Newest(ls) = SubSeq(ls, m, Len(ls))
    BY <1>3 DEF Newest, m
  <2>5. i \in 1 .. MaxLogs /\ Newest(ls)[i] = ls[m + i - 1]
    BY <2>1, <2>3, <2>4
  <2>6. m + i - 1 \in DOMAIN ls
    BY <1>1, <2>1, <2>5
  <2> QED
    BY <2>5, <2>6
<1> QED
  BY <1>1, <1>2, <1>3

LEMMA InterruptedStep ==
  ASSUME TypeInv, Interrupted, [Next]_vars
  PROVE  Interrupted'
<1>1. stops \in Nat /\ kills \in Nat
  BY ClaimConstants DEF TypeInv, ProcessOK
<1>2. ASSUME UNCHANGED <<process, stops, kills>> PROVE Interrupted'
  BY <1>2 DEF Interrupted
<1>3. ASSUME NEW c \in Claims, ClaimStep(c) PROVE Interrupted'
  BY <1>2, <1>3 DEF ClaimStep, ReadAccount, Begin, StartLog, Authorize, TryTier, FetchFails,
                    SyncAccount, FinishLog, Finish, MarkAccount, bounds
<1>4. ASSUME NEW c \in Claims, NEW a \in Accounts, Fire(c, a) \/ ClaimByHand(c, a) \/ Login(c, a)
      PROVE  Interrupted'
  BY <1>2, <1>4 DEF Fire, ClaimByHand, Login
<1>5. ASSUME NEW h \in Handlers, HandlerStep(h) PROVE Interrupted'
  BY <1>2, <1>5 DEF HandlerStep, Patch, HandleAccountDelete, HandleErrorAccountsDelete, Reread,
                    Reschedule, Unschedule, bounds
<1>6. CASE SaveElsewhere \/ UNCHANGED vars
  BY <1>2, <1>6 DEF SaveElsewhere, bounds, vars
<1>7. CASE Shutdown \/ Kill
  BY <1>1, <1>7 DEF Shutdown, Kill, Interrupted
<1>8. CASE Close \/ Restart
  BY <1>8 DEF Close, Dies, Restart, bounds, Interrupted
<1> QED
  BY <1>3, <1>4, <1>5, <1>6, <1>7, <1>8 DEF Next

(* How a step keeps the logs covered. *)
LEMMA CoveredStays ==
  ASSUME LogsCovered,
         failures' = 0 /\ kills' = 0 => failures = 0 /\ kills = 0,
         failures' = 0 /\ kills' = 0 =>
           \A l \in Unfinished' :
             \/ \E c \in Claims : Covers(c, l)'
             \/ l \in Unfinished /\ \A c \in Claims : Covers(c, l) => Covers(c, l)'
  PROVE  LogsCovered'
  BY DEF LogsCovered

LEMMA SameClaimsCover ==
  ASSUME TypeInv, LogsCovered, UNCHANGED claim, kills' = 0 => kills = 0,
         stops' = 0 => stops = 0,
         (logs' = logs /\ (failures' = 0 => failures = 0)) \/ failures' # 0
  PROVE  LogsCovered'
<1>1. \A c \in Claims, l \in Log : Covers(c, l) => Covers(c, l)'
  BY DEF Covers, Logged
<1>2. failures' = 0 => \A l \in Unfinished' : l \in Log /\ l \in Unfinished
  BY DEF Unfinished
<1> QED
  BY <1>1, <1>2, CoveredStays

(* A claim that has no log, before the step and after it. *)
LEMMA NoLogCovers ==
  ASSUME TypeInv, LogsCovered, NEW c \in Claims, ~Logged(c),
         \A d \in Claims \ {c} : claim'[d] = claim[d],
         UNCHANGED <<kills, stops>>, 
         (logs' = logs /\ (failures' = 0 => failures = 0)) \/ failures' # 0
  PROVE  LogsCovered'
<1>1. \A d \in Claims, l \in Log : Covers(d, l) => Covers(d, l)'
  BY DEF Covers, Logged
<1>2. failures' = 0 => \A l \in Unfinished' : l \in Log /\ l \in Unfinished
  BY DEF Unfinished
<1> QED
  BY <1>1, <1>2, CoveredStays

LEMMA SaveSays ==
  ASSUME TypeInv, NEW rows, NEW ls, NEW ok \in BOOLEAN, Save(rows, ls, ok)
  PROVE  /\ logs' = ls
         /\ failures' = 0 => failures = 0 /\ ok
<1>1. failures \in Nat
  BY ClaimConstants DEF TypeInv, StoreOK
<1> QED
  BY <1>1 DEF Save

LEMMA CoveredClaimStep ==
  ASSUME TypeInv, LogsCovered, NEW c \in Claims, ClaimStep(c)
  PROVE  LogsCovered'
<1>1. \A d \in Claims \ {c} : claim'[d] = claim[d]
  BY DEF ClaimStep, Go, ReadAccount, Begin, StartLog, Authorize, TryTier, GiveUp, FetchFails,
         SyncAccount, FinishLog, Finish, MarkAccount, TypeInv, ThreadsOK
<1>2. UNCHANGED <<kills, stops>>
  BY DEF ClaimStep, ReadAccount, Begin, StartLog, Authorize, TryTier, FetchFails,
         SyncAccount, FinishLog, Finish, MarkAccount, bounds
<1>3. claim \in [Claims -> Local \cup {Idle}] /\ claim[c] \in Local
  BY ClaimParts DEF TypeInv, ThreadsOK, ClaimStep, At, ReadAccount, Begin, StartLog,
     Authorize, TryTier, FetchFails, SyncAccount, FinishLog, Finish, MarkAccount
<1>4. \A d \in Claims \ {c}, l \in Log : Covers(d, l) => Covers(d, l)'
  BY <1>1 DEF Covers, Logged
<1>5. CASE ReadAccount(c) \/ Begin(c) \/ Finish(c)
  BY <1>1, <1>2, <1>5, NoLogCovers DEF ReadAccount, Begin, Finish, At, Logged, store
<1>6. CASE MarkAccount(c)
  <2>1. logs' = logs /\ (failures' = 0 => failures = 0)
    BY <1>6, SaveSays DEF MarkAccount, UpdateAccount
  <2> QED
    BY <1>1, <1>2, <1>6, <2>1, NoLogCovers DEF MarkAccount, At, Logged
(* The claim goes on with its log. *)
<1>7. ASSUME logs' = logs, failures' = 0 => failures = 0,
             Logged(c)' /\ claim'[c].id = claim[c].id /\ claim'[c].trigger = claim[c].trigger
      PROVE  LogsCovered'
  <2>1. \A d \in Claims, l \in Log : Covers(d, l) => Covers(d, l)'
    BY <1>4, <1>7 DEF Covers
  <2>2. \A l \in Unfinished' : l \in Log /\ l \in Unfinished
    BY <1>2, <1>7 DEF Unfinished
  <2> QED
    BY <1>2, <1>7, <2>1, <2>2, CoveredStays
<1>8. ASSUME NEW pc \in {"authorize", "claim", "sync", "finishlog"}, NEW failed \in BOOLEAN,
             Go(c, [claim[c] EXCEPT !.pc = pc, !.failed = failed])
      PROVE  Logged(c)' /\ claim'[c].id = claim[c].id /\ claim'[c].trigger = claim[c].trigger
  BY <1>3, <1>8 DEF Go, Logged, Local
<1>9. ASSUME NEW pc \in {"authorize", "claim", "sync", "finishlog"},
             Go(c, [claim[c] EXCEPT !.pc = pc])
      PROVE  Logged(c)' /\ claim'[c].id = claim[c].id /\ claim'[c].trigger = claim[c].trigger
  BY <1>3, <1>9 DEF Go, Logged, Local
<1>10. CASE Authorize(c) \/ FetchFails(c)
  <2>1. logs' = logs /\ failures' = failures
    BY <1>10 DEF Authorize, FetchFails, store
  <2> QED
    BY <1>7, <1>8, <1>9, <1>10, <2>1 DEF Authorize, FetchFails, GiveUp
<1>11. CASE TryTier(c)
  <2>1. logs' = logs /\ failures' = failures
    BY <1>11 DEF TryTier, store
  <2>2. ASSUME At(c, "claim"), Go(c, [claim[c] EXCEPT !.tried = claim[c].tried + 1])
        PROVE  Logged(c)' /\ claim'[c].id = claim[c].id /\ claim'[c].trigger = claim[c].trigger
    BY <1>3, <2>2 DEF Go, At, Logged, Local
  <2> QED
    BY <1>7, <1>8, <1>9, <1>11, <2>1, <2>2 DEF TryTier, GiveUp
<1>12. CASE SyncAccount(c)
  <2>1. logs' = logs /\ (failures' = 0 => failures = 0)
    BY <1>12, SaveSays DEF SyncAccount, UpdateAccount
  <2> QED
    BY <1>7, <1>8, <1>12, <2>1 DEF SyncAccount, GiveUp
<1>13. CASE StartLog(c)
  <2>1. [id |-> claim[c].id, trigger |-> claim[c].trigger, status |-> "running"] \in Log
    BY <1>3 DEF Local, Log
  <2>2. PICK new \in Log :
          new = [id |-> claim[c].id, trigger |-> claim[c].trigger, status |-> "running"]
    BY <2>1
  <2>3. PICK all : all = Append(logs, new)
    OBVIOUS
  <2>4. logs' = Newest(all) /\ (failures' = 0 => failures = 0 /\ Go(c, [claim[c] EXCEPT !.pc = "authorize"]))
    <3>1. PICK ok \in BOOLEAN : Save(stored, Newest(all), ok) /\ Go(c, AfterLog(c, ok))
      BY <1>13, <2>2, <2>3 DEF StartLog
    <3> QED
      BY <3>1, SaveSays DEF AfterLog
  <2>5. all \in Seq(Log) /\ \A j \in DOMAIN all : all[j] = new \/ \E i \in DOMAIN logs : all[j] = logs[i]
    BY <2>3, AppendProperties, LenProperties DEF TypeInv, StoreOK, Logs
  <2> SUFFICES ASSUME failures' = 0, kills' = 0, NEW l \in Unfinished'
               PROVE  \/ \E d \in Claims : Covers(d, l)'
                      \/ l \in Unfinished /\ \A d \in Claims : Covers(d, l) => Covers(d, l)'
    BY <1>2, <2>4, CoveredStays
  <2>6. Covers(c, new)'
    <3>1. Logged(c)' /\ claim'[c].id = claim[c].id /\ claim'[c].trigger = claim[c].trigger
      BY <1>9, <2>4
    <3> QED
      BY <2>2, <3>1 DEF Covers
  <2>7. l \in Log /\ l.status = "running" /\ (stops = 0 \/ l.trigger = "scheduled")
        /\ \E k \in DOMAIN Newest(all) : Newest(all)[k] = l
    BY <1>2, <2>4 DEF Unfinished
  <2>8. \E j \in DOMAIN all : all[j] = l
    BY <2>5, <2>7, NewestIsPart
  <2>9. l = new \/ \E i \in DOMAIN logs : logs[i] = l
    BY <2>5, <2>8
  <2>10. ~Logged(c)
    BY <1>13 DEF StartLog, At, Logged
  <2>11. CASE l = new
    BY <2>6, <2>11
  <2>12. CASE \E i \in DOMAIN logs : logs[i] = l
    BY <1>4, <2>7, <2>10, <2>12 DEF Unfinished, Covers
  <2> QED
    BY <2>9, <2>11, <2>12
<1>14. CASE FinishLog(c)
  <2>1. failures' = 0 =>
          /\ failures = 0
          /\ \/ logs' = Finished(c)
             \/ logs' = logs /\ \A i \in DOMAIN logs : logs[i].id # claim[c].id
    BY <1>14, SaveSays DEF FinishLog
  <2> SUFFICES ASSUME failures' = 0, kills' = 0, NEW l \in Unfinished'
               PROVE  l \in Unfinished /\ \A d \in Claims : Covers(d, l) => Covers(d, l)'
    BY <1>2, <2>1, CoveredStays
  <2>2. l \in Log /\ l.status = "running" /\ (stops = 0 \/ l.trigger = "scheduled")
    BY <1>2 DEF Unfinished
  <2>3. PICK i \in DOMAIN logs' : logs'[i] = l
    BY DEF Unfinished
  <2>4. i \in DOMAIN logs /\ logs[i] = l /\ l.id # claim[c].id
    <3>1. CASE logs' = Finished(c)
      <4>1. i \in DOMAIN logs /\ Finished(c)[i] = l
        BY <2>3, <3>1 DEF Finished
      <4>2. logs[i] \in Log
        BY <4>1, ElementOfSeq, LenProperties DEF TypeInv, StoreOK, Logs
      <4>3. CASE logs[i].id = claim[c].id
        <5>1. l.status \in {"failed", "success"}
          BY <4>1, <4>2, <4>3 DEF Finished, Log
        <5> QED
          BY <2>2, <5>1
      <4>4. CASE logs[i].id # claim[c].id
        BY <4>1, <4>4 DEF Finished
      <4> QED
        BY <4>1, <4>3, <4>4
    <3> QED
      BY <2>1, <2>3, <3>1
  <2>5. l \in Unfinished
    BY <2>2, <2>4 DEF Unfinished
  <2>6. \A d \in Claims : Covers(d, l) => Covers(d, l)'
    BY <1>4, <2>2, <2>4 DEF Covers
  <2> QED
    BY <2>5, <2>6
<1> QED
  BY <1>5, <1>6, <1>10, <1>11, <1>12, <1>13, <1>14 DEF ClaimStep

LEMMA CoveredStep ==
  ASSUME TypeInv, LogInv, [Next]_vars
  PROVE  LogsCovered'
<1>1. LogsCovered /\ failures \in Nat /\ kills \in Nat /\ stops \in Nat
  BY ClaimConstants DEF TypeInv, StoreOK, ProcessOK, LogInv
<1>2. ASSUME NEW c \in Claims, ClaimStep(c) PROVE LogsCovered'
  BY <1>1, <1>2, CoveredClaimStep
<1>3. ASSUME NEW c \in Claims, NEW a \in Accounts, Fire(c, a) \/ ClaimByHand(c, a) \/ Login(c, a)
      PROVE  LogsCovered'
  <2>1. ~Logged(c) /\ UNCHANGED <<kills, stops>>
    BY <1>3 DEF Fire, ClaimByHand, Login, Begins, At, Logged
  <2>2. \A d \in Claims \ {c} : claim'[d] = claim[d]
    BY <1>3 DEF Fire, ClaimByHand, Login, Begins, Go, TypeInv, ThreadsOK
  <2>3. logs' = logs /\ (failures' = 0 => failures = 0)
    BY <1>3, SaveSays DEF Fire, ClaimByHand, Login, store
  <2> QED
    BY <1>1, <2>1, <2>2, <2>3, NoLogCovers
<1>4. ASSUME NEW h \in Handlers, HandlerStep(h) PROVE LogsCovered'
  <2>1. UNCHANGED <<claim, kills, stops>>
    BY <1>4 DEF HandlerStep, Patch, HandleAccountDelete, HandleErrorAccountsDelete, Reread,
                Reschedule, Unschedule, bounds
  <2>2. logs' = logs /\ (failures' = 0 => failures = 0)
    BY <1>4, SaveSays
    DEF HandlerStep, Patch, HandleAccountDelete, HandleErrorAccountsDelete, DeleteAll, Reread,
        Reschedule, Unschedule, store
  <2> QED
    BY <1>1, <2>1, <2>2, SameClaimsCover
<1>5. CASE SaveElsewhere
  <2>1. logs' = logs /\ (failures' = 0 => failures = 0) /\ UNCHANGED <<claim, kills, stops>>
    BY <1>5, SaveSays DEF SaveElsewhere, bounds
  <2> QED
    BY <1>1, <2>1, SameClaimsCover
<1>6. CASE Shutdown \/ UNCHANGED vars
  <2>1. UNCHANGED <<claim, logs, failures, kills>> /\ (stops' = 0 => stops = 0)
    BY <1>1, <1>6 DEF Shutdown, vars, store
  <2> QED
    BY <1>1, <2>1, SameClaimsCover
(* Close has waited for the claims of the scheduled logs. *)
<1>7. CASE Close
  <2>1. UNCHANGED <<logs, failures, kills, stops>>
    BY <1>7 DEF Close, store, bounds
  <2> SUFFICES ASSUME failures' = 0, kills' = 0, NEW l \in Unfinished'
               PROVE  FALSE
    BY <1>1, <2>1, CoveredStays
  <2>2. stops > 0
    BY <1>7, <2>1 DEF LogInv, Interrupted, Close
  <2>3. l \in Unfinished /\ l.trigger = "scheduled"
    BY <1>1, <2>1, <2>2 DEF Unfinished
  <2>4. PICK c \in Claims : Covers(c, l)
    BY <1>1, <2>1, <2>3 DEF LogsCovered
  <2>5. claim[c].pc # "idle" /\ claim[c].trigger = "scheduled"
    BY <2>3, <2>4 DEF Covers, Logged
  <2>6. claim[c] # Idle
    BY <2>5 DEF Idle
  <2> QED
    BY <1>7, <2>5, <2>6 DEF Close, Waits
<1>8. CASE Kill
  <2>1. kills' # 0
    BY <1>1, <1>8 DEF Kill
  <2> QED
    BY <2>1 DEF LogsCovered
<1>9. CASE Restart
  <2>1. UNCHANGED <<claim, kills, stops, failures>> /\ logs' = disk.logs
    BY <1>9 DEF Restart, bounds
  <2>2. failures = 0 => disk.logs = logs
    BY DEF LogInv, InStep
  <2> QED
    BY <1>1, <2>1, <2>2, SameClaimsCover
<1> QED
  BY <1>2, <1>3, <1>4, <1>5, <1>6, <1>7, <1>8, <1>9 DEF Next

LEMMA LogInvHolds == Spec => []LogInv
<1>1. Init => LogInv
  BY DEF Init, LogInv, InStep, NoThreads, Interrupted, LogsCovered, Unfinished
<1>2. TypeInv /\ LogInv /\ [Next]_vars => LogInv'
  BY InStepStep, NoThreadsStep, InterruptedStep, CoveredStep DEF LogInv
<1> QED
  BY <1>1, <1>2, TypeInvHolds, PTL DEF Spec

(* Without failed saves and interruptions, a log that says "running" has a *)
(* claim that runs and will finish it, for any number of claims, whatever  *)
(* becomes of their accounts and whatever the cap drops.                   *)
THEOREM RunningLogsHold == Spec => []RunningLogsHaveClaims
<1>1. TypeInv /\ LogInv => RunningLogsHaveClaims
  <2> SUFFICES ASSUME TypeInv, LogInv, failures = 0, stops = 0, kills = 0,
                      NEW i \in DOMAIN logs, logs[i].status = "running"
               PROVE  \E c \in Claims : Logged(c) /\ claim[c].id = logs[i].id
    BY DEF RunningLogsHaveClaims
  <2>1. logs[i] \in Log
    BY ElementOfSeq, LenProperties DEF TypeInv, StoreOK, Logs
  <2>2. logs[i] \in Unfinished
    BY <2>1 DEF Unfinished
  <2> QED
    BY <2>2 DEF LogInv, LogsCovered, Covers
<1> QED
  BY <1>1, TypeInvHolds, LogInvHolds, PTL

(* After graceful stops alone, the scheduled claims in SQLite are settled: *)
(* Close waited for each of them, however often the process was stopped    *)
(* and started before.                                                     *)
THEOREM ScheduledLogsHold == Spec => []ScheduledLogsSettled
<1>1. TypeInv /\ LogInv => ScheduledLogsSettled
  <2> SUFFICES ASSUME TypeInv, LogInv, process = "down", kills = 0, failures = 0,
                      NEW i \in DOMAIN disk.logs, disk.logs[i].trigger = "scheduled",
                      disk.logs[i].status = "running"
               PROVE  FALSE
    BY DEF ScheduledLogsSettled
  <2>1. disk.logs = logs
    BY DEF LogInv, InStep
  <2>2. logs[i] \in Log
    BY <2>1, ElementOfSeq, LenProperties DEF TypeInv, StoreOK, Logs
  <2>3. logs[i] \in Unfinished
    BY <2>1, <2>2 DEF Unfinished
  <2>4. PICK c \in Claims : Covers(c, logs[i])
    BY <2>3 DEF LogInv, LogsCovered
  <2>5. claim[c] = Idle
    BY DEF LogInv, NoThreads
  <2> QED
    BY <2>4, <2>5 DEF Covers, Logged, Idle
<1> QED
  BY <1>1, TypeInvHolds, LogInvHolds, PTL

-----------------------------------------------------------------------------
(* Cron entries and stored schedules *)

(* The accounts whose schedule the request h is changing. *)
Touches(h) ==
  IF handler[h] = Idle THEN {}
  ELSE IF handler[h].pc = "unschedule" THEN handler[h].accounts ELSE {handler[h].account}

(* No two requests in flight change the schedule of one account: the code   *)
(* does not order the save of one and the installation of another.          *)
Apart == \A g, h \in Handlers : g # h => Touches(g) \cap Touches(h) = {}

(* The entry of an account with row s *)
EntryOf(s) == IF s # NoRow /\ s.enabled THEN s.cron ELSE NoEntry

(* What a request has in hand is what the Store holds of its accounts.     *)
Agrees(h) ==
  /\ Touches(h) \subseteq issued
  /\ handler[h].pc = "reread" => /\ stored[handler[h].account] # NoRow
                                 /\ Accepted(stored[handler[h].account])
  /\ handler[h].pc = "install" => stored[handler[h].account] = handler[h].schedule
  /\ handler[h].pc = "unschedule" => \A a \in handler[h].accounts : stored[a] = NoRow

Unissued == \A a \in Accounts \ issued : stored[a] = NoRow
(* The entry of an account is that of its row, unless a request has still  *)
(* to install or remove it.                                                *)
Installed ==
  \A a \in Accounts : (\A h \in Handlers : a \notin Touches(h)) => entries[a] = EntryOf(stored[a])

ScheduleInv ==
  failures = 0 => Unissued /\ (process # "down" => Installed /\ \A h \in Handlers : Agrees(h))

(* A request h that changes rows and entries of the accounts T only, which *)
(* no other request touches, leaves the others as they were.               *)
LEMMA OthersAgree ==
  ASSUME NEW h \in Handlers, NEW T \in SUBSET Accounts,
         Installed, \A g \in Handlers : Agrees(g), UNCHANGED issued,
         \A b \in Accounts \ T : stored'[b] = stored[b] /\ entries'[b] = entries[b],
         \A g \in Handlers \ {h} : handler'[g] = handler[g] /\ Touches(g) \cap T = {},
         \A g \in Handlers : Touches(g) \subseteq Accounts,
         Touches(h) \subseteq T, Agrees(h)',
         \A b \in T : b \in Touches(h)' \/ entries'[b] = EntryOf(stored'[b])
  PROVE  Installed' /\ \A g \in Handlers : Agrees(g)'
<1>1. \A g \in Handlers \ {h} : Touches(g)' = Touches(g)
  BY DEF Touches
<1>2. ASSUME NEW g \in Handlers \ {h} PROVE Agrees(g)'
  <2>1. Agrees(g) /\ handler'[g] = handler[g] /\ Touches(g)' = Touches(g)
    BY <1>1
  <2>2. \A b \in Touches(g) : stored'[b] = stored[b]
    OBVIOUS
  <2>3. handler[g].pc = "unschedule" => Touches(g) = handler[g].accounts
    BY DEF Touches, Idle
  <2>4. handler[g].pc \in {"reread", "install"} => handler[g].account \in Touches(g)
    BY DEF Touches, Idle
  <2> QED
    BY <2>1, <2>2, <2>3, <2>4 DEF Agrees
<1>3. ASSUME NEW b \in Accounts, \A g \in Handlers : b \notin Touches(g)'
      PROVE  entries'[b] = EntryOf(stored'[b])
  <2>1. CASE b \in T
    BY <1>3, <2>1
  <2>2. CASE b \notin T
    <3>1. \A g \in Handlers : b \notin Touches(g)
      BY <1>1, <1>3, <2>2
    <3> QED
      BY <2>2, <3>1 DEF Installed
  <2> QED
    BY <2>1, <2>2
<1> QED
  BY <1>2, <1>3 DEF Installed

LEMMA TouchesType ==
  ASSUME TypeInv, NEW h \in Handlers
  PROVE  Touches(h) \subseteq Accounts
<1>1. handler[h] \in Serving \cup {Idle}
  BY DEF TypeInv, ThreadsOK
<1> QED
  BY <1>1 DEF Touches, Serving, Idle

LEMMA EntryType ==
  ASSUME NEW s \in Schedule
  PROVE  s # NoRow /\ EntryOf(s) = IF s.enabled THEN s.cron ELSE NoEntry
<1>1. s # NoRow
  BY ClaimConstants DEF Schedule
<1> QED
  BY <1>1 DEF EntryOf

LEMMA SameSchedules ==
  ASSUME ScheduleInv, UNCHANGED <<stored, entries, issued, handler>>,
         failures' = 0 => failures = 0, process' # "down" => process # "down"
  PROVE  ScheduleInv'
<1>1. \A h \in Handlers : Touches(h)' = Touches(h)
  BY DEF Touches
<1>2. Unissued => Unissued'
  BY DEF Unissued
<1>3. Installed => Installed'
  BY <1>1 DEF Installed
<1>4. \A h \in Handlers : Agrees(h) => Agrees(h)'
  BY <1>1 DEF Agrees
<1> QED
  BY <1>2, <1>3, <1>4 DEF ScheduleInv

LEMMA ScheduleHandlerStep ==
  ASSUME TypeInv, NoThreads, ScheduleInv, Apart, Apart', NEW h \in Handlers, HandlerStep(h)
  PROVE  ScheduleInv'
<1>1. /\ stored \in Rows /\ handler \in [Handlers -> Serving \cup {Idle}]
      /\ entries \in [Accounts -> Crons \cup {NoEntry}] /\ jobs = JobsOf(entries)
      /\ NoEntry \notin Crons
  BY ClaimConstants DEF TypeInv, StoreOK, ThreadsOK, JobsOK, NoStrayJob
<1>2. UNCHANGED <<issued, process>> /\ process # "down"
  <2>1. handler[h].pc \in {"reread", "install", "unschedule"} => handler[h] # Idle
    BY DEF Idle
  <2> QED
    BY <2>1 DEF HandlerStep, Patch, HandleAccountDelete, HandleErrorAccountsDelete, Serves, Reread,
       Reschedule, Unschedule, bounds, store, NoThreads
<1>3. failures' = 0 => failures = 0
  BY SaveSays DEF HandlerStep, Patch, HandleAccountDelete, HandleErrorAccountsDelete, DeleteAll,
     Reread, Reschedule, Unschedule, store
<1> SUFFICES ASSUME failures' = 0
             PROVE  Unissued' /\ Installed' /\ \A g \in Handlers : Agrees(g)'
  BY DEF ScheduleInv
<1>4. Unissued /\ Installed /\ \A g \in Handlers : Agrees(g)
  BY <1>2, <1>3 DEF ScheduleInv
<1>5. \A g \in Handlers \ {h} : handler'[g] = handler[g]
  BY <1>1 DEF HandlerStep, Patch, HandleAccountDelete, HandleErrorAccountsDelete, DeleteAll,
     Reread, Reschedule, Unschedule, Then, Answer
<1>6. \A g \in Handlers \ {h} : /\ Touches(g) \cap Touches(h)' = {}
                                /\ Touches(g) \cap Touches(h) = {}
  <2>1. \A g \in Handlers \ {h} : Touches(g)' = Touches(g)
    BY <1>5 DEF Touches
  <2> QED
    BY <2>1 DEF Apart
<1>7. \A g \in Handlers : Touches(g) \subseteq Accounts
  BY TouchesType
<1>8. CASE \E a \in Accounts, s \in Schedule : Patch(h, a, s)
  <2>1. PICK a \in Accounts, s \in Schedule : Patch(h, a, s)
    BY <1>8
  <2>2. /\ stored' = [stored EXCEPT ![a] = s] /\ handler' = [handler EXCEPT ![h] = [pc |-> "reread", account |-> a]]
        /\ entries' = entries /\ handler[h] = Idle /\ stored[a] # NoRow /\ Accepted(s)
    BY <2>1, SaveSays DEF Patch, Save, Serves, Exists, Then, cron
  <2>3. Touches(h)' = {a} /\ Touches(h) = {} /\ handler'[h] = [pc |-> "reread", account |-> a]
    BY <1>1, <2>2 DEF Touches, Idle
  <2>4. stored'[a] = s /\ s # NoRow /\ a \in issued
    BY <1>1, <1>4, <2>2, EntryType DEF Rows, Unissued
  <2>5. Agrees(h)'
    BY <1>2, <2>2, <2>3, <2>4 DEF Agrees
  <2>6. Unissued'
    BY <1>1, <1>2, <1>4, <2>2, <2>4 DEF Unissued, Rows
  <2>7. \A b \in Accounts \ {a} : stored'[b] = stored[b] /\ entries'[b] = entries[b]
    BY <1>1, <2>2 DEF Rows
  <2>8. \A g \in Handlers \ {h} : Touches(g) \cap {a} = {}
    BY <1>6, <2>3
  <2> QED
    BY <1>2, <1>4, <1>5, <1>7, <2>3, <2>5, <2>6, <2>7, <2>8, OthersAgree
<1>9. ASSUME NEW dead \in SUBSET Accounts, \A a \in dead : stored[a] # NoRow,
             DeleteAll(h, dead), Serves(h), UNCHANGED entries
      PROVE  Unissued' /\ Installed' /\ \A g \in Handlers : Agrees(g)'
  <2>1. /\ stored' = [a \in Accounts |-> IF a \in dead THEN NoRow ELSE stored[a]]
        /\ handler' = [handler EXCEPT ![h] = [pc |-> "unschedule", accounts |-> dead]]
        /\ handler[h] = Idle
    BY <1>9, SaveSays DEF DeleteAll, Save, Serves, Then
  <2>2. /\ Touches(h)' = dead /\ Touches(h) = {}
        /\ handler'[h] = [pc |-> "unschedule", accounts |-> dead]
    BY <1>1, <2>1 DEF Touches, Idle
  <2>3. dead \subseteq issued
    BY <1>4, <1>9 DEF Unissued
  <2>4. Agrees(h)'
    BY <1>2, <2>1, <2>2, <2>3 DEF Agrees
  <2>5. Unissued'
    BY <1>2, <1>4, <2>1 DEF Unissued
  <2>6. \A b \in Accounts \ dead : stored'[b] = stored[b] /\ entries'[b] = entries[b]
    BY <1>9, <2>1
  <2>7. \A g \in Handlers \ {h} : Touches(g) \cap dead = {}
    BY <1>6, <2>2
  <2> QED
    BY <1>2, <1>4, <1>5, <1>7, <2>2, <2>4, <2>5, <2>6, <2>7, OthersAgree
<1>10. CASE \E a \in Accounts : HandleAccountDelete(h, a)
  BY <1>9, <1>10 DEF HandleAccountDelete, Exists, cron
<1>11. CASE HandleErrorAccountsDelete(h)
  <2>1. CASE UNCHANGED <<stored, logs, disk, failures, handler>>
    <3>1. UNCHANGED <<stored, entries, issued, handler, process>>
      BY <1>2, <1>11, <2>1 DEF HandleErrorAccountsDelete, cron
    <3>2. ScheduleInv'
      BY <1>2, <1>3, <3>1, SameSchedules
    <3> QED
      BY <1>2, <3>1, <3>2 DEF ScheduleInv
  <2>2. CASE \E dead \in SUBSET {a \in Accounts : Exists(a)} : DeleteAll(h, dead)
    <3>1. Serves(h) /\ UNCHANGED entries
      BY <1>11 DEF HandleErrorAccountsDelete, cron
    <3> QED
      BY <1>9, <2>2, <3>1 DEF Exists
  <2> QED
    BY <1>11, <2>1, <2>2 DEF HandleErrorAccountsDelete
<1>12. CASE Reread(h)
  <2>1. PICK a \in Accounts : a = handler[h].account
    BY <1>12, ServingParts DEF Reread, TypeInv
  <2>2. stored[a] # NoRow /\ Accepted(stored[a]) /\ Touches(h) = {a} /\ a \in issued
    BY <1>4, <1>12, <2>1 DEF Agrees, Reread, Touches, Idle
  <2>3. PICK s : s = stored[a]
    OBVIOUS
  <2>4. handler' = [handler EXCEPT ![h] = [pc |-> "install", account |-> a, schedule |-> s]]
        /\ UNCHANGED <<stored, entries>>
    BY <1>12, <2>1, <2>2, <2>3 DEF Reread, Exists, Then, store, cron
  <2>5. Touches(h)' = {a} /\ handler'[h] = [pc |-> "install", account |-> a, schedule |-> s]
    BY <1>1, <2>4 DEF Touches, Idle
  <2>6. Agrees(h)'
    BY <1>2, <2>2, <2>3, <2>4, <2>5 DEF Agrees
  <2>7. Unissued'
    BY <1>2, <1>4, <2>4 DEF Unissued
  <2>8. \A g \in Handlers \ {h} : Touches(g) \cap {a} = {}
    BY <1>6, <2>2
  <2> QED
    BY <1>2, <1>4, <1>5, <1>7, <2>2, <2>4, <2>5, <2>6, <2>7, <2>8, OthersAgree
<1>13. CASE Reschedule(h)
  <2>1. PICK a \in Accounts, s \in Schedule : a = handler[h].account /\ s = handler[h].schedule
    BY <1>13, ServingParts DEF Reschedule, TypeInv
  <2>2. stored[a] = s /\ Touches(h) = {a}
    BY <1>4, <1>13, <2>1 DEF Agrees, Reschedule, Touches, Idle
  <2>3. /\ entries' = [entries EXCEPT ![a] = EntryOf(s)]
        /\ handler' = [handler EXCEPT ![h] = Idle] /\ UNCHANGED stored
    BY <1>13, <2>1, EntryType DEF Reschedule, Install, Answer, store
  <2>4. Touches(h)' = {} /\ handler'[h] = Idle
    BY <1>1, <2>3 DEF Touches
  <2>5. Agrees(h)'
    BY <2>4 DEF Agrees, Idle
  <2>6. Unissued'
    BY <1>2, <1>4, <2>3 DEF Unissued
  <2>7. /\ \A b \in Accounts \ {a} : stored'[b] = stored[b] /\ entries'[b] = entries[b]
        /\ entries'[a] = EntryOf(stored'[a])
    BY <1>1, <2>2, <2>3
  <2>8. \A g \in Handlers \ {h} : Touches(g) \cap {a} = {}
    BY <1>6, <2>2
  <2> QED
    BY <1>2, <1>4, <1>5, <1>7, <2>2, <2>5, <2>6, <2>7, <2>8, OthersAgree
<1>14. CASE Unschedule(h)
  <2>1. PICK all \in SUBSET Accounts : all = handler[h].accounts /\ handler[h].pc = "unschedule"
    BY <1>14, ServingParts DEF Unschedule, TypeInv
  <2>2. Touches(h) = all /\ handler[h] \in Serving /\ all \subseteq issued /\ \A b \in all : stored[b] = NoRow
    BY <1>1, <1>4, <2>1 DEF Agrees, Touches, Idle
  <2>3. PICK a \in all : /\ Uninstall(a)
                         /\ IF all = {a} THEN Answer(h)
                            ELSE Then(h, [handler[h] EXCEPT !.accounts = handler[h].accounts \ {a}])
    BY <1>14, <2>1 DEF Unschedule, Unscheduled
  <2>4. entries' = [entries EXCEPT ![a] = NoEntry] /\ UNCHANGED stored
    BY <1>14, <2>3 DEF Unschedule, Uninstall, store
  <2>5. handler' = [handler EXCEPT ![h] = IF all = {a} THEN Idle
                                          ELSE [pc |-> "unschedule", accounts |-> all \ {a}]]
    <3>1. [handler[h] EXCEPT !.accounts = handler[h].accounts \ {a}]
            = [pc |-> "unschedule", accounts |-> all \ {a}]
      BY <2>1, <2>2 DEF Serving
    <3> QED
      BY <2>3, <3>1 DEF Then, Answer
  <2>6. Touches(h)' = all \ {a}
    BY <1>1, <2>3, <2>5 DEF Touches, Idle
  <2>7. Agrees(h)'
    <3>1. handler'[h] = IF all = {a} THEN Idle ELSE [pc |-> "unschedule", accounts |-> all \ {a}]
      BY <1>1, <2>5
    <3> QED
      BY <1>2, <2>2, <2>4, <2>6, <3>1 DEF Agrees, Idle
  <2>8. Unissued'
    BY <1>2, <1>4, <2>4 DEF Unissued
  <2>9. /\ \A b \in Accounts \ all : stored'[b] = stored[b] /\ entries'[b] = entries[b]
        /\ \A b \in all : b \in Touches(h)' \/ entries'[b] = EntryOf(stored'[b])
    BY <1>1, <2>2, <2>3, <2>4, <2>6 DEF EntryOf
  <2>10. \A g \in Handlers \ {h} : Touches(g) \cap all = {}
    BY <1>6, <2>2
  <2> QED
    BY <1>2, <1>4, <1>5, <1>7, <2>2, <2>7, <2>8, <2>9, <2>10, OthersAgree
<1> QED
  BY <1>8, <1>10, <1>11, <1>12, <1>13, <1>14 DEF HandlerStep

(* A login keeps the schedule of an account it knows, and the schedule of a *)
(* new one, switched off, needs no entry.                                   *)
LEMMA ScheduleLogin ==
  ASSUME TypeInv, ScheduleInv, NEW c \in Claims, NEW a \in Accounts, Login(c, a)
  PROVE  ScheduleInv'
<1>1. /\ stored \in Rows /\ entries' = entries /\ handler' = handler /\ process' = process
      /\ process = "up" /\ issued' = issued \cup {a}
  BY DEF TypeInv, StoreOK, Login, cron
<1>2. /\ stored' = [stored EXCEPT ![a] = IF Exists(a) THEN stored[a] ELSE NewSchedule]
      /\ failures' = 0 => failures = 0
  <2>1. PICK ok \in BOOLEAN :
          Save([stored EXCEPT ![a] = IF Exists(a) THEN stored[a] ELSE NewSchedule], logs, ok)
    BY DEF Login
  <2> QED
    BY <2>1, SaveSays DEF Save
<1> SUFFICES ASSUME failures' = 0
             PROVE  Unissued' /\ Installed' /\ \A g \in Handlers : Agrees(g)'
  BY DEF ScheduleInv
<1>3. Unissued /\ Installed /\ \A g \in Handlers : Agrees(g)
  BY <1>1, <1>2 DEF ScheduleInv
<1>4. \A g \in Handlers : Touches(g)' = Touches(g)
  BY <1>1 DEF Touches
<1>5. Unissued'
  BY <1>1, <1>2, <1>3 DEF Unissued, Rows
<1>6. \A b \in Accounts : b \in issued => stored'[b] = stored[b]
  BY <1>1, <1>2 DEF Rows, Login, Exists
<1>7. ASSUME NEW g \in Handlers PROVE Agrees(g)'
  <2>1. Agrees(g) /\ Touches(g) \subseteq Accounts /\ handler'[g] = handler[g]
    BY <1>1, <1>3, TouchesType
  <2>2. \A b \in Touches(g) : stored'[b] = stored[b]
    BY <1>6, <2>1 DEF Agrees
  <2>3. handler[g].pc = "unschedule" => Touches(g) = handler[g].accounts
    BY DEF Touches, Idle
  <2>4. handler[g].pc \in {"reread", "install"} => handler[g].account \in Touches(g)
    BY DEF Touches, Idle
  <2> QED
    BY <1>1, <1>4, <2>1, <2>2, <2>3, <2>4 DEF Agrees
<1>8. \A b \in Accounts : EntryOf(stored'[b]) = EntryOf(stored[b])
  <2>1. CASE Exists(a)
    BY <1>1, <1>2, <2>1 DEF Rows
  <2>2. CASE ~Exists(a)
    <3>1. stored' = [stored EXCEPT ![a] = NewSchedule] /\ stored[a] = NoRow
      BY <1>2, <2>2 DEF Exists
    <3>2. EntryOf(NewSchedule) = NoEntry /\ EntryOf(NoRow) = NoEntry
      BY DEF EntryOf, NewSchedule
    <3> QED
      BY <1>1, <3>1, <3>2 DEF Rows
  <2> QED
    BY <2>1, <2>2
<1>9. Installed'
  BY <1>1, <1>3, <1>4, <1>8 DEF Installed
<1> QED
  BY <1>5, <1>7, <1>9

LEMMA ScheduleStep ==
  ASSUME TypeInv, LogInv, ScheduleInv, Apart, Apart', [Next]_vars
  PROVE  ScheduleInv'
<1>1. InStep /\ NoThreads
  BY DEF LogInv
<1>2. ASSUME NEW c \in Claims, ClaimStep(c) PROVE ScheduleInv'
  <2>1. UNCHANGED <<entries, issued, handler, process>>
    BY <1>2 DEF ClaimStep, ReadAccount, Begin, StartLog, Authorize, TryTier, FetchFails,
                SyncAccount, FinishLog, Finish, MarkAccount, store, cron, bounds
  <2>2. stored' = stored /\ (failures' = 0 => failures = 0)
    BY <1>2, SaveSays
    DEF ClaimStep, ReadAccount, Begin, StartLog, Authorize, TryTier, FetchFails,
        SyncAccount, FinishLog, Finish, MarkAccount, UpdateAccount, Save, store
  <2> QED
    BY <2>1, <2>2, SameSchedules
<1>3. ASSUME NEW c \in Claims, NEW a \in Accounts, Fire(c, a) \/ ClaimByHand(c, a)
      PROVE  ScheduleInv'
  BY <1>3, SameSchedules DEF Fire, ClaimByHand, store, cron
<1>4. ASSUME NEW c \in Claims, NEW a \in Accounts, Login(c, a) PROVE ScheduleInv'
  BY <1>4, ScheduleLogin
<1>5. ASSUME NEW h \in Handlers, HandlerStep(h) PROVE ScheduleInv'
  BY <1>1, <1>5, ScheduleHandlerStep
<1>6. CASE SaveElsewhere
  <2>1. UNCHANGED <<stored, entries, issued, handler, process>> /\ (failures' = 0 => failures = 0)
    BY <1>6, SaveSays DEF SaveElsewhere, Save
  <2> QED
    BY <2>1, SameSchedules
<1>7. CASE Shutdown \/ UNCHANGED vars
  BY <1>7, SameSchedules DEF Shutdown, vars, store, cron
<1>8. CASE Close \/ Kill
  <2>1. UNCHANGED <<stored, issued, failures>> /\ process' = "down"
    BY <1>8 DEF Close, Kill, Dies, store
  <2> QED
    BY <2>1 DEF ScheduleInv, Unissued
<1>9. CASE Restart
  <2>1. UNCHANGED <<issued, failures, handler>> /\ process = "down"
        /\ stored' = disk.rows /\ entries' = EntriesOn(disk.rows)
    BY <1>9 DEF Restart
  <2> SUFFICES ASSUME failures = 0
               PROVE  Unissued' /\ Installed' /\ \A g \in Handlers : Agrees(g)'
    BY <2>1 DEF ScheduleInv
  <2>2. stored' = stored /\ Unissued
    BY <1>1, <2>1 DEF InStep, ScheduleInv
  <2>3. \A g \in Handlers : handler'[g] = Idle
    BY <1>1, <2>1 DEF NoThreads
  <2>4. \A g \in Handlers : Agrees(g)'
    BY <2>3 DEF Agrees, Touches, Idle
  <2>5. Installed'
    BY <2>1 DEF Installed, EntriesOn, EntryOf
  <2> QED
    BY <2>1, <2>2, <2>4, <2>5 DEF Unissued
<1> QED
  BY <1>2, <1>3, <1>4, <1>5, <1>6, <1>7, <1>8, <1>9 DEF Next

LEMMA ScheduleInit == Init => ScheduleInv
<1> SUFFICES ASSUME Init PROVE ScheduleInv
  OBVIOUS
<1>1. Unissued /\ Installed
  BY DEF Init, Unissued, Installed, LegacyRows, EntriesOn, EntryOf
<1>2. \A h \in Handlers : Agrees(h)
  BY DEF Init, Agrees, Touches, Idle
<1> QED
  BY <1>1, <1>2 DEF ScheduleInv

LEMMA ScheduleSays == TypeInv /\ ScheduleInv => InstalledIsStored
<1> SUFFICES ASSUME TypeInv, ScheduleInv, process = "up", failures = 0,
                    \A h \in Handlers : handler[h] = Idle
             PROVE  entries = EntriesOn(stored)
  BY DEF InstalledIsStored
<1>1. \A a \in Accounts : entries[a] = EntryOf(stored[a])
  BY DEF ScheduleInv, Installed, Touches
<1>2. entries = [a \in Accounts |-> entries[a]]
  BY DEF TypeInv, JobsOK
<1> QED
  BY <1>1, <1>2 DEF EntriesOn, EntryOf

(* As long as no two requests in flight change the schedule of one account, *)
(* however many are in flight, and whatever logins, claims, stops and kills *)
(* come between, the entries of the service are those of the stored         *)
(* schedules whenever no request is in flight.                              *)
THEOREM InstalledHolds == Spec /\ []Apart => []InstalledIsStored
<1>1. TypeInv /\ LogInv /\ ScheduleInv /\ Apart /\ Apart' /\ [Next]_vars => ScheduleInv'
  BY ScheduleStep
<1> QED
  BY <1>1, ScheduleInit, ScheduleSays, TypeInvHolds, LogInvHolds, PTL DEF Spec

(* One administrator who waits for each answer never has requests overlap. *)
THEOREM OneAdministrator ==
  ASSUME \A g, h \in Handlers : g = h
  PROVE  Spec => []InstalledIsStored
<1>1. Apart
  BY DEF Apart
<1>2. []Apart
  BY <1>1, PTL
<1> QED
  BY <1>2, InstalledHolds, PTL
=============================================================================
