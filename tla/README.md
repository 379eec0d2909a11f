# Atom2Api: models and proofs

Atom2Api is a gateway: clients call OpenAI-style endpoints with an API key, and the
gateway forwards each request to the AtomGit Coding Plan with the credentials of one of
several accounts. This directory holds TLA+ modules of its core, the TLC runs that check
them and TLAPS proofs about them. Paths and line numbers are those of the repository root.

## 1. The system

| Component | State it keeps | Operations | Interacts with |
|---|---|---|---|
| Model router (`models.go`) | `bindings` and `next` under `r.mu` | `Resolve`, `ForgetAPIKeyRoutes`, `Catalog` | reads accounts, settings and assignments of the Store, saves bindings |
| API key limiter (`api_key_limiter.go`) | one `apiKeyLimitState` per key under `l.mu` | `acquire`, the release it returns, `forget` | called by `RequireAPIKey` with a copy of the key |
| Store (`store.go`, `store_sqlite.go`) | accounts, keys, settings, claim logs and usage in memory under `s.mu`; the same in SQLite | create, update, delete, record, clean up; every save rewrites the core tables in one transaction | everything |
| Proxy (`proxy.go`) | nothing beyond the request | `HandleRequest`: resolve, refresh the token, call upstream with retries, convert, audit | router, OAuth manager, Store |
| Responses compatibility (`responses_compat.go`) | state of one converted stream | request conversion, stream conversion | proxy |
| OAuth manager (`oauth.go`) | pending logins under `m.mu` | `Start`, `Poll`, `Refresh` | broker (external), Store, plan claims |
| Coding Plan client (`codingplan.go`) | nothing | `Sync`, `ClaimAndSyncDetailed` | upstream (external), OAuth manager, Store |
| Plan claims (`plan_claim.go`) | `entries` and `running` under `s.mu`, cron | `Reschedule`, `Unschedule`, `Claim`, log start and finish | Coding Plan client, Store, account handlers |
| Quota refresh (`quota_refresh.go`) | `attempts`, one goroutine | `refreshDue` each second | Store, `Sync` |
| Configuration (`config.go`, `settings.go`) | configuration in memory, the file, its hash | `Reload` each second, `Update` | every component takes snapshots |
| Admin authentication (`auth.go`) | sessions and failed attempts | login, logout, check | admin handlers |
| Release and user-agent checks (`update.go`, `user_agent_check.go`) | one cached answer | `check` | GitHub, upstream (external) |
| Admin API (`api.go`) | nothing | one handler per route | all of the above |
| Protocol probe, web interface, wiring (`protocol_probe.go`, `frontend/`, `main.go`) | nothing that outlives a call | requests, display, start and stop | |

What is hard here: every HTTP request is a goroutine, and nearly every operation reads
state under one lock, waits for the network or for another lock, and acts on what it read.
Deletions and updates by an administrator fall between these steps. The Store changes its
memory before it saves, so a failed save leaves the two apart, and a restart goes back to
the rows. `PROJECT.json` lists each such place under "hazards", at its line, with the
properties that cover it, or with the reason why none does.

What makes each component correct:

- *router*: a Fill key keeps its account while the account is usable, across restarts and
  concurrent requests; Fill keys share an account only when all are held; plan rules are
  never bypassed by a binding;
- *limiter*: the counter is the number of requests in flight; limits hold for every
  admission; Retry-After is honest; no entry leaks;
- *Store*: memory and disk agree unless a save failed; clean-up and compaction keep the
  same rows on both sides; migration happens once, whole, whenever the process dies;
- *proxy*: bounded retries, one audit row per request that tells what the client got;
- *OAuth manager*: a refresh never replaces newer credentials, a login creates one account;
- *plan claims*: one claim per account at a time; the schedule installed is the one stored;
- *quota refresh*: no account is synchronised more often than the retry interval allows;
- *configuration*: memory and file converge; no reader sees an invalid configuration;
- *responses stream*: a well-formed event sequence for every chat stream.

## 2. Plan

Done, in this order: `ModelRouter`, `KeyLimiter`, `PlanClaims`, `UsageStore`,
`LegacyMigration` with its abstract specification `Handover`, `Accounts` with
`ProxyRequest`, `ResponsesInput` with `ResponsesStream` and its abstract specification
`ResponseEvents`; then `ConfigStore`, `AdminAuth`, `ModelCatalog`, `QuotaRefresh`,
`OAuthSessions`, `ReleaseCheck` and `AuditViews`, which `MCAdministration` and `MCProcess` put
beside `UsageStore` and `LegacyMigration`. Proofs about every component.

Next, by what a user of the gateway would lose:

1. One request composed: authentication, limiter, router and proxy; the limiter
   as an admission gate with at most n tickets, implemented by `KeyLimiter` when the limits
   do not change.
2. Content parts, tools and text formats of the Responses conversion; the rewriting of
   native streams.

## 3. The modules and the code

A thread (an HTTP handler, a cron job, a background loop) is a local state with a program
counter, and an action is one critical section of the code or one call to the outside; what
a thread read under a lock and uses later is kept in its local state. Saves of the Store may
fail, and then leave the memory changed, as `saveLocked` does. `PROJECT.json` maps every
definition to the lines it models. Definitions named `Wrong...` are plausible defects of the
definition they precede; no specification uses them.

| Module | What its state is | Its actions |
|---|---|---|
| `ModelRouter` | `stored` and `disk` are the key rows in the Store's memory and in SQLite, `bindings` and `next` the fields of `ModelRouter`, `blocked` what makes an account unusable, `req` the requests | authentication, reading the accounts, reading the assignments, the choice under `r.mu`, saving the binding, deletion of a key in two steps, strategy changes, kill and restart |
| `KeyLimiter` | `entry`, `active`, `arrival` are the map and the objects of `apiKeyLimiter`; `limits` the stored key | reading the clock, the critical section of `acquire`, the release, `forget`, changes of limits |
| `PlanClaims` | `entries`, `jobs`, `running` of `PlanClaimService`; rows and logs in memory and on disk; `claim` and `handler` the threads | cron fires, manual claim, login; the steps of a claim; `Reschedule` and `Unschedule` split at the mutex; graceful stop, kill, restart |
| `UsageStore` | `usage` and `count` in memory, `disk` the table (both sets of records numbered in the order in which they were appended), a clock whose text form has one or two digits; `misread` are the records that a clean-up judged by their text otherwise than by their time | `RecordUsage`, the two clean-ups, restart |
| `LegacyMigration` | `files`, `marker`, `rows`; `pc` the place in `migrateLegacyFiles` | each step of the start, a crash between any two, files placed by the operator |
| `Handover` | the abstract specification: `left` are the files whose contents the database does not hold, `taken` those that were migrated | place, take all that is left in one step and only once, discard after that |
| `Accounts` | `row` the account in the Store; `accepted`, `issued`, `lost` what the broker knows | the three steps of `Refresh`, `Sync` with its callers, import and login, the administrator |
| `ProxyRequest` | `thread[q]` a request of `HandleRequest`, over `Accounts` | arrival, refresh, refusal, each upstream call, disabling, forwarding, the audit record |
| `ResponsesInput` | `given`, `messages`, `calls` of the loop in `responsesItemsToMessages` | one input item; the end with `normalizeChatMessages` |
| `ResponsesStream` | `s` is `responsesStreamState`, `pending` the events a chunk causes, `sent` what was written and `client` what of it arrived, `cut` whether something was lost | a chunk, the end, a broken stream, a write that arrives, gets lost unnoticed or fails; the answer in one piece |
| `ResponseEvents` | the abstract specification of an event stream: status, items, final output | announce, open, extend, advance, end |
| `AuditViews` | extends `UsageStore`; `view` is what an administrator reads: the page, what the pages showed so far and what was due when the list was opened, or the clock, the total and the trend of a dashboard | the pages of `HandleAudits`, one request each; `HandleDashboard` split between its clock and its copy of the records |
| `ConfigStore` | `file` is `config.json`, `config` the copy in memory, `work` where the loop and each settings request are and the content they carry; `drawn` numbers the generated keys, `sealed` is the key of the stored credentials | the start, `Reload` in its steps (read, compare, store, install), `Update`, the rename and the second attempt at it, each of which may fail; edits by the operator; the end of the process at any point |
| `AdminAuth` | `attempts` and `sessions` of `AdminAuth`; `login` the requests; `misses` and `issued` record what happened | the two critical sections of a login with the comparison between them, the new session with its pruning, expiry, refused requests, logout |
| `ModelCatalog` | `setting` the rows of the Store, `offered` the models of the accounts, `editor` the requests; the catalog is computed from both | check and store of creating, setting and deleting a model as separate steps; whatever else changes what is offered |
| `QuotaRefresh` | `attempt` of the service, `tick` the channel of the ticker, `plan` and `deadline` what the rows say, `syncing` the synchronisations of a round | a second, `refreshDue`, the end of a synchronisation and of a round, other synchronisations, deletion, `Close` |
| `OAuthSessions` | `session` is `m.pending`, `poll` the polls in flight, `granted` and `account` the broker and the Store | `Start` with its pruning, each step of `Poll` with every way out, ageing, deletion of the account, the end of the process |
| `ReleaseCheck` | `cached` and `expires` of `ReleaseChecker`, `caller` the requests, `releases` GitHub | a request, `check` up to its call under the mutex, the answer or failure, time, a new release; semantic versions as operators |

`MC...` modules give the constants of the runs; `...Proofs` modules hold the theorems.
`MCGateway`, `MCAdministration` and `MCProcess` check several components in one run. These share no
state and no lock, and no property speaks of two of them; a variable `part` names the one
that a behaviour follows while the others stay at one fixed start. The run therefore has
exactly the behaviours of each component by itself, and its states are the sum, not the
product, of theirs.

Abstractions a reader should know of:

- the router reads all accounts in one step; the plan of an account does not change; one
  upstream model is modelled because bindings and rotation are kept per model;
- `ModelCatalog` computes the catalog from one state, although `Catalog` reads the accounts
  and the settings under two separate locks (`models.go:67`, `:90`). A change between the two
  overlaps the request, and `NamesStayUnique` makes no claim for a request that is overlapped;
- the limiter is modelled for one key, because entries do not influence each other;
- in `Accounts`, restarts are left out (what is at stake is the memory of running threads),
  and so are `LastError`, counters and access tokens: upstream may refuse any access token.
  The broker is external. It either answers every refresh with a new refresh token or never
  does (`rotates`), and revokes a token only by exchanging it;
- `AuditViews` follows one view at a time, because views change nothing; what the filters of
  the list look at does not change, except the names of accounts and keys, which are left out;
- in `ConfigStore` the password, the encryption key and one other setting are told apart;
  `Invalid` stands for everything `parseConfig` refuses. Equal passwords hashed twice and
  two layouts of one content cause reloads that change nothing, and are not told apart. An
  operator who edits the file may remove the key and never puts another one in its place,
  which would make the stored credentials unreadable whatever the code does;
- `AdminAuth` has one remote address, because the counters of two addresses share nothing;
  of `ModelCatalog` the enabled flag and the attributes of a model are left out, because no
  name depends on them;
- `QuotaRefresh` counts times from now, so that it needs no bound of time. A reset that no
  row and no attempt names may stand for any new one. The time-outs of `Sync` bound a round
  (`MaxRound`);
- in `OAuthSessions` a session is fresh, beyond its 10 minutes, or beyond the 15 after which
  it is pruned. A slot is used again when neither the map nor a poll knows it;
- in `ReleaseCheck` the characters of a version are numbers in the order of ASCII; a label
  with characters that a version may not have is refused like one with a bad number;
- in `ResponsesStream` the writes are separate actions after the whole chunk was consumed.
  One goroutine does both and stops at the first failed write, so nobody can tell. What is
  written goes to a buffer: it arrives, or a broken connection loses it and all that follows,
  and a later write may or may not return an error. A request
  asks for one choice: `n` is not among the accepted fields. Names and texts are sequences of
  tokens, the identifiers drawn by `randomID` are numbers beyond those of upstream;
- in `ResponsesInput` a role is any member of `RoleNames`, since the code passes on roles it
  does not know, and the type "other" stands for every item type it refuses.

## 4. The runs

| Run | Instance | Distinct states | What it shows |
|---|---|---|---|
| `RouterSerial` | 2 keys, 2 accounts, 2 requests, one request per key at a time, deletions, both strategies, 1 restart | 724 072 | `FillSticky`: a Fill key leaves its account only when the request found it unusable, also after a restart. `SharesOnlyForGhosts`: a key is given an account of another Fill key only when every candidate is held by a Fill key or counted for a *ghost*, the binding of a deleted key or of one switched to round robin. `BindingPersisted`: with no request in flight the router and the Store agree |
| `RouterOverlap` | 1 key, Pro, Max and Lite account, GLM model, 2 overlapping requests, 1 failed save, 1 restart | 1 421 728 | `PlanRule`: no binding carries a GLM key to the Lite account. `BindingSticky`: a stale copy of the key never moves a binding |
| `Gateway` | three components side by side: *limits* (3 requests, window of 3 ticks, 1 change of the limits, deletion of the key), *responses* (requests of 4 items out of 12, streams of 3 chunks out of 8), *schedules* (2 accounts, 1 claim, 3 expressions of which one does not parse, 1 stop, 1 failed save) | 1 075 563 | `EntriesMatchRequests`: the counter is exact and no entry leaks; both limits hold; Retry-After is long enough. Calls, outputs and texts of a request keep their order and calls their grouping; every stream is well formed up to where it breaks and ends like the answer in one piece. `AuditTellsTheEnd`: its audit record has an error exactly when the last event was not written. Cron runs the stored schedules, the process can start again, a stop cuts off no scheduled claim |
| `UsageCleanUp` | five components side by side: *usage* (cap of 2 records, 4 records, clock readings 5 to 8 in base 3, so that 6 has a text of one digit and the others of two, 2 failed transactions, 1 restart; pages of 1 record, 2 filters, a dashboard of 2 bars), *config* (2 administrators, 2 passwords, 1 edit, 1 failed file operation, 1 end of the process), *auth* (2 logins, limit 2, window 2, lifetime 2, 5 ticks), *catalog* (2 requests, 2 models, 1 further name), *release* (2 callers, 13 labels, 1 release published, 3 minutes) | 2 201 102 | `ReloadShowsTheSame`, `NothingLost`: memory and table keep the same rows, saved rows survive, no row escapes the counters, except for rows that a clean-up misread. `ViewsAddUp`: while the pages of the audit list are read, new records push none off them, and each removed one hides at most one; the dashboard's trend adds up to its total. `CredentialsReadable`: the key of the stored credentials is the key in memory. `OneReloadAgrees`: one undisturbed reload brings memory and file together. `LoginsLimited`: an administrator is refused only for failures within the last window, and no window holds more of them than the logins in flight explain. `NamesStayUnique`: a name becomes ambiguous only through an overlap. `UpdateTold`: an update is announced exactly when the release is newer, and an answer is never older than its TTL |
| `Process` | four components side by side: *migration* (2 placed files, 2 crashes or failed removals), *refresh* (2 accounts, 2 resets, retry after 2 ticks, rounds of up to 2 ticks), *login* (2 sessions, 2 polls), *claims* (1 account, 2 claims of any kind, 1 administrative request, cap of 1 log, 1 failed save, 1 kill) | 400 673 | the migration implements `Handover`; an interrupted one is never refused; the files go. `DueIsSynced`: an account whose reset has passed is synchronised again and again, however slow the others are. `OnePoller`, `PollsRelease`: one poll at a time finishes a login, and its mark never stays. One claim per account at a time; every running log has a claim that will finish it, and claims end |
| `ProxyRequests` | 1 account, a request, a synchronisation or import or login, an automatic refresh, 2 refresh tokens, 1 retry, 1 failed save | 384 208 | the row keeps a usable refresh token; the audit record tells every call; only refused credentials disable; no account stays in "syncing" |
| `RouterLiteReturns`, `RouterOverlapPersist`, `RouterGhosts`, `UsageTimestamps`, `UsageLoss`, `MigrationUnread` | small instances | | the six disagreements of section 6 |

Why the bounds are enough. The hazards are races of two threads over one object, and each
run has the two threads, the object, and one more thread or object where a third changes the
question: a third account for the plan rule, a third request for the concurrency limit, an
administrator beside two claims. Ghosts need a third key to be mistaken for holders, so
`RouterGhosts` has three; in `RouterSerial` the two keys overlap with deletions, switches
and a restart instead. One failed save and one restart let each of them fall between any two
steps; of claims, the stop is in `Gateway` and the kill in `Process`. Windows and caps are
small enough to be reached and passed: the limiter's clock runs past a window, the caps of
logs and of usage rows are below the number of logs and rows, one retry distinguishes the
first, the last and a middle call with the failure outcomes, and two tokens let an import
replace a token in exchange. Three chunks suffice to open both calls in either order with a
text and a reason between them. Tokens, chunks, claims, records, failures, kills and time
are bounded in guards by the constants `Max...`; nothing else is. The symmetry sets permute
only slots that no property distinguishes and are not used with liveness.

The two administrators of *config* let a stale snapshot meet an update, the one edit, fault
and end of the process fall between any two of their steps. In *auth* the clock passes two
windows, so that an old failure could count and a session expires beside a live one. Two
models and one further name suffice for every kind of clash (name against name, alias
against name, alias against alias), two requests for an overlap. The labels of *release*
hold numbers that differ as numbers and as texts, leading zeros, a number that is too
large, words, hyphens, empty and missing parts. In *refresh* a round may outlast the retry
interval, and one account may be slow, deleted or renewed by others while the other waits.

Type correctness is proved for every component (section 5); `UsageCleanUp` (`TypesOK`) and
`Gateway` (`ResponsesTypeOK`) also check it, as the cheapest sign of a slip in the many small
actions of those components.

In *usage* the clock of the runs starts where `Base` and `Step` let a clean-up meet both kinds
of text: a cutoff with the shorter text before or after records with the longer one. A view is
read while no transaction fails and the process runs (`ViewsInOrder`).

Deadlock is checked in all runs except `Gateway`: the limiter's clock stops at `MaxTime`, and
the single request of *responses* ends.

Fairness. It is assumed only where the code bounds the wait:

- `Process`, *claims*: every started claim goroutine goes on (`ClaimStep`); its calls have the time-outs
  of the HTTP client and of the context. Nothing is assumed about cron or administrators.
- `Process`, the others: a process that was started goes on and a process that ended is started
  again (`restart: unless-stopped` in `docker-compose.yml`); crashes are bounded. For the
  quota refresh: time passes, the loop takes its tick and leaves its round, and each
  synchronisation ends, by its answer or by a time-out. For logins: a poll that was entered
  goes on (`PollStep`); the calls of the broker have a time-out, and the claim it waits for
  ends, which `ClaimsEnd` shows. Nothing is assumed about users, administrators or new polls.
- `ProxyRequests`: synchronisations, imports and logins go on (`SyncStep`): 15 s for the
  broker, 20 s and three tries for the API. No fairness is assumed of requests: `main.go`
  sets no write time-out, so a client that stops reading holds its request for ever.

## 5. What is proved

TLAPS proves the following for every value of the constants that satisfies the named
assumptions (finite or typed parameter sets, positive caps, distinct markers).

- *Router* (`ModelRouterProofs`): `TypeCorrect`, `PlanRuleHolds`, `BindingStickyHolds`,
  `SharesHolds`, `SharesWithoutGhosts`, `BindingPersistedHolds`, `FillStickyHolds`. The
  plan rule is not inductive. The invariant adds, for each request that has read the
  accounts, that its candidates obey the rule (`CandidatesPermitted`) and that none it had to
  keep was dropped (`CandidatesComplete`); the choice then takes one of them, wherever the
  bindings point. `RouterOverlap` checks the GLM half of the rule, the theorem both halves.
  `SharesHolds` states `SharesOnlyForGhosts` without a hypothesis: `KeysInv` says that what a
  request read of the assignments still stands under the bindings made since.
  `SharesWithoutGhosts` derives README.md:45 from it where nothing makes a ghost: no key is
  deleted and none leaves Fill. Both are for any number of keys. The other two are about requests
  of a key that follow one another (`SerialKeys`; `RouterOverlapPersist` is the other case).
  `BindingPersisted` holds until a save fails: `MemoryInv` follows a binding from the
  router to the memory of the Store and to the row. `FillSticky` adds the history of what each key's
  requests found (`TrackInv`), and needs that not both a save failed and the process was
  restarted, since the row is then older than the memory, and a family other than DeepSeek
  (`RouterLiteReturns`).
- *Limiter* (`KeyLimiterProofs`): `TypeCorrect`, `EntriesMatch`, `ConcurrencyHolds`,
  `RollingRPMHolds`, `RetryAfterHolds`. Counting rests on lemmas about the cardinality of
  the set of running requests when one is added or removed; the window rests on a relation
  between the stamps in the entry and the times of the counted admissions, since stamps are
  not in the order of the admissions. `RetryInv` describes a rejected request: it counted at most
  its limit of stamps, and waits until the oldest has left the window. This assumes that the
  RPM limit has one value when it is on; a limit lowered below the number of stamps in the
  entry leaves more of them than one wait removes.
- *Claims* (`PlanClaimsProofs`): `TypeCorrect`, `NoStrayJobHolds`, `OneClaimHolds`,
  `StartsAgainHolds`, `RunningLogsHold`, `ScheduledLogsHold`, `InstalledHolds`,
  `OneAdministrator`.
  `NoStrayJob` and `OneClaimPerAccount` are inductive together with the type invariant, whose
  part about threads says which account and log each step of a claim works on.
  `LogInv` covers every running log by a claim that will finish it, in memory and on disk,
  and says what a process that stopped gracefully has left. `ScheduleInv` says, for every account,
  that the entry is the stored schedule, or which request in flight will make it so.
  `InstalledHolds` assumes that no two requests in flight change one account's schedule
  (`Apart`), which is the race of `plan_claim.go:88`; `OneAdministrator` derives that from
  having one administrator.
- *Migration* (`ProcessProofs`): `TypeCorrect`, `NeverRefusedAfterCrash`, and `MigrationIsAtomic`,
  the refinement of `Handover`: every step maps to an abstract move or to a stutter. Whatever
  lies in the directory when the transaction commits is taken whole, and no file that is not in
  the database is removed before. After the commit the code removes what is placed there
  unread, so `Handover` has `Discard`; this is a finding (`MigrationUnread`).
  `MigrationInv` says that without the marker nothing was inserted, and that what a start
  inspected is still there when it commits.
- *Proxy* (`ProxyRequestProofs`): `TypeCorrect`, `TokensStayUsable`, `AuditIsComplete`,
  `OnlyRefusalsDisable`. The invariant has three parts. `TypeInv` gives rows and threads
  their shapes. `TokenInv` adds to `RefreshTokenUsable` who may hold which token: a refresh
  token belongs to one account, and a new token on its way to the Store is in no other
  thread and in no row, so whatever is stored last is either that token or one the broker
  still accepts. `AuditInv` relates the calls of a request to its retries and attempts at
  every point of the loop.

- *Quota refresh and logins* (`ProcessProofs`): `RefreshTypeCorrect`, `OAuthTypeCorrect`,
  `OnePollerHolds`. Each step of a poll is a case of two lemmas, about a poll that stays
  between the critical sections and about one that leaves them.
- *Configuration* (`ConfigStoreProofs`): `ConfigTypeCorrect`, `CredentialsStayReadable`,
  `OneReloadSuffices`. `ThreadsInv` says who can be where and that whatever is on its way to
  the file was normalised and validated. `KeyInv` says that the file, the memory and every
  content in flight have one key, and, while there is no configuration in memory, that a
  start carries the key the credentials need. `CleanInv` says that an undisturbed reload
  carries what is in the file.
- *Names and logins* (`AdministrationProofs`): `CatalogTypeCorrect`, `NamesStayUniqueHolds`,
  `AuthTypeCorrect`, `RefusalsEarnedHolds`, `LoginsLimitedHolds`, `SessionsHonouredHolds`.
  `FreshInv` says that what a request compared with still holds while the catalog is the
  same: storing the alias is `Harmless`. `AttemptsInv` covers the count of a window by
  failures that were recorded within it. `LimitInv` bounds the failures: the count and the
  logins that passed the check together never exceed `Most`, and a span as long as a window
  meets at most two windows and misses the failure that began the first of them.
  `SessionsInv` relates the stored sessions to the tokens that were issued;
  `SessionsHonoured` is proved and not checked by a run.
- *Usage records* (`AdministrationProofs`): `UsageTypeCorrect`, `RowsCountedHolds`,
  `ReloadHolds`, `NothingLostHolds`, `CleanUpHolds`. `UsageInv` says that records, rows and
  saved records are numbered (`Numbered`), that each row was saved, and that rows do not
  exceed the stored counter. Compaction rests on lemmas about `Newest` that compare
  cardinalities: of at most `Cap` records all are the newest, and whoever is among the
  newest of many is among the newest of fewer. `ReloadHolds` and
  `NothingLostHolds` hold for clock readings whose texts differ in length as they do in the
  code: the history `misread` names the rows that a clean-up judged by their text otherwise
  than by their time, and those are the only exception. With
  no failure and no such row the table holds what the memory holds, so misread rows are the
  only cause of the finding `UsageLoss`. `CleanUpHolds` assumes `Step % Base = 0` and
  `Start % Base = 0`, which gives every timestamp the same length, and an age of clean-up of at
  least one step: the length of the text is the only cause of the finding `UsageTimestamps`.
- *Views of the records* (`AdministrationProofs`): `ViewsAddUpHolds`, for any timestamps,
  page size, queries and bars. For the list, `PagesInv` follows the
  records that were due and not shown: those of them that are before the next page are
  *explained* by records removed after them. A new record only pushes others back, and
  `MovedUp` counts that no more can move onto pages that were read than were removed behind
  which they stood. For the dashboard, `FoldIsSum` shows that the community modules'
  `SumFunction` adds one element after the other, and `SumOfSizes` that the sizes of the bars
  add up to the size of the records they hold.
- *Releases* (`AdministrationProofs`): `UpdateToldHolds`, without an assumption beyond the
  constants' types. `LessIsPrecedence` shows that the comparison of `update.go`, by length
  and then digit by digit, is the precedence of semantic versions, which `UpdateTold` defines
  by the value of numbers; `ReleaseInv` says that what is cached or on its way to a caller
  was the latest release within the TTL.

- *Event streams* (`ResponsesProofs`): `EventsHold`, the refinement of `ResponseEvents`, and
  `AuditHolds`, for any tokens, chunks, number of chunks and indexes of calls. The client holds
  a prefix of what was written, and all of it as long as nothing was lost; the record speaks
  of what was written, and of what arrived only then. `Legal` is one
  move that `ResponseEvents` allows a client, and `Script(a, es, b)` says that the events
  `es` take a client from `a` to `b` by such moves. `Agrees(c, st)` is what a client must
  have when everything was written that the state `st` of the converter stands for: every
  output index below the counter is taken once, and each item holds what its deltas spelled
  so far. `StreamInv` says that the events still waiting lead the client there, or, while a
  stream is finished, to its end. `ConsumeGood` carries this through a chunk: `FoldOfCalls`
  unfolds the community modules' `FoldLeft` for `AddToolCall`. `FinishLegal` shows that the
  closing events are legal: `ToolsListed` says that the calls sorted by index list every call
  once, and `SortedByIndex` that the outputs, sorted, stand at their output indexes.
- *Stream and answer in one piece* (`ResponsesProofs`): `StreamTellsAll`, for any chunks and
  any number of them, and `ResponsesTyped`, the type invariant of the layer.
  `Spells(st, chunks)` says that the state of the converter holds what the chunks spell so
  far: the text, the reason, and for each index the name, the arguments and the last
  identifier. A chunk carries it on by one `Append` to the deltas (`CallSpelled`), since
  what a sequence spells for an index is a concatenation that one more delta extends at the
  end. `Matches(b)` says that a client in state `b` was told the status and the items of
  `Buffered(Completion(heard))`; its items are in the order in which they began, those of
  the answer in one piece begin with the message, so the two are related by an injection.
  `TellInv` joins these to the types: while a stream is finished, the waiting events lead to
  a client that `Matches`.
- *Requests* (`ResponsesProofs`): `ConversionHolds`, for any items and any number of them.
  The three conjuncts of the property hold only at the end. `Gathered(list, ms, cs)` is what
  holds after each item: the messages built and the calls still pending together tell what
  the items asked for, and calls are pending exactly when the last item that is not
  reasoning was a call. The flush turns the pending calls into one message without changing
  what is told; `Normalize` moves the system texts in front, which the property reads apart
  from the rest.
- *All of these beside each other* (`AdministrationProofs`): `AdministrationTypeCorrect`. A
  step of one component leaves the variables of the others alone, so every behaviour of
  `MCAdministration` is one of each component (`ComponentsFollow`), and their type
  invariants join to `TypesOK`.

The provers take no induction over data as a rule of inference. `LeastNumber`, which follows
from the well-foundedness of `<`, takes its place: `Climb` states the induction for a set of
numbers instead of an operator, `SeqClimb` the one over sequences for a set of sequences,
and other lemmas argue about a least counterexample.

Every invariant and action property that a passing run checks is stated by a theorem, some of
them under the hypotheses named above. Only model-checked are the liveness properties
`ClaimsEnd`, `FilesGo`, `SyncingEnds`, `DueIsSynced` and `PollsRelease`, because TLAPS does
not reason about fairness.

## 6. Where documents and code disagree

Each has a run that ends in a counterexample.

- `RouterLiteReturns`: README.md:45 says that Fill switches only when the account became
  unusable. A DeepSeek key on a usable Pro account is moved as soon as a Lite account is
  usable again, because the candidates are cut down before the binding is looked up
  (`models.go:196`).
- `RouterOverlapPersist`: README.md:45 says the binding is persisted. Two overlapping
  requests of one key can save in the opposite order of the choice (`models.go:232`), and
  the router and the row then disagree until the next change of the binding.
- `UsageTimestamps`: `audit_cleanup_test.go:98` fails if the table still contains deleted
  records. The table compares timestamps as text without trailing zeros
  (`store_sqlite.go:428`), so a record can leave the memory, stay in the table and come back
  with a restart.
- `UsageLoss`: README.md:148 says that all runtime state, including the latest request records,
  is stored in the database. By the same comparison (`store_sqlite.go:428`) a clean-up removes
  the row of a record that is younger than its cutoff when the text of the record's time is
  longer: memory keeps the record, and the next start has lost it.
- `RouterGhosts`: README.md:45 says that Fill keys share an account only when there are not
  enough eligible ones, and README.md:46 that round robin uses no bindings. The binding of a
  key that was switched to round robin stays in memory and in the row and is counted
  (`models.go:214`), so a third key shares an account while another is held by no Fill key. A
  request in flight while its key is deleted leaves such a binding too (`models.go:231`).
- `MigrationUnread`: README.md:148 says that legacy files are migrated and removed only after
  the commit. A file put beside a database that was migrated into before is removed unread
  (`store_sqlite.go:155`).

What the models show of the code's behaviour where no document says otherwise, and what the
properties therefore leave out:

- Retry-After is computed for the limit of the rejected request; if the limit was lowered
  below the requests of the window, one wait is not enough (`api_key_limiter.go:56`);
- with two administrators at once the older of two schedules may stay installed
  (`plan_claim.go:88`); `InstalledIsStored` holds when they act one at a time;
- a login that finds a claim in progress leaves the account in "error" (`oauth.go:207`);
- when the broker rotates tokens, of two concurrent refreshes the later one is refused; if it
  belongs to a request the account is disabled although the other one renewed it
  (`oauth.go:230`, `proxy.go:223`);
- a client that leaves during the refresh cancels it, and the replaced token is lost
  (`oauth.go:243`): the `lost` tokens of `RefreshTokenUsable`;
- a synchronisation shows a paused account as "active" (`codingplan.go:126`), though it stays
  disabled; enabling an account with status "error" does not make it routable before the next
  synchronisation;
- an import whose save fails leaves "syncing" in memory; `SyncingEnds` excepts failed saves;
- a chat stream whose body ends without `[DONE]` or a finish reason is announced as completed
  (`responses_compat.go:535`), and a call whose identifier or name arrives late is announced
  without it and closed with it;
- a reload that read the file before a settings request replaced it installs the old
  configuration after the request was confirmed (`config.go:334`), until the next tick; a
  settings request that takes its snapshot in that second writes the old values back for
  good. Overlapping settings requests lose fields (`settings.go:78`), and a reload that has
  to normalise an edited file overwrites a concurrent update. `OneReloadAgrees` therefore
  speaks of a reload that nothing disturbs;
- where the rename of the new file fails, the old file is removed first (`config.go:507`). If
  the process ends then, or a start fails there, the next start generates a new key, and the
  stored credentials cannot be decrypted: the `keyGone` of `CredentialsReadable`;
- the login limit counts in windows that begin with a failure and is checked before the
  password, so a span as long as a window may hold up to 2(Limit - 1 + N) - 1 failures, N
  logins being in flight (`auth.go:130`);
- a record that is removed while the pages of the audit list are read hides the next one from
  the reader (`api.go:700`); the dashboard's totals count requests of up to a minute after its
  clock reading (`api.go:809`), which no bar of its trend shows;
- sessions survive a change of the administrator's password;
- an alias whose model is no longer offered is invisible to the comparison of names, so a
  synchronisation can make names ambiguous, and so can overlapping requests; the router then
  takes whichever model is sorted first (`models.go:152`). A setting stored after an
  overlapping deletion brings a manual model back;
- the retry interval of the quota refresh is counted from the tick, which may be as old as
  the last round was long (`quota_refresh.go:83`); a round waits for every account
  (`quota_refresh.go:113`), so a slow one delays the others, though not for ever;
- a session that expires while a poll finishes it is reported as expired although the
  account is stored; a login whose token was taken and not stored has to be started again
  (`oauth.go:155`);
- a caller who leaves cancels the check for a release, and the failure is cached for
  everybody; the mutex is held during the request (`update.go`);
- an answer converted in one piece is not checked for a failed write (`proxy.go:512`), so
  `AuditTellsTheEnd` speaks of streams only. Of a stream the audit record tells what was
  written: `event` sees the error of `Fprintf` into a buffered writer and drops what becomes of
  `Flush` (`responses_compat.go:737`), so a client that lost the last events may leave a record
  without an error.

## 7. What is not modelled

- *Stateless parts.* The protocol probe and the user-agent check are outgoing calls whose
  results are displayed or returned; the web interface presents the API's answers.
- *Data that no property depends on.* Headers, signing, the system prompt, the rewriting of
  native streams, content parts, tools and text formats of the Responses conversion, the
  hash of a password, the encryption itself, the SQL schema, the attributes and the enabled
  flag of models, the rates and distributions of the dashboard, the detail of one record.
- *Wiring.* Of `main.go` the start and the shutdown as `PlanClaims` and `LegacyMigration`
  need them.
- *Compositions.* A request through authentication, limiter, router and proxy in one
  specification is planned (section 2). So far each component is checked against everything
  that the others may do to it: the proxy against all changes of accounts, the router
  against all changes of keys, accounts and settings.

`PROJECT.json` lists the parts under "components", and under "hazards" the places that no
property covers, with the reason.
