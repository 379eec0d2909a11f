---------------------------- MODULE ModelRouter ----------------------------
(***************************************************************************)
(* Routing of proxied requests to upstream accounts: ModelRouter in        *)
(* models.go, with the API-key rows of the Store it reads and writes.      *)
(*                                                                         *)
(* One upstream model is modelled.  ModelRouter keys bindings, the         *)
(* rotation counter and the assignments it reads by the upstream name, so  *)
(* two models share no routing state; Family says which plan rule applies. *)
(*                                                                         *)
(* A request is a goroutine.  Its atomic steps are the critical sections   *)
(* of the code: authentication (Store lock), the reading of the accounts   *)
(* (Store lock), the reading of the assignments (Store lock), the choice   *)
(* (ModelRouter lock), the saving of the binding (Store lock).             *)
(***************************************************************************)
EXTENDS Integers, FiniteSets, Sequences

CONSTANTS
  Keys,        \* identifiers of API keys; an identifier is never reissued
  Accounts,    \* upstream accounts
  Requests,    \* slots for requests in flight
  Reasons,     \* why an account may be skipped: "disabled", "status", "quota", "unavailable"
  Created,     \* Created[a]: position of the account in creation order
  Tier,        \* Tier[a]: "lite", "pro" or "max", the plan of the account
  Family,      \* "deepseek", "glm" or "other", the family of the model
  Deletable,   \* the keys that an administrator may delete
  Strategies,  \* routing strategies an administrator uses
  Cycle,       \* next is kept modulo Cycle, a common multiple of 1 .. |Accounts|
  MaxErr,      \* cap of the ConsecutiveErr counter
  MaxFailures, \* number of Store saves that may fail
  MaxRestarts, \* number of times the process may be killed and restarted
  SerialKeys,  \* TRUE: a key has at most one request in flight
  NoAccount, NoKey

ASSUME RouterConstants ==
  /\ IsFiniteSet(Accounts) /\ Accounts # {}
  /\ NoAccount \notin Accounts
  /\ Created \in [Accounts -> Nat]
  /\ Tier \in [Accounts -> {"lite", "pro", "max"}]
  /\ Family \in {"deepseek", "glm", "other"}
  /\ Deletable \subseteq Keys
  /\ Strategies \subseteq {"fill", "round_robin"}
  /\ Cycle \in Nat \ {0}
  /\ \A n \in 1 .. Cardinality(Accounts) : Cycle % n = 0
  /\ MaxErr \in Nat /\ MaxFailures \in Nat /\ MaxRestarts \in Nat
  /\ SerialKeys \in BOOLEAN
  /\ NoKey \notin [binding : Accounts \cup {NoAccount}, strategy : Strategies]

VARIABLES
  blocked,   \* blocked[a]: the reasons for which a is skipped now
  errs,      \* errs[a]: ConsecutiveErr of the account
  stored,    \* stored[k]: the key's row in the memory of the Store, NoKey without one
  disk,      \* disk[k]: the row in SQLite
  issued,    \* the keys created so far
  bindings,  \* ModelRouter.bindings for this model
  next,      \* ModelRouter.next for this model
  req,       \* req[q]: local state of the request
  forgetting,\* deleted keys whose HandleDeleteKey has not yet called ForgetAPIKeyRoutes
  failures, restarts,
  lastRoute, \* history: the last account a request of k was routed to
  refused    \* history: the accounts that request q found unusable when it read them

rvars == <<bindings, next>>
svars == <<stored, disk, issued, forgetting, failures>>
evars == <<blocked, errs>>
hvars == <<lastRoute, refused>>
vars == <<blocked, errs, stored, disk, issued, bindings, next, req, forgetting,
          failures, restarts, lastRoute, refused>>

MaybeAccount == Accounts \cup {NoAccount}
KeyRow == [binding : MaybeAccount, strategy : Strategies]

Idle == [pc |-> "idle"]
Live == {k \in Keys : stored[k] # NoKey}

(***************************************************************************)
(* The candidates of a model                                               *)
(***************************************************************************)
\* Definitions named Wrong... are plausible defects of the definition they precede;
\* they are not part of the specification.
WrongEligible == {a \in Accounts : blocked[a] = {}}

\* accountEligibleForModel, with the filters of ResolveWithStrategy on
\* Enabled, Status, quotaExhausted and PlanAvailable summed up in blocked.
Eligible ==
  {a \in Accounts : blocked[a] = {} /\ (Family = "glm" => Tier[a] \in {"pro", "max"})}

\* prioritizeModelCandidates
Prioritized(S) ==
  LET lite == {a \in S : Tier[a] = "lite"}
  IN  IF Family = "deepseek" /\ lite # {} THEN lite ELSE S

NoCandidate == Prioritized(Eligible) = {}

Offered(c) == {c[i] : i \in DOMAIN c}

\* sort.SliceStable by ConsecutiveErr of accounts listed in creation order
Before(a, b) ==
  \/ errs[a] < errs[b]
  \/ errs[a] = errs[b] /\ Created[a] < Created[b]
Sorted(S) ==
  {c \in [1 .. Cardinality(S) -> S] :
     /\ Offered(c) = S
     /\ \A i, j \in DOMAIN c : i < j => Before(c[i], c[j])}

(***************************************************************************)
(* The choice among the candidates                                         *)
(***************************************************************************)
\* The assignments read from the Store, overlaid with the bindings in memory
\* and without the requesting key's own.
Assignments(q) ==
  [k \in Keys |-> IF k = req[q].key THEN NoAccount
                  ELSE IF bindings[k] # NoAccount THEN bindings[k]
                  ELSE req[q].assigned[k]]

WrongLeastUsed(c, f) == DOMAIN c

\* leastUsedCandidateIndex: the indices of the candidates with fewest assignments
Count(f, a) == Cardinality({k \in Keys : f[k] = a})
LeastUsed(c, f) ==
  {i \in DOMAIN c : \A j \in DOMAIN c : Count(f, c[i]) <= Count(f, c[j])}
IsNth(I, i, n) == i \in I /\ Cardinality({j \in I : j < i}) = n

WrongBoundAfterRestart(q) == bindings[req[q].key]
WrongBoundByCopy(q) ==
  IF req[q].snapshot # NoAccount THEN req[q].snapshot ELSE bindings[req[q].key]

\* The account the key is bound to as the request sees it: the router's own
\* binding, and the one in the authenticated copy of the key without it.
Bound(q) ==
  IF bindings[req[q].key] # NoAccount THEN bindings[req[q].key] ELSE req[q].snapshot

-----------------------------------------------------------------------------
Init ==
  /\ blocked = [a \in Accounts |-> {}]
  /\ errs = [a \in Accounts |-> 0]
  /\ stored = [k \in Keys |-> NoKey]
  /\ disk = stored
  /\ issued = {}
  /\ bindings = [k \in Keys |-> NoAccount]
  /\ next = 0
  /\ req = [q \in Requests |-> Idle]
  /\ forgetting = {}
  /\ failures = 0 /\ restarts = 0
  /\ lastRoute = [k \in Keys |-> NoAccount]
  /\ refused = [q \in Requests |-> {}]

\* saveLocked after the memory has become m: the whole core state is written in
\* one transaction, or nothing is and the memory keeps the change.
Save(m, failed) ==
  /\ stored' = m
  /\ IF failed THEN failures < MaxFailures /\ failures' = failures + 1 /\ disk' = disk
     ELSE failures' = failures /\ disk' = m

(***************************************************************************)
(* The administrator, the accounts and the process                         *)
(***************************************************************************)
\* Accounts are disabled, fail, run out of quota, are synchronised and recover.
AccountChanges(a, r) ==
  /\ blocked' = [blocked EXCEPT ![a] = IF r \in @ THEN @ \ {r} ELSE @ \cup {r}]
  /\ UNCHANGED <<errs, svars, rvars, req, restarts, hvars>>

CreateKey(k, s, failed) ==
  /\ k \notin issued
  /\ issued' = issued \cup {k}
  /\ Save([stored EXCEPT ![k] = [binding |-> NoAccount, strategy |-> s]], failed)
  /\ UNCHANGED <<evars, rvars, req, forgetting, restarts, hvars>>

\* HandleUpdateKey changes the strategy and keeps the bindings.
UpdateKeyStrategy(k, s, failed) ==
  /\ k \in Live
  /\ stored[k].strategy # s
  /\ Save([stored EXCEPT ![k].strategy = s], failed)
  /\ UNCHANGED <<evars, rvars, issued, req, forgetting, restarts, hvars>>

\* HandleDeleteKey: the row first; the router forgets the key in a later step,
\* and not at all when the save failed.
DeleteKey(k, failed) ==
  /\ k \in Live \cap Deletable
  /\ Save([stored EXCEPT ![k] = NoKey], failed)
  /\ forgetting' = IF failed THEN forgetting ELSE forgetting \cup {k}
  /\ UNCHANGED <<evars, rvars, issued, req, restarts, hvars>>

ForgetAPIKeyRoutes(k) ==
  /\ k \in forgetting
  /\ forgetting' = forgetting \ {k}
  /\ bindings' = [bindings EXCEPT ![k] = NoAccount]
  /\ UNCHANGED <<evars, stored, disk, issued, failures, next, req, restarts, hvars>>

\* Any other successful save of the Store writes the core state as it is in memory.
OtherSave ==
  /\ disk # stored
  /\ Save(stored, FALSE)
  /\ UNCHANGED <<evars, rvars, issued, req, forgetting, restarts, hvars>>

\* The process dies and loadSQLite reads the rows back; the router starts empty.
Restart ==
  /\ restarts < MaxRestarts
  /\ restarts' = restarts + 1
  /\ stored' = disk
  /\ bindings' = [k \in Keys |-> NoAccount]
  /\ next' = 0
  /\ req' = [q \in Requests |-> Idle]
  /\ refused' = [q \in Requests |-> {}]
  /\ forgetting' = {}
  /\ UNCHANGED <<evars, disk, issued, failures, lastRoute>>

(***************************************************************************)
(* A request                                                               *)
(***************************************************************************)
\* AuthenticateAPIKey hands the request a copy of the key.
Authenticate(q, k) ==
  /\ req[q] = Idle
  /\ k \in Live
  /\ SerialKeys => \A p \in Requests : req[p] # Idle => req[p].key # k
  /\ req' = [req EXCEPT ![q] = [pc |-> "read", key |-> k, snapshot |-> stored[k].binding,
                                strategy |-> stored[k].strategy]]
  /\ UNCHANGED <<evars, svars, rvars, restarts, hvars>>

\* ResolveWithStrategy reads the accounts; without a candidate the request ends.
\* A round-robin request takes any candidate.
ReadAccounts(q) ==
  /\ req[q].pc = "read"
  /\ refused' = [refused EXCEPT ![q] = IF NoCandidate THEN {} ELSE Accounts \ Eligible]
  /\ \/ /\ NoCandidate
        /\ req' = [req EXCEPT ![q] = Idle]
     \/ /\ ~NoCandidate
        /\ req[q].strategy = "fill"
        /\ \E c \in Sorted(Prioritized(Eligible)) :
             req' = [req EXCEPT ![q] = [pc |-> "list", key |-> req[q].key,
                                        snapshot |-> req[q].snapshot, cands |-> c]]
     \/ /\ ~NoCandidate
        /\ req[q].strategy = "round_robin"
        /\ \E a \in Prioritized(Eligible) :
             req' = [req EXCEPT ![q] = [pc |-> "routed", key |-> req[q].key, account |-> a]]
  /\ UNCHANGED <<evars, svars, rvars, restarts, lastRoute>>

\* APIKeyRouteAssignments, before r.mu is taken
StoredAssignments == [k \in Keys |-> IF k \in Live THEN stored[k].binding ELSE NoAccount]
ReadAssignments(q) ==
  /\ req[q].pc = "list"
  /\ req' = [req EXCEPT ![q] =
       [pc |-> "choose", key |-> req[q].key, snapshot |-> req[q].snapshot, cands |-> req[q].cands,
        assigned |-> StoredAssignments]]
  /\ UNCHANGED <<evars, svars, rvars, restarts, hvars>>

\* The critical section of r.mu: the binding is kept, or a least used candidate
\* takes its place.
Route(q, a, persist) ==
  /\ bindings' = [bindings EXCEPT ![req[q].key] = a]
  /\ req' = [req EXCEPT ![q] = [pc |-> IF persist THEN "persist" ELSE "routed",
                                key |-> req[q].key, account |-> a]]
Returns(q, a) == lastRoute' = [lastRoute EXCEPT ![req[q].key] = a]
KeepBinding(q) ==
  /\ req[q].pc = "choose"
  /\ Bound(q) \in Offered(req[q].cands)
  /\ Route(q, Bound(q), FALSE)
  /\ Returns(q, Bound(q))
  /\ UNCHANGED <<evars, svars, next, restarts, refused>>
Assign(q) ==
  /\ req[q].pc = "choose"
  /\ Bound(q) \notin Offered(req[q].cands)
  /\ LET c == req[q].cands
         ties == LeastUsed(c, Assignments(q))
     IN  \E i \in DOMAIN c :
           /\ IsNth(ties, i, next % Cardinality(ties))
           /\ Route(q, c[i], TRUE)
  /\ next' = (next + 1) % Cycle
  /\ UNCHANGED <<evars, svars, restarts, hvars>>

WrongRebinds(k, a) == k \in Live /\ stored[k].binding = NoAccount
Rebinds(k, a) == k \in Live /\ stored[k].binding # a

\* SetAPIKeyRouteBinding, after r.mu is released.  Its error is dropped: neither
\* a deleted key nor a failed save changes what the request does.
Persist(q, failed) ==
  /\ req[q].pc = "persist"
  /\ LET k == req[q].key
         a == req[q].account
     IN  IF Rebinds(k, a)
         THEN Save([stored EXCEPT ![k].binding = a], failed)
         ELSE ~failed /\ UNCHANGED <<stored, disk, failures>>
  /\ req' = [req EXCEPT ![q].pc = "routed"]
  /\ Returns(q, req[q].account)
  /\ UNCHANGED <<evars, rvars, issued, forgetting, restarts, refused>>

\* The route is used, and RecordUsage counts its outcome and saves the core state.
Finish(q, ok, failed) ==
  /\ req[q].pc = "routed"
  /\ errs' = [errs EXCEPT ![req[q].account] =
                IF ok THEN 0 ELSE IF @ < MaxErr THEN @ + 1 ELSE @]
  /\ Save(stored, failed)
  /\ req' = [req EXCEPT ![q] = Idle]
  /\ refused' = [refused EXCEPT ![q] = {}]
  /\ UNCHANGED <<blocked, issued, rvars, forgetting, restarts, lastRoute>>

RequestStep(q) ==
  \/ \E k \in Keys : Authenticate(q, k)
  \/ ReadAccounts(q)
  \/ ReadAssignments(q)
  \/ KeepBinding(q)
  \/ Assign(q)
  \/ \E failed \in BOOLEAN : Persist(q, failed)
  \/ \E ok, failed \in BOOLEAN : Finish(q, ok, failed)

AdminStep(k) ==
  \/ \E s \in Strategies, failed \in BOOLEAN : CreateKey(k, s, failed) \/ UpdateKeyStrategy(k, s, failed)
  \/ \E failed \in BOOLEAN : DeleteKey(k, failed)
  \/ ForgetAPIKeyRoutes(k)

Next ==
  \/ \E q \in Requests : RequestStep(q)
  \/ \E k \in Keys : AdminStep(k)
  \/ \E a \in Accounts, r \in Reasons : AccountChanges(a, r)
  \/ OtherSave
  \/ Restart

Spec == Init /\ [][Next]_vars

-----------------------------------------------------------------------------
(***************************************************************************)
(* Properties                                                              *)
(***************************************************************************)
Request ==
  {Idle}
    \cup [pc : {"read"}, key : Keys, snapshot : MaybeAccount, strategy : Strategies]
    \cup [pc : {"list"}, key : Keys, snapshot : MaybeAccount, cands : Seq(Accounts)]
    \cup [pc : {"choose"}, key : Keys, snapshot : MaybeAccount, cands : Seq(Accounts),
          assigned : [Keys -> MaybeAccount]]
    \cup [pc : {"persist", "routed"}, key : Keys, account : Accounts]

\* The types of the variables; a request waiting for r.mu always has a candidate
\* to index, so that leastUsedCandidateIndex never divides by an empty list.
TypeOK ==
  /\ blocked \in [Accounts -> SUBSET Reasons]
  /\ errs \in [Accounts -> 0 .. MaxErr]
  /\ stored \in [Keys -> KeyRow \cup {NoKey}]
  /\ disk \in [Keys -> KeyRow \cup {NoKey}]
  /\ issued \subseteq Keys /\ forgetting \subseteq Keys
  /\ bindings \in [Keys -> MaybeAccount]
  /\ next \in 0 .. Cycle - 1
  /\ req \in [Requests -> Request]
  /\ \A q \in Requests : req[q].pc \in {"list", "choose"} => DOMAIN req[q].cands # {}
  /\ failures \in 0 .. MaxFailures /\ restarts \in 0 .. MaxRestarts
  /\ lastRoute \in [Keys -> MaybeAccount]
  /\ refused \in [Requests -> SUBSET Accounts]

\* The account that a key holds: by the router's memory, else by its row.
Held(k) ==
  IF bindings[k] # NoAccount THEN bindings[k]
  ELSE IF k \in Live THEN stored[k].binding ELSE NoAccount

\* Fill moves a key off its account only when the request that moves it had found
\* that account unusable, whatever other requests did to the binding and however
\* often the process was restarted in between (ResolveWithStrategy, fill branch).
\* README.md:45 promises this; it is a property of requests made one at a time.
FillSticky ==
  [][\A k \in Keys :
       lastRoute[k] # NoAccount /\ lastRoute'[k] # lastRoute[k] =>
         \E q \in Requests : req[q] # Idle /\ req[q].key = k /\ lastRoute[k] \in refused[q]]_vars

\* The router never moves a binding that it holds in memory on the word of a stale
\* copy of the key: the request that moves it had read accounts without the old one.
\* Requests of one key may overlap here.
BindingSticky ==
  [][\A k \in Keys :
       bindings[k] # NoAccount /\ bindings'[k] \notin {bindings[k], NoAccount} =>
         \E q \in Requests : req[q] # Idle /\ req[q].key = k /\ bindings[k] \in refused[q]]_vars

\* When no request of a live key is in flight, the binding the router uses is the
\* one the Store would give it back after a restart (README.md:45, "persists the binding").
BindingPersisted ==
  \A k \in Live :
    bindings[k] # NoAccount /\ (\A q \in Requests : req[q] # Idle => req[q].key # k) =>
      stored[k].binding = bindings[k] /\ disk[k] # NoKey /\ disk[k].binding = bindings[k]

\* The keys that hold accounts by README.md:45 and 46: the fill keys that exist.
Holders(k) == {j \in Live \ {k} : stored[j].strategy = "fill"}
HeldByOthers(q) == {Held(j) : j \in Holders(req[q].key)}

\* What leastUsedCandidateIndex counts besides them: the bindings of keys that were
\* switched to round robin, or were deleted while a request of theirs was in flight or
\* after the assignments were read (models.go:201-219; nothing filters on the strategy).
Ghosts(q) ==
  LET others == (Keys \ {req[q].key}) \ Holders(req[q].key)
  IN  {Held(j) : j \in others} \cup {req[q].assigned[j] : j \in others \ Live}

Assigned(q) == req[q].pc = "choose" /\ req'[q].pc = "persist"
Shares(q) == Assigned(q) /\ req'[q].account \in HeldByOthers(q)

\* README.md:45 and 46: different keys are assigned different accounts when possible, and
\* share one only when there are not enough eligible accounts; round robin does not use
\* bindings, so an account that no fill key holds is free.
SharesOnlyWhenFull ==
  [][\A q \in Requests : Shares(q) => Offered(req[q].cands) \subseteq HeldByOthers(q)]_vars

\* What the code keeps of that promise: a key is given an account of another fill key only
\* when each candidate is held by a fill key or counted for a ghost.
SharesOnlyForGhosts ==
  [][\A q \in Requests : Shares(q) =>
       Offered(req[q].cands) \subseteq HeldByOthers(q) \cup Ghosts(q)]_vars

\* The plan rules of README.md:48: a DeepSeek request leaves the Lite accounts only
\* when it found none of them usable, and a GLM request never reaches a Lite account,
\* bound or not.
Permitted(q, a) ==
  /\ Family = "glm" => Tier[a] # "lite"
  /\ Family = "deepseek" =>
       Tier[a] = "lite" \/ \A b \in Accounts : Tier[b] = "lite" => b \in refused[q]
PlanRule ==
  \A q \in Requests :
    req[q].pc \in {"persist", "routed"} => Permitted(q, req[q].account)

=============================================================================
