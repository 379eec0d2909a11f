--------------------------- MODULE ProxyRequest ---------------------------
(***************************************************************************)
(* A proxied request from its arrival to its audit record                  *)
(* (Proxy.HandleRequest in proxy.go), over the accounts of Accounts.       *)
(*                                                                         *)
(* The router chose the account; the request refreshes its token, calls    *)
(* the upstream, and again while the upstream answers with a status of the *)
(* configured list and retries are left, disables the account when its     *)
(* credentials are refused, and forwards the last answer.  The bodies and  *)
(* their conversion are not modelled.                                      *)
(***************************************************************************)
EXTENDS Accounts

CONSTANT MaxRetries \* the largest request_retry_count that is configured

ASSUME RetryConstants == MaxRetries \in Nat

\* What a call can come to: no response, 401 or 403, a status of the configured list, any
\* other status.
Outcomes == {"error", "auth", "listed", "other"}

\* Tokens belong to one account; those issued before are in the rows.
Init ==
  /\ row \in [Accounts -> {Unused} \cup [enabled : {TRUE}, status : {"active"},
                                         refresh : 0 .. MaxTokens, expiring : BOOLEAN]]
  /\ rotates \in BOOLEAN
  /\ issued \in 0 .. MaxTokens
  /\ 1 .. issued = {row[a].refresh : a \in {b \in Accounts : Exists(b)}} \ {None}
  /\ \A a, b \in Accounts :
       a # b /\ Exists(a) /\ Exists(b) => row[a].refresh # row[b].refresh \/ row[a].refresh = None
  /\ accepted = 1 .. issued /\ lost = {}
  /\ thread = [t \in Threads |-> Idle]
  /\ failures = 0

Routable(a) == Exists(a) /\ row[a].enabled /\ row[a].status = "active"

\* A request is read and routed; limit is the retry count of its configuration snapshot.
\* calls is a history variable: what the calls of the request came to.
Arrive(q) ==
  /\ At(q, "idle")
  /\ \E a \in Accounts, limit \in 0 .. MaxRetries :
       /\ Routable(a)
       /\ Go(q, [pc |-> "refresh", account |-> a, used |-> None, got |-> None, refused |-> FALSE,
                 limit |-> limit, retries |-> 0, attempts |-> <<>>, calls |-> <<>>])
  /\ UNCHANGED <<row, broker, failures>>

\* The payload cannot be prepared for the upstream.
Refuse(q) ==
  /\ At(q, "call")
  /\ thread[q].calls = <<>>
  /\ Go(q, [thread[q] EXCEPT !.pc = "record"])
  /\ UNCHANGED <<row, broker, failures>>

Final(q, outcome) == outcome \in {"auth", "other"} \/ thread[q].retries >= thread[q].limit

After(outcome) ==
  IF outcome = "error" THEN "record" ELSE IF outcome = "auth" THEN "disable" ELSE "forward"

\* The attempts that the audit record holds after one more call
WrongAttempts(q, outcome) ==
  IF Final(q, outcome) THEN thread[q].attempts ELSE Append(thread[q].attempts, outcome)
Attempts(q, outcome) ==
  IF (outcome = "error" \/ Final(q, outcome)) /\ thread[q].retries = 0 THEN <<>>
  ELSE Append(thread[q].attempts, outcome)

\* One pass of the loop; doUpstreamRequest signs and sends the request.
Call(q) ==
  /\ At(q, "call")
  /\ \E outcome \in Outcomes :
       LET called == [thread[q] EXCEPT !.calls = Append(@, outcome),
                                       !.attempts = Attempts(q, outcome)]
       IN \/ /\ outcome = "error" \/ Final(q, outcome)
             /\ Go(q, [called EXCEPT !.pc = After(outcome)])
          \/ /\ outcome # "error" /\ ~Final(q, outcome)
             /\ Go(q, [called EXCEPT !.retries = @ + 1])
  /\ UNCHANGED <<row, broker, failures>>

\* disableAccount changes the account whatever it has become; a failed save is only logged.
Disable(q) ==
  /\ At(q, "disable")
  /\ \/ /\ Exists(Own(q))
        /\ Set(Own(q), [row[Own(q)] EXCEPT !.enabled = FALSE, !.status = "error"])
     \/ ~Exists(Own(q)) /\ UNCHANGED row
  /\ Go(q, [thread[q] EXCEPT !.refused = FALSE,
                             !.pc = IF thread[q].calls = <<>> THEN "record" ELSE "forward"])
  /\ UNCHANGED <<broker, failures>>

\* The deferred call writes the audit record (RecordUsage, see UsageStore): after an error
\* of our own at "record", after the upstream's answer, once the client took it, at "forward".
Record(q) == At(q, "record") /\ Go(q, Idle) /\ UNCHANGED <<row, broker, failures>>
Forward(q) == At(q, "forward") /\ Go(q, Idle) /\ UNCHANGED <<row, broker, failures>>

RequestStep(q) ==
  Arrive(q) \/ RefreshStep(q) \/ Refuse(q) \/ Call(q) \/ Disable(q) \/ Forward(q) \/ Record(q)

Next ==
  \/ AccountStep
  \/ \E q \in Requests : RequestStep(q)

Spec == Init /\ [][Next]_vars
FairSpec == Spec /\ \A t \in Syncs : WF_vars(SyncStep(t))

(***************************************************************************)
(* Properties                                                              *)
(***************************************************************************)
Local == [account : Accounts, used : 0 .. MaxTokens, got : 0 .. MaxTokens, refused : BOOLEAN]
Common(local) == [f \in {"account", "used", "got", "refused"} |-> local[f]]
Points(t) == {"refresh", "broker", "store"} \cup
             IF t \in Requests THEN {"call", "disable", "forward", "record"} ELSE {"fetch", "failed"}

\* Every row and every thread has the shape the code gives it, and only issued tokens exist.
TypeOK ==
  /\ row \in [Accounts -> {Unused, Deleted} \cup Row]
  /\ rotates \in BOOLEAN
  /\ issued \in 0 .. MaxTokens
  /\ accepted \subseteq 1 .. issued /\ lost \subseteq 1 .. issued
  /\ DOMAIN thread = Threads
  /\ \A t \in Threads :
       thread[t] = Idle \/ (thread[t].pc \in Points(t) /\ Common(thread[t]) \in Local)
  /\ failures \in 0 .. MaxFailures

\* However refreshes, imports and logins of one account overlap, the refresh token that its
\* row keeps is one that the broker accepts, unless the one that replaced it is being stored
\* or never arrived.
RefreshTokenUsable ==
  \A a \in Accounts :
    Exists(a) => \/ row[a].refresh \in accepted \cup lost \cup {None}
                 \/ \E t \in Threads : At(t, "store") /\ Own(t) = a

\* When a request writes its audit record, the record tells every call: at most one more
\* than the configured retries, all of them listed statuses but the last, and either one
\* call and no attempts, or an attempt for each call (README: "retains every attempt").
AuditTellsEveryCall ==
  \A q \in Requests : thread[q].pc \in {"record", "forward"} =>
    LET local == thread[q] IN LET n == Len(local.calls) IN
    /\ n <= local.limit + 1
    /\ \A i \in 1 .. n : i < n => local.calls[i] = "listed"
    /\ local.retries = IF n = 0 THEN 0 ELSE n - 1
    /\ local.attempts = IF n > 1 THEN local.calls ELSE <<>>

\* The broker or the upstream refused the credentials of the request.
Refused(q) == thread[q].refused \/ (thread[q].calls # <<>> /\ thread[q].calls[Len(thread[q].calls)] = "auth")

\* An enabled account becomes disabled with an error only by a request whose credentials were
\* refused: no failure that may pass, of the broker, the upstream or a synchronisation, takes
\* an account out (TestProxyOnlyDisablesPermanentOAuthRefreshFailures).
DisabledForCause ==
  [][\A a \in Accounts :
       /\ Exists(a) /\ row[a].enabled
       /\ Exists(a)' /\ ~row'[a].enabled /\ row'[a].status = "error"
       => \E q \in Requests : At(q, "disable") /\ Own(q) = a /\ Refused(q)]_vars

\* No account stays in synchronisation, whoever changes it meanwhile (unless a save failed).
SyncingEnds ==
  \A a \in Accounts :
    []<>(failures > 0 \/ ~(Exists(a) /\ row[a].status = "syncing"))
=============================================================================
