----------------------------- MODULE Accounts -----------------------------
(***************************************************************************)
(* The rows of upstream accounts under everything that changes them while  *)
(* requests are routed: token refresh (OAuthManager.Refresh in oauth.go),  *)
(* synchronisation (codingplan.go), import, login, and the administrator   *)
(* (api.go, store.go).                                                     *)
(*                                                                         *)
(* A thread reads a row, waits for the OAuth broker or the Coding Plan API *)
(* and then changes whatever the row has become.  Access tokens are        *)
(* renewed with the refresh tokens and are not modelled: the upstream may  *)
(* refuse any of them.                                                     *)
(***************************************************************************)
EXTENDS Integers, Sequences

CONSTANTS
  Accounts,    \* identifiers of accounts; an identifier is never reissued
  Requests,    \* slots for proxied requests in flight
  Syncs,       \* slots for the administrator's synchronisations, imports and logins
  Refreshers,  \* slots for automatic refreshes of quotas and scheduled claims
  MaxTokens,   \* bound of the refresh tokens the broker issues
  MaxFailures, \* number of Store saves that may fail
  Unused,      \* no account has had this identifier
  Deleted      \* the account with this identifier was deleted

ASSUME AccountConstants ==
  /\ Requests \cap (Syncs \cup Refreshers) = {} /\ Syncs \cap Refreshers = {}
  /\ Unused # Deleted
  /\ MaxTokens \in Nat \ {0} /\ MaxFailures \in Nat

VARIABLES
  row,      \* row[a]: the account in the memory of the Store
  rotates,  \* TRUE: the broker answers every refresh with a new refresh token
  issued,   \* the number of refresh tokens issued; they are numbered from 1
  accepted, \* the refresh tokens that the broker accepts
  lost,     \* the tokens that were exchanged by an answer that did not arrive
  thread,   \* thread[t]: local state of a request or a synchronisation
  failures

Threads == Requests \cup Syncs \cup Refreshers
broker == <<rotates, issued, accepted, lost>>
vars == <<row, broker, thread, failures>>

None == 0 \* the empty refresh token
Row == [enabled : BOOLEAN, status : {"active", "paused", "error", "syncing"},
        refresh : 0 .. MaxTokens, expiring : BOOLEAN]

Idle == [pc |-> "idle"]
Exists(a) == row[a] \notin {Unused, Deleted}
At(t, pc) == thread[t].pc = pc
Go(t, local) == thread' = [thread EXCEPT ![t] = local]
Own(t) == thread[t].account

\* A save that fails leaves the memory changed.
Saves(ok) == IF ok THEN UNCHANGED failures
             ELSE failures < MaxFailures /\ failures' = failures + 1
Set(a, r) == row' = [row EXCEPT ![a] = r]

(***************************************************************************)
(* OAuthManager.Refresh                                                    *)
(***************************************************************************)
\* What the caller does next.  A request that finds the credentials unavailable disables
\* the account; a synchronisation has failed.
\* Definitions named Wrong... are plausible defects of the definition they precede;
\* they are not part of the specification.
Using(t) == IF t \in Requests THEN "call" ELSE "fetch"
Proceed(t) == Go(t, [thread[t] EXCEPT !.used = None, !.got = None, !.pc = Using(t)])

Failed(t, pc, refused) ==
  [thread[t] EXCEPT !.used = None, !.got = None, !.refused = refused, !.pc = pc]

WrongFails(t, refused) == Failed(t, IF t \in Requests THEN "disable" ELSE "failed", refused)
Fails(t, refused) ==
  Failed(t, IF t \notin Requests THEN "failed" ELSE IF refused THEN "disable" ELSE "record", refused)

\* A token that is not within five minutes of its expiry is used as it is.
ReadToken(t) ==
  /\ At(t, "refresh")
  /\ \/ ~Exists(Own(t)) /\ Go(t, Fails(t, FALSE))
     \/ Exists(Own(t)) /\ ~row[Own(t)].expiring /\ Proceed(t)
     \/ /\ Exists(Own(t)) /\ row[Own(t)].expiring /\ row[Own(t)].refresh = None
        /\ Go(t, Fails(t, TRUE))
     \/ /\ Exists(Own(t)) /\ row[Own(t)].expiring /\ row[Own(t)].refresh # None
        /\ Go(t, [thread[t] EXCEPT !.pc = "broker", !.used = row[Own(t)].refresh])
  /\ UNCHANGED <<row, broker, failures>>

Exchange(t) ==
  /\ rotates
  /\ issued < MaxTokens
  /\ issued' = issued + 1
  /\ accepted' = (accepted \ {thread[t].used}) \cup {issued + 1}

\* The broker accepts the token, and may replace it.
Granted(t) ==
  /\ At(t, "broker")
  /\ thread[t].used \in accepted
  /\ \/ /\ Exchange(t)
        /\ Go(t, [thread[t] EXCEPT !.pc = "store", !.got = issued + 1])
     \/ /\ ~rotates
        /\ Go(t, [thread[t] EXCEPT !.pc = "store", !.got = None])
        /\ UNCHANGED <<issued, accepted>>
  /\ UNCHANGED <<row, rotates, lost, failures>>

\* It refuses the token or answers without an access token, or it does not answer.
NotGranted(t) ==
  /\ At(t, "broker")
  /\ \/ Go(t, Fails(t, TRUE))
     \/ thread[t].used \in accepted /\ Go(t, Fails(t, FALSE))
  /\ UNCHANGED <<row, broker, failures>>

\* It replaces the token, and the client leaves or the connection breaks before the answer.
LoseAnswer(t) ==
  /\ At(t, "broker")
  /\ thread[t].used \in accepted
  /\ Exchange(t)
  /\ lost' = lost \cup {thread[t].used}
  /\ Go(t, Fails(t, FALSE))
  /\ UNCHANGED <<row, rotates, failures>>

WrongKept(t) == thread[t].used
\* The refresh token that Refresh stores: without a new one, the one it used.
Kept(t) == IF thread[t].got = None THEN thread[t].used ELSE thread[t].got

\* UpdateAccountCredentials
StoreToken(t) ==
  /\ At(t, "store")
  /\ \/ /\ Exists(Own(t))
        /\ Set(Own(t), [row[Own(t)] EXCEPT !.refresh = Kept(t), !.expiring = FALSE])
        /\ \E ok \in BOOLEAN :
             /\ Saves(ok)
             /\ IF ok THEN Proceed(t) ELSE Go(t, Fails(t, FALSE))
     \/ ~Exists(Own(t)) /\ Go(t, Fails(t, FALSE)) /\ UNCHANGED <<row, failures>>
  /\ UNCHANGED broker

RefreshStep(t) == ReadToken(t) \/ Granted(t) \/ NotGranted(t) \/ LoseAnswer(t) \/ StoreToken(t)

\* Time passes.
Expire(a) ==
  /\ Exists(a)
  /\ ~row[a].expiring
  /\ Set(a, [row[a] EXCEPT !.expiring = TRUE])
  /\ UNCHANGED <<broker, thread, failures>>

(***************************************************************************)
(* Synchronisation, import and login                                       *)
(***************************************************************************)
Started(a) == [pc |-> "refresh", account |-> a, used |-> None, got |-> None, refused |-> FALSE]

\* HandleAccountSync, or the automatic refresh
Sync(t, a) ==
  /\ At(t, "idle")
  /\ Go(t, Started(a))
  /\ UNCHANGED <<row, broker, failures>>

\* ImportAccountCredentials or UpsertAccount with a grant of its own, for an account that
\* exists or an identifier that is new.  An import without a refresh token keeps the old one.
\* A login first claims the plan, and fails at once when another claim is running.
NewRow(kind, a, token, enabled, expiring) ==
  [enabled |-> enabled, status |-> "syncing", expiring |-> expiring,
   refresh |-> IF token = None /\ kind = "import" /\ Exists(a) THEN row[a].refresh ELSE token]

Connect(t, kind, a) ==
  /\ At(t, "idle")
  /\ row[a] # Deleted
  /\ issued < MaxTokens
  /\ \E token \in {None, issued + 1}, enabled, expiring, ok \in BOOLEAN :
       /\ kind = "login" => enabled /\ ~expiring
       /\ issued' = IF token = None THEN issued ELSE token
       /\ accepted' = accepted \cup ({token} \ {None})
       /\ Set(a, NewRow(kind, a, token, enabled, expiring))
       /\ Saves(ok)
       /\ \/ ok /\ Go(t, Started(a))
          \/ ok /\ kind = "login" /\ Go(t, [Started(a) EXCEPT !.pc = "failed"])
          \/ ~ok /\ UNCHANGED thread
  /\ UNCHANGED <<rotates, lost>>

\* The status, the models and the usage are fetched, with up to three tries each, and stored.
Fetch(t) ==
  /\ At(t, "fetch")
  /\ Exists(Own(t))
  /\ Set(Own(t), [row[Own(t)] EXCEPT !.status = "active"])
  /\ \E ok \in BOOLEAN :
       Saves(ok) /\ Go(t, IF ok THEN Idle ELSE [thread[t] EXCEPT !.pc = "failed"])
  /\ UNCHANGED broker

\* The API refuses the token, fails or does not answer, or the account was deleted.
FetchFails(t) ==
  /\ At(t, "fetch")
  /\ Go(t, [thread[t] EXCEPT !.pc = "failed"])
  /\ UNCHANGED <<row, broker, failures>>

WrongMarks(t) == t \in Syncs /\ row[Own(t)].status = "active"
Marks(t) == t \in Syncs

SyncFailed(t) ==
  /\ At(t, "failed")
  /\ \/ Exists(Own(t)) /\ Marks(t) /\ Set(Own(t), [row[Own(t)] EXCEPT !.status = "error"])
     \/ ~(Exists(Own(t)) /\ Marks(t)) /\ UNCHANGED row
  /\ Go(t, Idle)
  /\ UNCHANGED <<broker, failures>>

SyncStep(t) == RefreshStep(t) \/ Fetch(t) \/ FetchFails(t) \/ SyncFailed(t)

(***************************************************************************)
(* The administrator                                                       *)
(***************************************************************************)
HandleAccountUpdate(a, enabled) ==
  /\ Exists(a)
  /\ Set(a, [row[a] EXCEPT !.enabled = enabled,
                           !.status = IF ~enabled THEN "paused"
                                      ELSE IF @ = "paused" THEN "active" ELSE @])
  /\ UNCHANGED <<broker, thread, failures>>

HandleAccountDelete(a) ==
  /\ Exists(a)
  /\ Set(a, Deleted)
  /\ UNCHANGED <<broker, thread, failures>>

DeleteErrorAccounts ==
  /\ row' = [a \in Accounts |-> IF Exists(a) /\ row[a].status = "error" THEN Deleted ELSE row[a]]
  /\ UNCHANGED <<broker, thread, failures>>

AccountStep ==
  \/ \E a \in Accounts :
       \/ Expire(a)
       \/ \E enabled \in BOOLEAN : HandleAccountUpdate(a, enabled)
       \/ HandleAccountDelete(a)
  \/ DeleteErrorAccounts
  \/ \E t \in Syncs \cup Refreshers :
       SyncStep(t) \/ \E a \in Accounts : Sync(t, a)
  \/ \E t \in Syncs, kind \in {"import", "login"}, a \in Accounts : Connect(t, kind, a)
=============================================================================
