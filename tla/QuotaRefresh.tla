---------------------------- MODULE QuotaRefresh ----------------------------
(***************************************************************************)
(* The loop that synchronises an account once its quota was reset:         *)
(* QuotaRefreshService in quota_refresh.go.                                *)
(*                                                                         *)
(* One goroutine takes a tick, starts a synchronisation for every account  *)
(* that is due and waits for all of them.  The ticker keeps one tick and   *)
(* drops the others, so the tick taken after a slow round is old, and the  *)
(* loop decides by the time of the tick.                                   *)
(*                                                                         *)
(* Times are counted from now: a deadline that has passed is negative, and *)
(* a tick has an age.  Deadlines are not counted beyond -MaxRound, since   *)
(* no tick is older.                                                       *)
(***************************************************************************)
EXTENDS Integers

CONSTANTS
  Watched,   \* the accounts of the Store
  Resets,    \* resets of quotas, each with a deadline; the reset key of the code
  NoReset,   \* the account has no quota window with a known reset
  NoAccount, \* the account does not exist
  Retry,     \* quotaRefreshRetryInterval, in polls
  MaxRound,  \* bound of the duration of a round, which Sync's time-outs give
  Horizon    \* how far ahead a deadline may lie

ASSUME RefreshConstants ==
  /\ NoReset \notin Resets /\ NoAccount \notin Resets \cup {NoReset}
  /\ Retry \in Nat \ {0} /\ MaxRound \in Nat \ {0} /\ Horizon \in Nat

VARIABLES
  deadline, \* deadline[r]: the time until reset r and quotaRefreshDelay have passed
  plan,     \* plan[a]: the reset that the row of account a names, if there is one
  attempt,  \* attempt[a]: the reset last tried for a, and the time until it is tried again
  tick,     \* the age of the tick in the channel, or -1
  syncing,  \* the accounts that the present round synchronises
  loop      \* "wait", "round" or "ended"

refreshVars == <<deadline, plan, attempt, tick, syncing, loop>>

Deadlines == -MaxRound .. Horizon
Plans == Resets \cup {NoReset, NoAccount}
NoAttempt == [reset |-> NoReset, again |-> 0]

RefreshInit ==
  /\ deadline \in [Resets -> Deadlines]
  /\ plan \in [Watched -> Plans]
  /\ attempt = [a \in Watched |-> NoAttempt]
  /\ tick = 0
  /\ syncing = {}
  /\ loop = "wait"

Sooner(n) == IF n > -MaxRound THEN n - 1 ELSE n

\* One poll interval passes; a tick that nobody took stays in the channel.
Second ==
  /\ tick < MaxRound
  /\ tick' = tick + 1
  /\ deadline' = [r \in Resets |-> Sooner(deadline[r])]
  /\ attempt' = [a \in Watched |-> [attempt[a] EXCEPT !.again = Sooner(@)]]
  /\ UNCHANGED <<plan, syncing, loop>>

(***************************************************************************)
(* refreshDue                                                              *)
(***************************************************************************)
\* now.Before(t) for a tick of the present age
NotYet(t) == t > -tick

DueAt(a) == plan[a] \in Resets /\ ~NotYet(deadline[plan[a]])

WrongTriedLately(a) == attempt[a].reset = plan[a]
TriedLately(a) == attempt[a].reset = plan[a] /\ NotYet(attempt[a].again)

\* The accounts are read in one snapshot; only this goroutine touches the attempts, and
\* drops those of accounts that are gone.
RefreshDue ==
  /\ loop = "wait" /\ tick >= 0
  /\ LET now == {a \in Watched : DueAt(a) /\ ~TriedLately(a)} IN
       /\ syncing' = now
       /\ attempt' = [a \in Watched |->
                        CASE a \in now -> [reset |-> plan[a], again |-> Retry - tick]
                          [] plan[a] = NoAccount -> NoAttempt
                          [] OTHER -> attempt[a]]
  /\ tick' = -1
  /\ loop' = "round"
  /\ UNCHANGED <<deadline, plan>>

\* refreshes.Wait
RoundEnds ==
  /\ loop = "round" /\ syncing = {}
  /\ loop' = "wait"
  /\ UNCHANGED <<deadline, plan, attempt, tick, syncing>>

(***************************************************************************)
(* What the accounts' rows become                                          *)
(***************************************************************************)
\* A reset that no row and no attempt names may stand for any new one.
Named == {plan[a] : a \in Watched} \cup {attempt[a].reset : a \in Watched}

PlanBecomes(a, plans) ==
  \E r \in plans :
    /\ plan' = [plan EXCEPT ![a] = r]
    /\ \/ UNCHANGED deadline
       \/ /\ r \in Resets \ Named
          /\ \E d \in 0 .. Horizon : deadline' = [deadline EXCEPT ![r] = d]

\* Sync succeeds, and the row names what the upstream answers, or it fails, as it does
\* for an account that was deleted meanwhile.
SyncEnds(a) ==
  /\ a \in syncing
  /\ syncing' = syncing \ {a}
  /\ \/ plan[a] # NoAccount /\ PlanBecomes(a, Plans \ {NoAccount})
     \/ UNCHANGED <<plan, deadline>>
  /\ UNCHANGED <<attempt, tick, loop>>

\* The administrator synchronises the account, deletes it or adds it again.
OthersSync(a) ==
  /\ PlanBecomes(a, Plans)
  /\ UNCHANGED <<attempt, tick, syncing, loop>>

\* Close cancels the context of the synchronisations and waits for the round.
CloseRefresh ==
  /\ loop = "wait"
  /\ loop' = "ended"
  /\ UNCHANGED <<deadline, plan, attempt, tick, syncing>>

RefreshNext ==
  \/ Second \/ RefreshDue \/ RoundEnds \/ CloseRefresh
  \/ \E a \in Watched : SyncEnds(a) \/ OthersSync(a)

\* Time passes, the loop runs, and a synchronisation ends by success or by a time-out.
RefreshFairness ==
  /\ WF_refreshVars(Second)
  /\ WF_refreshVars(RefreshDue)
  /\ WF_refreshVars(RoundEnds)
  /\ \A a \in Watched : WF_refreshVars(SyncEnds(a))

RefreshSpec == RefreshInit /\ [][RefreshNext]_refreshVars /\ RefreshFairness

(***************************************************************************)
(* Properties                                                              *)
(***************************************************************************)
\* The state has its type; an attempt is never put off for longer than the interval.
RefreshTypeOK ==
  /\ deadline \in [Resets -> Deadlines]
  /\ plan \in [Watched -> Plans]
  /\ attempt \in [Watched -> [reset : Resets \cup {NoReset}, again : -MaxRound .. Retry]]
  /\ tick \in -1 .. MaxRound
  /\ syncing \subseteq Watched
  /\ loop \in {"wait", "round", "ended"}
  /\ loop = "wait" => syncing = {}

\* quota_refresh.go:83: an account whose row keeps naming one reset is synchronised again
\* and again once that reset has passed, however slow the other accounts are, however
\* old the ticks, and however often a synchronisation fails.
DueIsSynced ==
  \A a \in Watched, r \in Resets : []<>(loop = "ended" \/ plan[a] # r \/ a \in syncing)
=============================================================================
