---------------------------- MODULE OAuthSessions ----------------------------
(***************************************************************************)
(* The logins of accounts through the OAuth broker: Start and Poll of      *)
(* OAuthManager in oauth.go.                                               *)
(*                                                                         *)
(* A session lives in memory.  Its pages poll it, several at a time; the   *)
(* first poll marks it Finishing, leaves the lock, asks the broker, stores *)
(* the account and claims its plan, and every way out of Poll must take    *)
(* the mark back.  Meanwhile the session may expire or be pruned, and the  *)
(* account may be deleted.                                                 *)
(*                                                                         *)
(* The broker is external: it answers any call or none, and says that a    *)
(* login is valid only after the user has logged in.                       *)
(***************************************************************************)
EXTENDS Integers, FiniteSets

CONSTANTS
  Sessions, \* slots for session identifiers, free again when nobody knows them
  Polls,    \* slots for polls in flight
  NoSession

ASSUME OAuthConstants == NoSession \notin Sessions

VARIABLES
  session,  \* session[s]: the pendingOAuth of s; age "none" when it is not in m.pending
  granted,  \* granted[s]: the user has logged in at the broker
  account,  \* account[s]: the account of that user exists
  poll      \* poll[p]: where a poll is, and its session

oauthVars == <<session, granted, account, poll>>

\* "old" is beyond 10 minutes, "stale" beyond 15.
NotPending == [age |-> "none", finishing |-> FALSE, complete |-> FALSE]
NoPoll == [pc |-> "idle", of |-> NoSession]

OAuthInit ==
  /\ session = [s \in Sessions |-> NotPending]
  /\ granted = [s \in Sessions |-> FALSE]
  /\ account \in [Sessions -> BOOLEAN]
  /\ poll = [p \in Polls |-> NoPoll]

PollAt(p, where) == poll[p].pc = where
Goes(p, where) == poll' = [poll EXCEPT ![p].pc = where]
PollReturns(p) == poll' = [poll EXCEPT ![p] = NoPoll]
Known(s) == session[s].age # "none" \/ \E p \in Polls : poll[p].of = s

(***************************************************************************)
(* Start                                                                   *)
(***************************************************************************)
\* The broker has answered; stale sessions are pruned and the new one is stored.
StartSession(s) ==
  /\ ~Known(s)
  /\ session' = [x \in Sessions |->
                   CASE x = s -> [NotPending EXCEPT !.age = "fresh"]
                     [] session[x].age = "stale" -> NotPending
                     [] OTHER -> session[x]]
  /\ granted' = [granted EXCEPT ![s] = FALSE]
  /\ UNCHANGED <<account, poll>>

\* Time passes for session s, and its user logs in at the broker.
Age(s) ==
  /\ session[s].age \in {"fresh", "old"}
  /\ session' = [session EXCEPT ![s].age = IF @ = "fresh" THEN "old" ELSE "stale"]
  /\ UNCHANGED <<granted, account, poll>>

Grant(s) ==
  /\ Known(s)
  /\ granted' = [granted EXCEPT ![s] = TRUE]
  /\ UNCHANGED <<session, account, poll>>

(***************************************************************************)
(* Poll                                                                    *)
(***************************************************************************)
\* The first critical section
WrongFree(s) == ~session[s].complete
Free(s) == ~session[s].complete /\ ~session[s].finishing

EnterPoll(p, s) ==
  /\ PollAt(p, "idle") /\ session[s].age # "none"
  /\ UNCHANGED <<granted, account>>
  /\ \/ /\ session[s].age # "fresh"
        /\ session' = [session EXCEPT ![s] = NotPending]
        /\ UNCHANGED poll
     \/ /\ session[s].age = "fresh" /\ session[s].complete
        /\ poll' = [poll EXCEPT ![p] = [pc |-> "view", of |-> s]]
        /\ UNCHANGED session
     \/ /\ session[s].age = "fresh" /\ Free(s)
        /\ session' = [session EXCEPT ![s].finishing = TRUE]
        /\ poll' = [poll EXCEPT ![p] = [pc |-> "check", of |-> s]]

\* The account of a completed session is looked up; it may be gone.
ViewAccount(p) ==
  /\ PollAt(p, "view")
  /\ PollReturns(p)
  /\ UNCHANGED <<session, granted, account>>

\* The two calls of the broker.  A call that fails, or whose client has left, and an
\* answer that is not valid or not complete give up.
CheckLogin(p) ==
  /\ PollAt(p, "check")
  /\ Goes(p, "release") \/ (granted[poll[p].of] /\ Goes(p, "token"))
  /\ UNCHANGED <<session, granted, account>>

TakeToken(p) ==
  /\ PollAt(p, "token")
  /\ Goes(p, "release") \/ Goes(p, "store")
  /\ UNCHANGED <<session, granted, account>>

\* UpsertAccount
StoreAccount(p) ==
  /\ PollAt(p, "store")
  /\ \/ account' = [account EXCEPT ![poll[p].of] = TRUE] /\ Goes(p, "claim")
     \/ Goes(p, "release") /\ UNCHANGED account
  /\ UNCHANGED <<session, granted>>

\* The plan is claimed, which may fail and then only marks the account; the poll gives
\* up when the account has been deleted meanwhile.
ClaimPlan(p) ==
  /\ PollAt(p, "claim")
  /\ Goes(p, IF account[poll[p].of] THEN "finish" ELSE "release")
  /\ UNCHANGED <<session, granted, account>>

\* The last critical section of a poll that succeeded, and of one that gave up; a session
\* that is no longer pending is left alone.
Leave(p, done) ==
  LET s == poll[p].of IN
    session' = IF session[s].age = "none" THEN session
               ELSE [session EXCEPT ![s].finishing = FALSE, ![s].complete = done \/ @]

FinishPoll(p) ==
  /\ PollAt(p, "finish")
  /\ Leave(p, TRUE)
  /\ PollReturns(p)
  /\ UNCHANGED <<granted, account>>

WrongMarkTaken(p) == UNCHANGED session
MarkTaken(p) == Leave(p, FALSE)

Release(p) ==
  /\ PollAt(p, "release")
  /\ MarkTaken(p)
  /\ PollReturns(p)
  /\ UNCHANGED <<granted, account>>

(***************************************************************************)
(* Others                                                                  *)
(***************************************************************************)
DeleteAccount(s) ==
  /\ account[s]
  /\ account' = [account EXCEPT ![s] = FALSE]
  /\ UNCHANGED <<session, granted, poll>>

\* The process ends: sessions and polls are gone.
EndProcess ==
  /\ session' = [s \in Sessions |-> NotPending]
  /\ poll' = [p \in Polls |-> NoPoll]
  /\ UNCHANGED <<granted, account>>

PollStep(p) == ViewAccount(p) \/ CheckLogin(p) \/ TakeToken(p) \/ StoreAccount(p)
               \/ ClaimPlan(p) \/ FinishPoll(p) \/ Release(p)

OAuthNext ==
  \/ \E s \in Sessions : StartSession(s) \/ Age(s) \/ Grant(s) \/ DeleteAccount(s)
                         \/ \E p \in Polls : EnterPoll(p, s)
  \/ \E p \in Polls : PollStep(p)
  \/ EndProcess

\* Calls of the broker have a time-out, the claim is modelled in PlanClaims, and the
\* rest of a poll waits for nothing.
OAuthFairness == \A p \in Polls : WF_oauthVars(PollStep(p))

OAuthSpec == OAuthInit /\ [][OAuthNext]_oauthVars /\ OAuthFairness

(***************************************************************************)
(* Properties                                                              *)
(***************************************************************************)
\* The state has its type.
OAuthTypeOK ==
  /\ session \in [Sessions -> [age : {"none", "fresh", "old", "stale"},
                               finishing : BOOLEAN, complete : BOOLEAN]]
  /\ granted \in [Sessions -> BOOLEAN]
  /\ account \in [Sessions -> BOOLEAN]
  /\ poll \in [Polls -> [pc : {"idle", "view", "check", "token", "store", "claim", "finish",
                               "release"},
                         of : Sessions \cup {NoSession}]]

\* The polls that are between the first and the last critical section for s
Finishers(s) ==
  {p \in Polls : poll[p].of = s /\ poll[p].pc \notin {"idle", "view"}}

\* oauth.go:147: one poll at a time asks the broker, stores the account and claims its
\* plan for one session, also when the session expires while it does; and a session that
\* is marked as finishing has such a poll, so that its mark is never left behind.
OnePoller ==
  \A s \in Sessions :
    /\ \A p, q \in Finishers(s) : p = q
    /\ session[s].finishing => Finishers(s) # {}

\* oauth.go:155: whatever fails, a session does not stay marked for ever; as long as it is
\* pending, a later poll can finish it.
PollsRelease ==
  \A s \in Sessions : []<>~session[s].finishing
=============================================================================
