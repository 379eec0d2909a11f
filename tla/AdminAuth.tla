----------------------------- MODULE AdminAuth -----------------------------
(***************************************************************************)
(* The administrator's logins and sessions: AdminAuth in auth.go.          *)
(*                                                                         *)
(* A login is allowed in one critical section, its password is compared    *)
(* outside of any lock, and the outcome is recorded in another critical    *)
(* section.  Sessions and counters live in memory only.  One address is    *)
(* modelled, because the counters of two addresses share nothing.          *)
(***************************************************************************)
EXTENDS Integers, Sequences, FiniteSets

CONSTANTS
  Logins,     \* slots for logins in flight
  Tokens,     \* slots for session tokens, free again when no login or session has them
  Limit,      \* wrong passwords after which a window refuses logins
  Window,     \* the length of a window
  Lifetime,   \* the lifetime of a session
  MaxClock    \* bound of the clock

ASSUME AuthConstants ==
  /\ Limit \in Nat \ {0} /\ Window \in Nat \ {0} /\ Lifetime \in Nat \ {0}
  /\ MaxClock \in Nat

VARIABLES
  clock,
  attempts, \* the loginAttempt of the address
  sessions, \* sessions[k]: when token k expires; its domain are the stored sessions
  login,    \* login[t]: where a login in flight is
  \* Observation:
  misses,   \* when each wrong password since the last right one was recorded
  issued    \* issued[k]: when token k expires, for each token issued and not logged out

authVars == <<clock, attempts, sessions, login, misses, issued>>

\* No entry in the map reads as a window that began at the zero time, long ago.
NoWindow == [count |-> 0, start |-> -Window - 1]

AuthInit ==
  /\ clock = 0
  /\ attempts = NoWindow
  /\ sessions = << >>
  /\ login = [t \in Logins |-> "idle"]
  /\ misses = << >>
  /\ issued = << >>

\* m without key k, and m with the value v for key k
Without(m, k) == [x \in DOMAIN m \ {k} |-> m[x]]
With(m, k, v) == [x \in DOMAIN m \cup {k} |-> IF x = k THEN v ELSE m[x]]

AuthTick ==
  /\ clock < MaxClock
  /\ clock' = clock + 1
  /\ UNCHANGED <<attempts, sessions, login, misses, issued>>

(***************************************************************************)
(* HandleLogin                                                             *)
(***************************************************************************)
WrongExpired == FALSE
Expired == clock - attempts.start > Window

BelowLimit == attempts.count < Limit

\* allowAttempt; a refused login changes nothing.
AllowAttempt(t) ==
  /\ login[t] = "idle"
  /\ Expired \/ BelowLimit
  /\ attempts' = IF Expired THEN NoWindow ELSE attempts
  /\ login' = [login EXCEPT ![t] = "check"]
  /\ UNCHANGED <<clock, sessions, misses, issued>>

\* The body does not decode.
BadBody(t) ==
  /\ login[t] = "check"
  /\ login' = [login EXCEPT ![t] = "idle"]
  /\ UNCHANGED <<clock, attempts, sessions, misses, issued>>

\* The password is compared with the hash of a snapshot of the configuration.
ComparePassword(t) ==
  /\ login[t] = "check"
  /\ \E to \in {"wrong", "right"} : login' = [login EXCEPT ![t] = to]
  /\ UNCHANGED <<clock, attempts, sessions, misses, issued>>

RecordFailure(t) ==
  /\ login[t] = "wrong"
  /\ attempts' = IF Expired THEN [count |-> 1, start |-> clock]
                 ELSE [attempts EXCEPT !.count = @ + 1]
  /\ misses' = Append(misses, clock)
  /\ login' = [login EXCEPT ![t] = "idle"]
  /\ UNCHANGED <<clock, sessions, issued>>

ClearFailures(t) ==
  /\ login[t] = "right"
  /\ attempts' = NoWindow
  /\ misses' = << >>
  /\ login' = [login EXCEPT ![t] = "open"]
  /\ UNCHANGED <<clock, sessions, issued>>

Alive(m) == {k \in DOMAIN m : clock <= m[k]}
Pruned == [k \in Alive(sessions) |-> sessions[k]]

\* The new session is stored beside those that have not expired.
OpenSession(t) ==
  /\ login[t] = "open"
  /\ \E k \in Tokens \ (DOMAIN sessions \cup Alive(issued)) :
       /\ sessions' = With(Pruned, k, clock + Lifetime)
       /\ issued' = With(issued, k, clock + Lifetime)
  /\ login' = [login EXCEPT ![t] = "idle"]
  /\ UNCHANGED <<clock, attempts, misses>>

(***************************************************************************)
(* The session of a request                                                *)
(***************************************************************************)
Authenticated(k) == k \in DOMAIN sessions /\ clock <= sessions[k]

\* A request with an expired or unknown token removes it.
RefuseRequest(k) ==
  /\ ~Authenticated(k)
  /\ sessions' = Without(sessions, k)
  /\ UNCHANGED <<clock, attempts, login, misses, issued>>

Logout(k) ==
  /\ k \in DOMAIN issued
  /\ sessions' = Without(sessions, k)
  /\ issued' = Without(issued, k)
  /\ UNCHANGED <<clock, attempts, login, misses>>

LoginStep(t) == AllowAttempt(t) \/ BadBody(t) \/ ComparePassword(t) \/ RecordFailure(t)
                \/ ClearFailures(t) \/ OpenSession(t)

AuthNext ==
  \/ AuthTick
  \/ \E t \in Logins : LoginStep(t)
  \/ \E k \in Tokens : RefuseRequest(k) \/ Logout(k)

AuthSpec == AuthInit /\ [][AuthNext]_authVars

(***************************************************************************)
(* Properties                                                              *)
(***************************************************************************)
\* The state has its type.
AuthTypeOK ==
  /\ clock \in 0 .. MaxClock
  /\ attempts \in [count : Nat, start : -Window - 1 .. MaxClock]
  /\ DOMAIN sessions \subseteq Tokens /\ DOMAIN issued \subseteq Tokens
  /\ login \in [Logins -> {"idle", "check", "wrong", "right", "open"}]
  /\ misses \in Seq(0 .. MaxClock)

\* auth.go:121: an administrator is refused only after Limit wrong passwords within the
\* last window, none followed by a right one: however the windows of overlapping logins
\* expire, an old failure never counts.
RefusalsEarned ==
  ~(Expired \/ BelowLimit) =>
    Cardinality({i \in DOMAIN misses : misses[i] >= clock - Window}) >= Limit

\* README.md:31 ("login rate limiting"), auth.go:130: check and count are two critical
\* sections, so the logins in flight together may all pass the check, and a client may
\* use up the end of one window and the start of the next; but no span as long as a window
\* holds more wrong passwords than that.
FailuresBounded ==
  \A i \in DOMAIN misses :
    Cardinality({j \in DOMAIN misses : misses[j] \in misses[i] .. misses[i] + Window})
      < 2 * (Limit - 1 + Cardinality(Logins))

\* auth.go:121: the limit of logins hits those it is meant for, and only them.
LoginsLimited == RefusalsEarned /\ FailuresBounded

\* auth.go:95: a token is accepted from its login until it expires or is logged out, and
\* at no other time, whatever other logins prune.
SessionsHonoured == {k \in Tokens : Authenticated(k)} = Alive(issued)
=============================================================================
