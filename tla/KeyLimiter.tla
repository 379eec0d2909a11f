---------------------------- MODULE KeyLimiter ----------------------------
(***************************************************************************)
(* The concurrency and requests-per-minute limits of one API key:          *)
(* apiKeyLimiter in api_key_limiter.go, used by RequireAPIKey in api.go.   *)
(*                                                                         *)
(* The limiter keeps one entry per key and the entries do not influence    *)
(* each other, so a single key is modelled.  An entry is an object that    *)
(* the map may drop while requests still hold it: `entry' is the one in    *)
(* the map, and an object that nobody holds any more is allocated again.   *)
(*                                                                         *)
(* The limits a request is held to are those in its authenticated copy of  *)
(* the key, and the clock it is judged by is read before the mutex is      *)
(* taken: both may be stale when the critical section runs.                *)
(***************************************************************************)
EXTENDS Integers, FiniteSets, Sequences

CONSTANTS
  Arrivals,   \* slots for HTTP requests made with the key
  Limits,     \* values of [rpm, concurrency] an administrator may set; 0 is no limit
  Window,     \* apiKeyRPMWindow in clock ticks
  Second,     \* ticks in a second, the unit of Retry-After
  MaxLag,     \* the longest wait for the mutex after the clock was read, in ticks
  MaxTime,    \* bound of the clock
  MaxUpdates, \* bound of the changes of the limits
  MayDelete,  \* TRUE: the key may be deleted
  NoState

ASSUME LimiterConstants ==
  /\ IsFiniteSet(Arrivals)
  /\ Limits \subseteq [rpm : Nat, concurrency : Nat]
  /\ Window \in Nat \ {0} /\ Second \in Nat \ {0}
  /\ MaxLag \in Nat /\ MaxTime \in Nat /\ MaxUpdates \in Nat
  /\ MayDelete \in BOOLEAN
  /\ NoState \notin Nat

VARIABLES
  now,      \* the clock
  limits,   \* the limits stored with the key
  deleted,  \* "no", "stored" (row deleted), "forgotten" (and the limiter told)
  entry,    \* states[key.ID], NoState when absent
  active,   \* active[e]: apiKeyLimitState.active
  requests, \* requests[e]: apiKeyLimitState.requests, the stamps of counted admissions
  arrival,  \* arrival[q]: local state of a request
  updates,
  recent    \* history: the times of the counted admissions since the stamps were last cleared

limiterVars == <<now, limits, deleted, entry, active, requests, arrival, updates, recent>>

Entries == 1 .. Cardinality(Arrivals)
Outside == [pc |-> "idle"]

Running(e) == {q \in Arrivals : arrival[q].pc = "running" /\ arrival[q].entry = e}

(***************************************************************************)
(* The decision of acquire                                                 *)
(***************************************************************************)
\* The positions of the stamps that the pruning loop runs over, and what it leaves.
WrongLeading(s, cutoff) == {j \in DOMAIN s : \A i \in 1 .. j : s[i] < cutoff}
Leading(s, cutoff) == {j \in DOMAIN s : \A i \in 1 .. j : s[i] <= cutoff}
Unexpired(s, t) == SubSeq(s, Cardinality(Leading(s, t - Window)) + 1, Len(s))

\* The entry that acquire works on: the one in the map, or a new one.
Free(e) == e # entry /\ Running(e) = {}
Targets ==
  IF entry # NoState THEN {entry}
  ELSE {e \in Entries : Free(e) /\ \A f \in Entries : f < e => ~Free(f)}

Counted(q) ==
  IF arrival[q].rpm = 0 \/ entry = NoState THEN << >>
  ELSE Unexpired(requests[entry], arrival[q].stamp)

WrongTooMany(q, e) == arrival[q].concurrency > 0 /\ active[e] > arrival[q].concurrency
TooMany(q, e) == arrival[q].concurrency > 0 /\ active[e] >= arrival[q].concurrency

WrongTooFast(q) == arrival[q].rpm > 0 /\ Len(Counted(q)) > arrival[q].rpm
TooFast(q) == arrival[q].rpm > 0 /\ Len(Counted(q)) >= arrival[q].rpm

\* Whole seconds until the oldest counted stamp expires, at least one.
RetryAfter(q) ==
  LET secs == (Counted(q)[1] + Window - arrival[q].stamp + Second - 1) \div Second
  IN  IF secs < 1 THEN 1 ELSE secs

-----------------------------------------------------------------------------
LimiterInit ==
  /\ now = 0
  /\ limits \in Limits
  /\ deleted = "no"
  /\ entry = NoState
  /\ active = [e \in Entries |-> 0]
  /\ requests = [e \in Entries |-> << >>]
  /\ arrival = [q \in Arrivals |-> Outside]
  /\ updates = 0
  /\ recent = << >>

\* Time passes, but no request waits for the mutex longer than MaxLag.
Tick ==
  /\ now < MaxTime
  /\ \A q \in Arrivals : arrival[q].pc = "lock" => now - arrival[q].stamp < MaxLag
  /\ now' = now + 1
  /\ UNCHANGED <<limits, deleted, entry, active, requests, arrival, updates, recent>>

\* HandleUpdateKey
UpdateLimits(l) ==
  /\ deleted = "no" /\ l # limits
  /\ updates < MaxUpdates
  /\ updates' = updates + 1
  /\ limits' = l
  /\ UNCHANGED <<now, deleted, entry, active, requests, arrival, recent>>

\* HandleDeleteKey: the row, then the entry of the limiter.
RemoveKey ==
  /\ MayDelete /\ deleted = "no"
  /\ deleted' = "stored"
  /\ UNCHANGED <<now, limits, entry, active, requests, arrival, updates, recent>>

Forget ==
  /\ deleted = "stored"
  /\ deleted' = "forgotten"
  /\ entry' = NoState
  /\ recent' = << >>
  /\ UNCHANGED <<now, limits, active, requests, arrival, updates>>

\* AuthenticateAPIKey
Enter(q) ==
  /\ deleted = "no"
  /\ arrival[q] = Outside
  /\ arrival' = [arrival EXCEPT ![q] =
               [pc |-> "clock", rpm |-> limits.rpm, concurrency |-> limits.concurrency]]
  /\ UNCHANGED <<now, limits, deleted, entry, active, requests, updates, recent>>

\* acquire reads the clock, then waits for the mutex.
ReadClock(q) ==
  /\ arrival[q].pc = "clock"
  /\ arrival' = [arrival EXCEPT ![q] = [pc |-> "lock", rpm |-> arrival[q].rpm,
                                concurrency |-> arrival[q].concurrency, stamp |-> now]]
  /\ UNCHANGED <<now, limits, deleted, entry, active, requests, updates, recent>>

\* The effect of every critical section of acquire on the map: an entry exists
\* afterwards, and the expired stamps are gone.
Prunes(e, counted) ==
  /\ entry' = e
  /\ requests' = [requests EXCEPT ![e] = counted]
  /\ UNCHANGED <<now, limits, deleted, updates>>
\* The history restarts when the stamps are dropped for a key without an RPM limit.
Remembered(q) == IF arrival[q].rpm = 0 THEN << >> ELSE recent

RejectConcurrency(q, e) ==
  /\ arrival[q].pc = "lock"
  /\ TooMany(q, e)
  /\ Prunes(e, Counted(q))
  /\ arrival' = [arrival EXCEPT ![q] = Outside]
  /\ recent' = Remembered(q)
  /\ UNCHANGED active

RejectRPM(q, e) ==
  /\ arrival[q].pc = "lock"
  /\ ~TooMany(q, e) /\ TooFast(q)
  /\ Prunes(e, Counted(q))
  /\ arrival' = [arrival EXCEPT ![q] = [pc |-> "rejected", rpm |-> arrival[q].rpm, counted |-> Counted(q),
                                retryAt |-> arrival[q].stamp + RetryAfter(q) * Second]]
  /\ recent' = Remembered(q)
  /\ UNCHANGED active

Admit(q, e) ==
  /\ arrival[q].pc = "lock"
  /\ ~TooMany(q, e) /\ ~TooFast(q)
  /\ Prunes(e, IF arrival[q].rpm = 0 THEN << >> ELSE Append(Counted(q), arrival[q].stamp))
  /\ active' = [active EXCEPT ![e] = @ + 1]
  /\ arrival' = [arrival EXCEPT ![q] = [pc |-> "running", entry |-> e]]
  /\ recent' = IF arrival[q].rpm = 0 THEN << >> ELSE Append(Remembered(q), now)

\* The deferred release, once per request.
Drops(e) == active[e] <= 1 /\ requests[e] = << >> /\ entry = e
WrongReleased(e) == active[e]
Released(e) == IF active[e] > 0 THEN active[e] - 1 ELSE active[e]
Release(q) ==
  /\ arrival[q].pc = "running"
  /\ LET e == arrival[q].entry
     IN  /\ active' = [active EXCEPT ![e] = Released(e)]
         /\ entry' = IF Drops(e) THEN NoState ELSE entry
  /\ arrival' = [arrival EXCEPT ![q] = Outside]
  /\ UNCHANGED <<now, limits, deleted, requests, updates, recent>>

\* The client of a rejected request is gone.
Leave(q) ==
  /\ arrival[q].pc = "rejected"
  /\ arrival' = [arrival EXCEPT ![q] = Outside]
  /\ UNCHANGED <<now, limits, deleted, entry, active, requests, updates, recent>>

ArrivalStep(q) ==
  \/ Enter(q)
  \/ ReadClock(q)
  \/ \E e \in Targets : RejectConcurrency(q, e) \/ RejectRPM(q, e) \/ Admit(q, e)
  \/ Release(q)
  \/ Leave(q)

LimiterNext ==
  \/ \E q \in Arrivals : ArrivalStep(q)
  \/ \E l \in Limits : UpdateLimits(l)
  \/ RemoveKey
  \/ Forget
  \/ Tick

LimiterSpec == LimiterInit /\ [][LimiterNext]_limiterVars

-----------------------------------------------------------------------------
(***************************************************************************)
(* Properties                                                              *)
(***************************************************************************)
Arrival ==
  {Outside}
    \cup [pc : {"clock"}, rpm : Nat, concurrency : Nat]
    \cup [pc : {"lock"}, rpm : Nat, concurrency : Nat, stamp : Nat]
    \cup [pc : {"running"}, entry : Entries]
    \cup [pc : {"rejected"}, rpm : Nat, counted : Seq(Nat), retryAt : Nat]

\* The types of the variables.
LimiterTypeOK ==
  /\ now \in Nat
  /\ limits \in Limits
  /\ deleted \in {"no", "stored", "forgotten"}
  /\ entry \in Entries \cup {NoState}
  /\ active \in [Entries -> Nat]
  /\ requests \in [Entries -> Seq(Nat)]
  /\ arrival \in [Arrivals -> Arrival]
  /\ updates \in Nat
  /\ recent \in Seq(Nat)

\* The counter of an entry is the number of requests that hold the entry, so that
\* the clamp at zero in release never hides a release too many (lines 68 to 77).
ActiveIsInFlight == \A e \in Entries : active[e] = Cardinality(Running(e))

\* An entry stays in the map only while a request runs or a stamp is counted: keys
\* without an RPM limit leave nothing behind (line 78).
NoEmptyEntry == entry # NoState => active[entry] > 0 \/ requests[entry] # << >>

\* What the limiter remembers of a key agrees with its requests, across limits that
\* change and keys that are deleted while requests run.
EntriesMatchRequests == ActiveIsInFlight /\ NoEmptyEntry

\* A request admitted under a concurrency limit is one of at most that many requests
\* running on the key's entry, whatever the limit was when the others were admitted
\* (lines 51 to 54).
Sharing(q) == {p \in Arrivals : arrival[p].pc = "running" /\ arrival[p].entry = arrival[q].entry}
AdmitWithinConcurrency ==
  [][\A q \in Arrivals :
       /\ arrival[q].pc = "lock" /\ arrival'[q].pc = "running"
       /\ arrival[q].concurrency > 0
       => Cardinality(Sharing(q)') <= arrival[q].concurrency]_limiterVars

\* The rolling window: a request counted against an RPM limit is admitted only when
\* fewer than that many were admitted in the last minute, up to the time a request
\* may spend between reading the clock and taking the mutex (lines 31 to 67).
RollingRPM ==
  [][\A q \in Arrivals :
       /\ arrival[q].pc = "lock" /\ arrival'[q].pc = "running"
       /\ arrival[q].rpm > 0
       => Cardinality({i \in DOMAIN recent : recent[i] > now - (Window - MaxLag)}) < arrival[q].rpm]_limiterVars

\* Retry-After is honest while the limit stays: when it has passed, the stamps that
\* caused the rejection leave room for a request (lines 56 to 59).
RetryAfterSuffices ==
  \A q \in Arrivals :
    arrival[q].pc = "rejected" => Len(Unexpired(arrival[q].counted, arrival[q].retryAt)) < arrival[q].rpm
=============================================================================
