---------------------------- MODULE ReleaseCheck ----------------------------
(***************************************************************************)
(* The check for a newer release: ReleaseChecker and the comparison of     *)
(* semantic versions in update.go.                                         *)
(*                                                                         *)
(* One mutex is held over the request to GitHub, so callers queue behind   *)
(* it; what the request returns is cached, an error for a shorter time.    *)
(*                                                                         *)
(* A label is what normalizeVersionLabel returns, cut at the first "-" and *)
(* at the dots; what follows a "+" is dropped.  Its characters are numbers *)
(* in the order of ASCII: -1 is the hyphen, 0 .. 9 are the digits, more is *)
(* a letter.  A label with other characters is refused like a bad number.  *)
(***************************************************************************)
EXTENDS Integers, Sequences

CONSTANTS
  Callers,    \* slots for requests of the version
  Labels,     \* labels of the program and of releases
  NewLabels,  \* labels of releases published while the program runs
  Widest,     \* the largest number that ParseUint accepts
  SuccessTTL, FailureTTL,
  MaxMinute   \* bound of the clock

ASSUME ReleaseConstants ==
  /\ NewLabels \subseteq Labels /\ Labels \subseteq [core : Seq(Seq(Int)), pre : Seq(Seq(Int))]
  /\ SuccessTTL \in Nat \ {0} /\ FailureTTL \in Nat \ {0} /\ MaxMinute \in Nat

VARIABLES
  minute,   \* the wall clock
  current,  \* the version of the program
  releases, \* the latest releases at GitHub, the last one now; from says since when
  cached,   \* the VersionInfo in the cache; checked is -1 in the empty one
  expires,  \* expiresAt; 0 is the zero time
  caller    \* caller[t]: where a request is, whether it forces a refresh, and its now

releaseVars == <<minute, current, releases, cached, expires, caller>>

-----------------------------------------------------------------------------
(***************************************************************************)
(* Semantic versions                                                       *)
(***************************************************************************)
AllDigits(s) == s # << >> /\ \A i \in DOMAIN s : s[i] \in 0 .. 9
Value(s) ==
  LET value[n \in 0 .. Len(s)] == IF n = 0 THEN 0 ELSE 10 * value[n - 1] + s[n]
  IN  value[Len(s)]

ValidNumeric(s) == AllDigits(s) /\ (Len(s) = 1 \/ s[1] # 0) /\ Value(s) <= Widest
ValidPrerelease(s) == s # << >> /\ (AllDigits(s) => Len(s) = 1 \/ s[1] # 0)

\* parseSemanticVersion succeeds.
Parses(v) ==
  /\ Len(v.core) = 3
  /\ \A i \in DOMAIN v.core : ValidNumeric(v.core[i])
  /\ \A i \in DOMAIN v.pre : ValidPrerelease(v.pre[i])

Sign(m, n) == IF m < n THEN -1 ELSE IF m > n THEN 1 ELSE 0

\* The first difference that the operator By finds in two sequences decides, then the rest.
FirstDifference(s, t, By(_, _), rest) ==
  LET differ == {i \in DOMAIN s \cap DOMAIN t : By(s[i], t[i]) # 0} IN
    IF differ = {} THEN rest
    ELSE LET i == CHOOSE i \in differ : \A j \in differ : i <= j IN By(s[i], t[i])

\* strings.Compare
CompareText(s, t) == FirstDifference(s, t, Sign, Sign(Len(s), Len(t)))

WrongCompareIdentifiers(s, t) == CompareText(s, t)
CompareIdentifiers(s, t) ==
  IF AllDigits(s) # AllDigits(t) THEN (IF AllDigits(s) THEN -1 ELSE 1)
  ELSE IF AllDigits(s) /\ Len(s) # Len(t) THEN Sign(Len(s), Len(t))
  ELSE CompareText(s, t)

CompareNumbers(s, t) == Sign(Value(s), Value(t))

CompareVersions(v, w) ==
  FirstDifference(v.core, w.core, CompareNumbers,
    IF v.pre = << >> \/ w.pre = << >> THEN Sign(Len(w.pre), Len(v.pre))
    ELSE FirstDifference(v.pre, w.pre, CompareIdentifiers, Sign(Len(v.pre), Len(w.pre))))

VersionLess(v, w) == Parses(v) /\ Parses(w) /\ CompareVersions(v, w) < 0

-----------------------------------------------------------------------------
(***************************************************************************)
(* The checker                                                             *)
(***************************************************************************)
NoCaller == [pc |-> "idle", force |-> FALSE, now |-> 0]

ReleaseInit ==
  /\ minute = 1
  /\ current \in Labels
  /\ \E v \in Labels : releases = << [label |-> v, from |-> 0] >>
  /\ cached = [latest |-> current, update |-> FALSE, failed |-> FALSE, checked |-> -1]
  /\ expires = 0
  /\ caller = [t \in Callers |-> NoCaller]

Locked == \E t \in Callers : caller[t].pc = "fetch"
Answered(t) == caller' = [caller EXCEPT ![t] = NoCaller]

HandleVersion(t) ==
  /\ caller[t].pc = "idle"
  /\ \E force \in BOOLEAN :
       caller' = [caller EXCEPT ![t] = [pc |-> "lock", force |-> force, now |-> 0]]
  /\ UNCHANGED <<minute, current, releases, cached, expires>>

\* check, up to its request; the clock is read under the mutex.
Check(t) ==
  /\ caller[t].pc = "lock" /\ ~Locked
  /\ IF ~caller[t].force /\ expires # 0 /\ minute < expires
     THEN Answered(t)
     ELSE caller' = [caller EXCEPT ![t].pc = "fetch", ![t].now = minute]
  /\ UNCHANGED <<minute, current, releases, cached, expires>>

Store(t, latest, update, failed, ttl) ==
  /\ cached' = [latest |-> latest, update |-> update, failed |-> failed,
                checked |-> caller[t].now]
  /\ expires' = caller[t].now + ttl
  /\ Answered(t)
  /\ UNCHANGED <<minute, current, releases>>

\* The request is answered with the latest release.  It may also fail, be cancelled because
\* the caller has left, or be answered with a draft; that is cached, too.
FetchLatestRelease(t) ==
  /\ caller[t].pc = "fetch"
  /\ \/ LET latest == releases[Len(releases)].label IN
          Store(t, latest, VersionLess(current, latest), FALSE, SuccessTTL)
     \/ Store(t, current, FALSE, TRUE, FailureTTL)

\* Time passes, and a release is published.
Minute ==
  /\ minute < MaxMinute
  /\ minute' = minute + 1
  /\ UNCHANGED <<current, releases, cached, expires, caller>>

Publish ==
  /\ Len(releases) = 1
  /\ \E v \in NewLabels : releases' = Append(releases, [label |-> v, from |-> minute])
  /\ UNCHANGED <<minute, current, cached, expires, caller>>

ReleaseNext ==
  \/ \E t \in Callers : HandleVersion(t) \/ Check(t) \/ FetchLatestRelease(t)
  \/ Minute \/ Publish

ReleaseSpec == ReleaseInit /\ [][ReleaseNext]_releaseVars

-----------------------------------------------------------------------------
(***************************************************************************)
(* Properties                                                              *)
(***************************************************************************)
\* The precedence of semver.org, item 11: versions are sequences of ranks, and the first
\* difference decides.  A release ranks above its pre-releases, a word above a number.
Rank(id) == IF AllDigits(id) THEN <<0, Value(id)>> ELSE <<1>> \o id
Ranks(v) ==
  [i \in DOMAIN v.core |-> <<Value(v.core[i])>>]
    \o (IF v.pre = << >> THEN << <<2>> >> ELSE [i \in DOMAIN v.pre |-> Rank(v.pre[i])])

Before(s, t, Less(_, _)) ==
  \E n \in 1 .. Len(t) :
    /\ n <= Len(s) + 1 /\ \A i \in 1 .. n - 1 : s[i] = t[i]
    /\ n <= Len(s) => Less(s[n], t[n])
RankBefore(r, q) == Before(r, q, LAMBDA m, n : m < n)
Precedes(v, w) == Before(Ranks(v), Ranks(w), RankBefore)

\* The labels of releases that were the latest one at some time since m
LatestSince(m) ==
  {releases[i].label : i \in {j \in DOMAIN releases :
                                j = Len(releases) \/ releases[j + 1].from >= m}}

\* update.go:92: whoever fetched it and however callers queue, the answer a caller gets when
\* its turn comes is younger than its time to live, names a release that was the latest one
\* since then, and announces an update exactly when that release has a higher precedence
\* than the program; an error announces none.
UpdateTold ==
  [][\A t \in Callers :
       caller[t].pc # "idle" /\ caller'[t].pc = "idle" =>
         LET age == (IF caller[t].pc = "fetch" THEN caller[t].now ELSE minute) - cached'.checked
         IN  IF cached'.failed THEN age \in 0 .. FailureTTL - 1 /\ ~cached'.update
             ELSE /\ age \in 0 .. SuccessTTL - 1
                  /\ cached'.latest \in LatestSince(cached'.checked)
                  /\ cached'.update <=> /\ Parses(current) /\ Parses(cached'.latest)
                                        /\ Precedes(current, cached'.latest)]_releaseVars
=============================================================================
