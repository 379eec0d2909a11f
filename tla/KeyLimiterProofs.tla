-------------------------- MODULE KeyLimiterProofs --------------------------
(***************************************************************************)
(* Proofs about KeyLimiter for every number of requests, every limit and   *)
(* every window.                                                           *)
(***************************************************************************)
EXTENDS KeyLimiter, FiniteSetTheorems, SequenceTheorems, TLAPS

-----------------------------------------------------------------------------
(* What the local state of a request may be, by its pc. *)
LEMMA RequestParts ==
  ASSUME LimiterTypeOK, NEW q \in Arrivals
  PROVE  /\ arrival[q].pc \in {"idle", "clock", "lock", "running", "rejected"}
         /\ arrival[q].pc \in {"clock", "lock"} => arrival[q].rpm \in Nat /\ arrival[q].concurrency \in Nat
         /\ arrival[q].pc = "lock" => arrival[q].stamp \in Nat
         /\ arrival[q].pc = "running" => arrival[q].entry \in Entries
<1>1. arrival[q] \in Arrival
  BY DEF LimiterTypeOK
<1> QED
  BY <1>1 DEF Arrival, Outside

LEMMA EntriesAreNaturals == Entries \subseteq Nat \ {0} /\ NoState \notin Entries
<1>1. Cardinality(Arrivals) \in Nat
  BY LimiterConstants, FS_CardinalityType
<1> QED
  BY <1>1, LimiterConstants DEF Entries

(* The pruning loop drops a prefix of the stamps, all of them expired. *)
LEMMA LeadingIsPrefix ==
  ASSUME NEW s \in Seq(Nat), NEW c \in Int
  PROVE  LET k == Cardinality(Leading(s, c))
         IN  k \in 0 .. Len(s) /\ \A i \in 1 .. k : s[i] <= c
<1> DEFINE L == Leading(s, c)
           k == Cardinality(L)
<1>1. Len(s) \in Nat /\ DOMAIN s = 1 .. Len(s) /\ \A i \in 1 .. Len(s) : s[i] \in Nat
  BY LenProperties, ElementOfSeq
<1>2. L \subseteq 1 .. Len(s)
  BY <1>1 DEF Leading
<1>3. IsFiniteSet(L) /\ k \in Nat /\ k <= Len(s)
  <2>1. IsFiniteSet(1 .. Len(s)) /\ Cardinality(1 .. Len(s)) = Len(s)
    BY <1>1, FS_Interval
  <2>2. IsFiniteSet(L) /\ Cardinality(L) <= Cardinality(1 .. Len(s))
    BY <1>2, <2>1, FS_Subset
  <2> QED
    BY <2>1, <2>2, FS_CardinalityType
<1>4. ASSUME NEW x \in L PROVE x <= k
  <2>1. 1 .. x \subseteq L
    BY <1>1, <1>2 DEF Leading
  <2>2. x \in Nat /\ Cardinality(1 .. x) = x
    BY <1>1, <1>2, FS_Interval
  <2> QED
    BY <1>3, <2>1, <2>2, FS_Subset
<1>5. L \subseteq 1 .. k
  BY <1>1, <1>2, <1>3, <1>4
<1>6. IsFiniteSet(1 .. k) /\ Cardinality(1 .. k) = k
  BY <1>3, FS_Interval
<1>7. L = 1 .. k
  BY <1>5, <1>6, FS_Subset
<1>8. \A i \in 1 .. k : s[i] <= c
  BY <1>1, <1>2, <1>3, <1>7 DEF Leading
<1> QED
  BY <1>3, <1>8, <1>1

LEMMA UnexpiredIsSuffix ==
  ASSUME NEW s \in Seq(Nat), NEW t \in Nat
  PROVE  \E k \in 0 .. Len(s) :
           /\ \A i \in 1 .. k : s[i] <= t - Window
           /\ Unexpired(s, t) \in Seq(Nat)
           /\ Len(Unexpired(s, t)) = Len(s) - k
           /\ \A i \in 1 .. Len(s) - k : Unexpired(s, t)[i] = s[k + i]
<1> DEFINE k == Cardinality(Leading(s, t - Window))
<1>1. Window \in Nat /\ t - Window \in Int
  BY LimiterConstants
<1>2. k \in 0 .. Len(s) /\ \A i \in 1 .. k : s[i] <= t - Window
  BY <1>1, LeadingIsPrefix
<1>3. Len(s) \in Nat /\ \A i \in 1 .. Len(s) : s[i] \in Nat
  BY LenProperties, ElementOfSeq
<1> DEFINE u == SubSeq(s, k + 1, Len(s))
<1>4. k + 1 \in Int /\ Len(s) \in Int /\ \A i \in k + 1 .. Len(s) : s[i] \in Nat
  BY <1>2, <1>3
<1> HIDE DEF k
<1>5. /\ u \in Seq(Nat)
      /\ Len(u) = IF k + 1 <= Len(s) THEN Len(s) - (k + 1) + 1 ELSE 0
      /\ \A i \in 1 .. Len(s) - (k + 1) + 1 : u[i] = s[k + 1 + i - 1]
  BY <1>4, SubSeqProperties
<1>6. Unexpired(s, t) = u
  BY DEF Unexpired, k
<1>7. Len(u) = Len(s) - k
  BY <1>2, <1>3, <1>5
<1>8. \A i \in 1 .. Len(s) - k : u[i] = s[k + i]
  BY <1>2, <1>3, <1>5
<1> QED
  BY <1>2, <1>5, <1>6, <1>7, <1>8

-----------------------------------------------------------------------------
(* Type correctness. *)
LEMMA CountedType ==
  ASSUME LimiterTypeOK, NEW q \in Arrivals, arrival[q].pc = "lock"
  PROVE  Counted(q) \in Seq(Nat)
<1>1. arrival[q].stamp \in Nat
  BY RequestParts
<1>2. CASE arrival[q].rpm = 0 \/ entry = NoState
  BY <1>2 DEF Counted
<1>3. CASE ~(arrival[q].rpm = 0 \/ entry = NoState)
  <2>1. requests[entry] \in Seq(Nat)
    BY <1>3 DEF LimiterTypeOK
  <2> QED
    BY <1>1, <1>3, <2>1, UnexpiredIsSuffix DEF Counted
<1> QED
  BY <1>2, <1>3

LEMMA TargetsAreEntries == LimiterTypeOK => Targets \subseteq Entries
BY DEF LimiterTypeOK, Targets

LEMMA RetryAfterType ==
  ASSUME LimiterTypeOK, NEW q \in Arrivals, arrival[q].pc = "lock", TooFast(q)
  PROVE  RetryAfter(q) \in Nat
<1>1. Counted(q) \in Seq(Nat) /\ arrival[q].stamp \in Nat /\ arrival[q].rpm \in Nat
  BY CountedType, RequestParts
<1>2. 1 \in 1 .. Len(Counted(q))
  BY <1>1, LenProperties DEF TooFast
<1>3. Counted(q)[1] \in Nat
  BY <1>1, <1>2, ElementOfSeq
<1>4. Counted(q)[1] + Window - arrival[q].stamp + Second - 1 \in Int
  BY <1>1, <1>3, LimiterConstants
<1> DEFINE secs == (Counted(q)[1] + Window - arrival[q].stamp + Second - 1) \div Second
<1>5. secs \in Int
  BY <1>4, LimiterConstants
<1> QED
  BY <1>5 DEF RetryAfter

LEMMA TypeStep == LimiterTypeOK /\ [LimiterNext]_limiterVars => LimiterTypeOK'
<1> SUFFICES ASSUME LimiterTypeOK, [LimiterNext]_limiterVars PROVE LimiterTypeOK'
  OBVIOUS
<1> USE LimiterConstants, EntriesAreNaturals
<1>1. ASSUME NEW q \in Arrivals, Enter(q) PROVE LimiterTypeOK'
  <2>1. [pc |-> "clock", rpm |-> limits.rpm, concurrency |-> limits.concurrency] \in Arrival
    BY DEF LimiterTypeOK, Arrival
  <2> QED
    BY <1>1, <2>1 DEF LimiterTypeOK, Enter
<1>2. ASSUME NEW q \in Arrivals, ReadClock(q) PROVE LimiterTypeOK'
  <2>1. arrival[q].rpm \in Nat /\ arrival[q].concurrency \in Nat
    BY <1>2, RequestParts DEF ReadClock
  <2>2. [pc |-> "lock", rpm |-> arrival[q].rpm, concurrency |-> arrival[q].concurrency, stamp |-> now] \in Arrival
    BY <2>1 DEF LimiterTypeOK, Arrival
  <2> QED
    BY <1>2, <2>2 DEF LimiterTypeOK, ReadClock
<1>3. ASSUME NEW q \in Arrivals, NEW e \in Targets, RejectConcurrency(q, e) PROVE LimiterTypeOK'
  <2>1. Counted(q) \in Seq(Nat) /\ e \in Entries
    BY <1>3, CountedType, TargetsAreEntries DEF RejectConcurrency
  <2>2. Remembered(q) \in Seq(Nat)
    BY DEF LimiterTypeOK, Remembered
  <2> QED
    BY <1>3, <2>1, <2>2 DEF LimiterTypeOK, RejectConcurrency, Prunes, Arrival
<1>4. ASSUME NEW q \in Arrivals, NEW e \in Targets, RejectRPM(q, e) PROVE LimiterTypeOK'
  <2>1. Counted(q) \in Seq(Nat) /\ e \in Entries /\ arrival[q].stamp \in Nat /\ arrival[q].rpm \in Nat
    BY <1>4, CountedType, TargetsAreEntries, RequestParts DEF RejectRPM
  <2>2. Remembered(q) \in Seq(Nat)
    BY DEF LimiterTypeOK, Remembered
  <2>3. arrival[q].stamp + RetryAfter(q) * Second \in Nat
    <3>1. RetryAfter(q) \in Nat /\ Second \in Nat
      BY <1>4, RetryAfterType DEF RejectRPM
    <3>2. RetryAfter(q) * Second \in Nat
      BY <3>1
    <3> QED
      BY <2>1, <3>2
  <2>4. [pc |-> "rejected", rpm |-> arrival[q].rpm, counted |-> Counted(q),
         retryAt |-> arrival[q].stamp + RetryAfter(q) * Second] \in Arrival
    BY <2>1, <2>3 DEF Arrival
  <2> QED
    BY <1>4, <2>1, <2>2, <2>4 DEF LimiterTypeOK, RejectRPM, Prunes
<1>5. ASSUME NEW q \in Arrivals, NEW e \in Targets, Admit(q, e) PROVE LimiterTypeOK'
  <2>1. Counted(q) \in Seq(Nat) /\ e \in Entries /\ arrival[q].stamp \in Nat
    BY <1>5, CountedType, TargetsAreEntries, RequestParts DEF Admit
  <2>2. Remembered(q) \in Seq(Nat)
    BY DEF LimiterTypeOK, Remembered
  <2>3. Append(Counted(q), arrival[q].stamp) \in Seq(Nat) /\ Append(Remembered(q), now) \in Seq(Nat)
    BY <2>1, <2>2 DEF LimiterTypeOK
  <2>4. [pc |-> "running", entry |-> e] \in Arrival
    BY <2>1 DEF Arrival
  <2> QED
    BY <1>5, <2>1, <2>3, <2>4 DEF LimiterTypeOK, Admit, Prunes
<1>6. ASSUME NEW q \in Arrivals, Release(q) PROVE LimiterTypeOK'
  <2>1. arrival[q].entry \in Entries
    BY <1>6, RequestParts DEF Release
  <2>2. active[arrival[q].entry] \in Nat
    BY <2>1 DEF LimiterTypeOK
  <2>3. Released(arrival[q].entry) \in Nat
    BY <2>2 DEF Released
  <2> QED
    BY <1>6, <2>1, <2>3 DEF LimiterTypeOK, Release, Arrival
<1>7. ASSUME NEW q \in Arrivals, Leave(q) PROVE LimiterTypeOK'
  BY <1>7 DEF LimiterTypeOK, Leave, Arrival
<1>8. ASSUME NEW l \in Limits, UpdateLimits(l) PROVE LimiterTypeOK'
  BY <1>8 DEF LimiterTypeOK, UpdateLimits
<1>9. CASE RemoveKey
  BY <1>9 DEF LimiterTypeOK, RemoveKey
<1>10. CASE Forget
  BY <1>10 DEF LimiterTypeOK, Forget
<1>11. CASE Tick
  BY <1>11 DEF LimiterTypeOK, Tick
<1>12. CASE UNCHANGED limiterVars
  BY <1>12 DEF LimiterTypeOK, limiterVars
<1> QED
  BY <1>1, <1>2, <1>3, <1>4, <1>5, <1>6, <1>7, <1>8, <1>9, <1>10, <1>11, <1>12 DEF LimiterNext, ArrivalStep

(* The variables keep their types: KeyLimiter's LimiterTypeOK for every number of       *)
(* requests, every set of limits and every window.                               *)
THEOREM TypeCorrect == LimiterSpec => []LimiterTypeOK
<1>1. LimiterInit => LimiterTypeOK
  BY LimiterConstants DEF LimiterInit, LimiterTypeOK, Arrival
<1> QED
  BY <1>1, TypeStep, PTL DEF LimiterSpec

-----------------------------------------------------------------------------
(***************************************************************************)
(* The counter of an entry.  Every step that sets active or a request's    *)
(* entry does both to the same entry; the others leave Running alone.      *)
(***************************************************************************)
LEMMA RunningFinite ==
  ASSUME NEW e
  PROVE  IsFiniteSet(Running(e)) /\ Cardinality(Running(e)) \in Nat
<1>1. Running(e) \in SUBSET Arrivals
  BY DEF Running
<1> QED
  BY <1>1, LimiterConstants, FS_Subset, FS_CardinalityType

LEMMA RunningUnchanged ==
  ASSUME NEW q \in Arrivals, arrival[q].pc # "running", NEW r, r.pc # "running",
         arrival \in [Arrivals -> Arrival], arrival' = [arrival EXCEPT ![q] = r], UNCHANGED active,
         ActiveIsInFlight
  PROVE  ActiveIsInFlight'
<1>1. ASSUME NEW e \in Entries PROVE Running(e)' = Running(e)
  BY DEF Running
<1> QED
  BY <1>1 DEF ActiveIsInFlight

LEMMA ActiveStep == LimiterTypeOK /\ ActiveIsInFlight /\ [LimiterNext]_limiterVars => ActiveIsInFlight'
<1> SUFFICES ASSUME LimiterTypeOK, ActiveIsInFlight, [LimiterNext]_limiterVars PROVE ActiveIsInFlight'
  OBVIOUS
<1>0. arrival \in [Arrivals -> Arrival]
  BY DEF LimiterTypeOK
<1>1. ASSUME NEW q \in Arrivals, Enter(q) PROVE ActiveIsInFlight'
  <2> DEFINE r == [pc |-> "clock", rpm |-> limits.rpm, concurrency |-> limits.concurrency]
  <2>1. arrival[q].pc # "running" /\ r.pc # "running" /\ arrival' = [arrival EXCEPT ![q] = r] /\ UNCHANGED active
    BY <1>1 DEF Enter, Outside
  <2> HIDE DEF r
  <2> QED
    BY <1>0, <2>1, RunningUnchanged
<1>2. ASSUME NEW q \in Arrivals, ReadClock(q) PROVE ActiveIsInFlight'
  <2> DEFINE r == [pc |-> "lock", rpm |-> arrival[q].rpm, concurrency |-> arrival[q].concurrency, stamp |-> now]
  <2>1. arrival[q].pc # "running" /\ r.pc # "running" /\ arrival' = [arrival EXCEPT ![q] = r] /\ UNCHANGED active
    BY <1>2 DEF ReadClock
  <2> HIDE DEF r
  <2> QED
    BY <1>0, <2>1, RunningUnchanged
<1>3. ASSUME NEW q \in Arrivals, NEW e \in Targets, RejectConcurrency(q, e) PROVE ActiveIsInFlight'
  <2>1. arrival[q].pc # "running" /\ Outside.pc # "running" /\ arrival' = [arrival EXCEPT ![q] = Outside] /\ UNCHANGED active
    BY <1>3 DEF RejectConcurrency, Outside
  <2> QED
    BY <1>0, <2>1, RunningUnchanged
<1>4. ASSUME NEW q \in Arrivals, NEW e \in Targets, RejectRPM(q, e) PROVE ActiveIsInFlight'
  <2> DEFINE r == [pc |-> "rejected", rpm |-> arrival[q].rpm, counted |-> Counted(q),
                   retryAt |-> arrival[q].stamp + RetryAfter(q) * Second]
  <2>1. arrival[q].pc # "running" /\ r.pc # "running" /\ arrival' = [arrival EXCEPT ![q] = r] /\ UNCHANGED active
    BY <1>4 DEF RejectRPM
  <2> HIDE DEF r
  <2> QED
    BY <1>0, <2>1, RunningUnchanged
<1>5. ASSUME NEW q \in Arrivals, NEW e \in Targets, Admit(q, e) PROVE ActiveIsInFlight'
  <2>1. e \in Entries /\ active \in [Entries -> Nat] /\ active' = [active EXCEPT ![e] = @ + 1]
    BY <1>5, TargetsAreEntries DEF Admit, LimiterTypeOK
  <2>2. arrival[q].pc = "lock" /\ arrival' = [arrival EXCEPT ![q] = [pc |-> "running", entry |-> e]]
    BY <1>5 DEF Admit
  <2>3. q \notin Running(e) /\ Running(e)' = Running(e) \cup {q}
    BY <1>0, <2>2 DEF Running
  <2>4. \A f \in Entries \ {e} : Running(f)' = Running(f)
    BY <1>0, <2>2 DEF Running
  <2>5. Cardinality(Running(e)') = Cardinality(Running(e)) + 1
    BY <2>3, RunningFinite, FS_AddElement
  <2> QED
    BY <2>1, <2>4, <2>5 DEF ActiveIsInFlight
<1>6. ASSUME NEW q \in Arrivals, Release(q) PROVE ActiveIsInFlight'
  <2>0. PICK e \in Entries : e = arrival[q].entry
    BY <1>6, RequestParts DEF Release
  <2>1. active \in [Entries -> Nat] /\ active' = [active EXCEPT ![e] = Released(e)]
    BY <1>6, <2>0 DEF Release, LimiterTypeOK
  <2>2. arrival[q].pc = "running" /\ arrival' = [arrival EXCEPT ![q] = Outside]
    BY <1>6 DEF Release
  <2>3. q \in Running(e) /\ Running(e)' = Running(e) \ {q}
    BY <1>0, <2>0, <2>2 DEF Running, Outside
  <2>4. \A f \in Entries \ {e} : Running(f)' = Running(f)
    BY <1>0, <2>0, <2>2 DEF Running, Outside
  <2>5. Cardinality(Running(e)') = Cardinality(Running(e)) - 1
    BY <2>3, RunningFinite, FS_RemoveElement
  <2>6. active[e] = Cardinality(Running(e)) /\ active[e] \in Nat
    BY <2>1 DEF ActiveIsInFlight
  <2>7. Cardinality(Running(e)) # 0
    BY <2>3, RunningFinite, FS_EmptySet
  <2>8. Released(e) = active[e] - 1
    BY <2>6, <2>7 DEF Released
  <2> QED
    BY <2>1, <2>4, <2>5, <2>6, <2>8 DEF ActiveIsInFlight
<1>7. ASSUME NEW q \in Arrivals, Leave(q) PROVE ActiveIsInFlight'
  <2>1. arrival[q].pc # "running" /\ Outside.pc # "running" /\ arrival' = [arrival EXCEPT ![q] = Outside] /\ UNCHANGED active
    BY <1>7 DEF Leave, Outside
  <2> QED
    BY <1>0, <2>1, RunningUnchanged
<1>8. CASE UNCHANGED <<arrival, active>>
  BY <1>8 DEF ActiveIsInFlight, Running
<1> QED
  BY <1>1, <1>2, <1>3, <1>4, <1>5, <1>6, <1>7, <1>8
     DEF LimiterNext, ArrivalStep, UpdateLimits, RemoveKey, Forget, Tick, limiterVars

(* The counter of every entry is the number of requests holding it. *)
THEOREM ActiveCounts == LimiterSpec => []ActiveIsInFlight
<1>1. LimiterInit => ActiveIsInFlight
  <2> SUFFICES ASSUME LimiterInit PROVE ActiveIsInFlight
    OBVIOUS
  <2>1. \A e \in Entries : Running(e) = {} /\ active[e] = 0
    BY DEF LimiterInit, Running, Outside
  <2> QED
    BY <2>1, FS_EmptySet DEF ActiveIsInFlight
<1> QED
  BY <1>1, ActiveStep, TypeCorrect, PTL DEF LimiterSpec

(* Only Admit takes a request from the mutex to the handler. *)
LEMMA OnlyAdmitStarts ==
  ASSUME LimiterTypeOK, LimiterNext, NEW q \in Arrivals, arrival[q].pc = "lock", arrival'[q].pc = "running"
  PROVE  \E e \in Targets : Admit(q, e)
<1>1. \A p \in Arrivals : p # q /\ ArrivalStep(p) => arrival'[q] = arrival[q]
  BY DEF ArrivalStep, Enter, ReadClock, RejectConcurrency, RejectRPM, Admit, Release,
         Leave, LimiterTypeOK
<1>2. (\E l \in Limits : UpdateLimits(l)) \/ RemoveKey \/ Forget \/ Tick => arrival'[q] = arrival[q]
  BY DEF UpdateLimits, RemoveKey, Forget, Tick
<1>3. ArrivalStep(q)
  BY <1>1, <1>2 DEF LimiterNext
<1>4. ~Enter(q) /\ ~ReadClock(q) /\ ~Release(q) /\ ~Leave(q)
  BY DEF Enter, ReadClock, Release, Leave, Outside
<1>5. \A e \in Targets : ~RejectConcurrency(q, e) /\ ~RejectRPM(q, e)
  BY DEF RejectConcurrency, RejectRPM, LimiterTypeOK, Outside
<1> QED
  BY <1>3, <1>4, <1>5 DEF ArrivalStep

(* A request admitted under a concurrency limit is one of at most that many on its *)
(* entry: the limit is that of its own copy of the key.                            *)
THEOREM ConcurrencyHolds == LimiterSpec => AdmitWithinConcurrency
<1>1. LimiterTypeOK /\ ActiveIsInFlight /\ ActiveIsInFlight' /\ [LimiterNext]_limiterVars =>
        [\A q \in Arrivals :
           /\ arrival[q].pc = "lock" /\ arrival'[q].pc = "running"
           /\ arrival[q].concurrency > 0
           => Cardinality(Sharing(q)') <= arrival[q].concurrency]_limiterVars
  <2> SUFFICES ASSUME LimiterTypeOK, ActiveIsInFlight, ActiveIsInFlight', LimiterNext,
                      NEW q \in Arrivals, arrival[q].pc = "lock", arrival'[q].pc = "running",
                      arrival[q].concurrency > 0
               PROVE  Cardinality(Sharing(q)') <= arrival[q].concurrency
    OBVIOUS
  <2>1. PICK e \in Targets : Admit(q, e)
    BY OnlyAdmitStarts
  <2>2. e \in Entries /\ arrival[q].concurrency \in Nat
    BY TargetsAreEntries, RequestParts
  <2>3. arrival'[q] = [pc |-> "running", entry |-> e] /\ active'[e] = active[e] + 1
    BY <2>1, <2>2 DEF Admit, LimiterTypeOK
  <2>4. Sharing(q)' = Running(e)'
    BY <2>3 DEF Sharing, Running
  <2>5. ~(active[e] >= arrival[q].concurrency) /\ active[e] \in Nat
    BY <2>1, <2>2 DEF Admit, TooMany, LimiterTypeOK
  <2>6. Cardinality(Sharing(q)') = active[e] + 1
    BY <2>2, <2>3, <2>4 DEF ActiveIsInFlight
  <2> QED
    BY <2>2, <2>5, <2>6
<1> QED
  BY <1>1, TypeCorrect, ActiveCounts, PTL DEF LimiterSpec, AdmitWithinConcurrency

-----------------------------------------------------------------------------
(***************************************************************************)
(* No entry is kept for nothing.                                           *)
(***************************************************************************)
LEMMA NoEmptyStep == LimiterTypeOK /\ NoEmptyEntry /\ [LimiterNext]_limiterVars => NoEmptyEntry'
<1> SUFFICES ASSUME LimiterTypeOK, NoEmptyEntry, [LimiterNext]_limiterVars PROVE NoEmptyEntry'
  OBVIOUS
<1>1. ASSUME NEW q \in Arrivals, NEW e \in Targets, RejectConcurrency(q, e) PROVE NoEmptyEntry'
  <2>1. e \in Entries /\ active[e] \in Nat /\ arrival[q].concurrency \in Nat
    BY <1>1, TargetsAreEntries, RequestParts DEF RejectConcurrency, LimiterTypeOK
  <2>2. entry' = e /\ active' = active /\ active[e] > 0
    BY <1>1, <2>1 DEF RejectConcurrency, TooMany, Prunes
  <2> QED
    BY <2>2 DEF NoEmptyEntry
<1>2. ASSUME NEW q \in Arrivals, NEW e \in Targets, RejectRPM(q, e) PROVE NoEmptyEntry'
  <2>1. e \in Entries /\ Counted(q) \in Seq(Nat) /\ arrival[q].rpm \in Nat
    BY <1>2, TargetsAreEntries, CountedType, RequestParts DEF RejectRPM
  <2>2. Counted(q) # << >>
    BY <1>2, <2>1 DEF RejectRPM, TooFast
  <2>3. entry' = e /\ requests'[e] = Counted(q)
    BY <1>2, <2>1 DEF RejectRPM, Prunes, LimiterTypeOK
  <2> QED
    BY <2>2, <2>3 DEF NoEmptyEntry
<1>3. ASSUME NEW q \in Arrivals, NEW e \in Targets, Admit(q, e) PROVE NoEmptyEntry'
  <2>1. e \in Entries /\ active[e] \in Nat
    BY TargetsAreEntries DEF LimiterTypeOK
  <2>2. entry' = e /\ active'[e] = active[e] + 1
    BY <1>3, <2>1 DEF Admit, Prunes, LimiterTypeOK
  <2> QED
    BY <2>1, <2>2 DEF NoEmptyEntry
<1>4. ASSUME NEW q \in Arrivals, Release(q) PROVE NoEmptyEntry'
  <2>1. PICK e \in Entries : e = arrival[q].entry
    BY <1>4, RequestParts DEF Release
  <2>2. active' = [active EXCEPT ![e] = Released(e)] /\ requests' = requests
        /\ entry' = IF Drops(e) THEN NoState ELSE entry
    BY <1>4, <2>1 DEF Release
  <2>3. CASE Drops(e)
    BY <2>2, <2>3 DEF NoEmptyEntry
  <2>4. CASE ~Drops(e) /\ entry = e
    <3>1. active[e] \in Nat /\ active'[e] = Released(e)
      BY <2>2 DEF LimiterTypeOK
    <3>2. active[e] > 1 \/ requests[e] # << >>
      BY <2>4, <3>1 DEF Drops
    <3>3. active[e] > 1 => Released(e) > 0
      BY <3>1 DEF Released
    <3> QED
      BY <2>2, <2>4, <3>1, <3>2, <3>3 DEF NoEmptyEntry
  <2>5. CASE entry # e
    BY <2>2, <2>5, EntriesAreNaturals DEF NoEmptyEntry, LimiterTypeOK, Drops
  <2> QED
    BY <2>3, <2>4, <2>5
<1>5. CASE Forget
  BY <1>5 DEF Forget, NoEmptyEntry
<1>6. CASE UNCHANGED <<entry, active, requests>>
  BY <1>6 DEF NoEmptyEntry
<1> QED
  BY <1>1, <1>2, <1>3, <1>4, <1>5, <1>6
     DEF LimiterNext, ArrivalStep, Enter, ReadClock, Leave, UpdateLimits, RemoveKey, Tick, limiterVars

(* The map holds an entry only while a request runs or a stamp is counted. *)
THEOREM NoEntryForNothing == LimiterSpec => []NoEmptyEntry
<1>1. LimiterInit => NoEmptyEntry
  BY DEF LimiterInit, NoEmptyEntry
<1> QED
  BY <1>1, NoEmptyStep, TypeCorrect, PTL DEF LimiterSpec

(* What the limiter remembers of a key agrees with its requests. *)
THEOREM EntriesMatch == LimiterSpec => []EntriesMatchRequests
  BY ActiveCounts, NoEntryForNothing, PTL DEF EntriesMatchRequests

-----------------------------------------------------------------------------
(***************************************************************************)
(* The rolling window.  The invariant relates the stamps the entry counts  *)
(* to the times of the admissions: the stamps are those of the last        *)
(* admissions, each at most MaxLag early, and every admission that is no   *)
(* longer counted is older than the window less MaxLag.                    *)
(***************************************************************************)
Stamps == IF entry = NoState THEN << >> ELSE requests[entry]

Aligned(s, r, t, d) ==
  /\ Len(r) = d + Len(s)
  /\ \A i \in 1 .. Len(s) : s[i] <= r[d + i] /\ r[d + i] <= s[i] + MaxLag
  /\ \A j \in 1 .. d : r[j] <= t - (Window - MaxLag)
Tracks(s, r, t) == \E d \in Nat : Aligned(s, r, t, d)

LockTimes ==
  \A q \in Arrivals : arrival[q].pc = "lock" => arrival[q].stamp <= now /\ now <= arrival[q].stamp + MaxLag
RecentTracked == Tracks(Stamps, recent, now)

LEMMA TracksEmpty ==
  ASSUME NEW t \in Nat
  PROVE  Tracks(<< >>, << >>, t)
<1>1. Aligned(<< >>, << >>, t, 0)
  BY EmptySeq DEF Aligned
<1> QED
  BY <1>1 DEF Tracks

LEMMA TracksLater ==
  ASSUME NEW s \in Seq(Nat), NEW r \in Seq(Nat), NEW t \in Nat, NEW u \in Nat, t <= u,
         Tracks(s, r, t)
  PROVE  Tracks(s, r, u)
<1>1. PICK d \in Nat : Aligned(s, r, t, d)
  BY DEF Tracks
<1>2. Len(r) \in Nat /\ Len(s) \in Nat /\ \A j \in 1 .. Len(r) : r[j] \in Nat
  BY LenProperties, ElementOfSeq
<1>3. Aligned(s, r, u, d)
  BY <1>1, <1>2, LimiterConstants DEF Aligned
<1> QED
  BY <1>3 DEF Tracks

LEMMA TracksPruned ==
  ASSUME NEW s \in Seq(Nat), NEW r \in Seq(Nat), NEW t \in Nat, NEW u \in Nat, u <= t,
         Tracks(s, r, t)
  PROVE  Tracks(Unexpired(s, u), r, t)
<1>1. PICK d \in Nat : Aligned(s, r, t, d)
  BY DEF Tracks
<1>2. Len(r) \in Nat /\ Len(s) \in Nat /\ (\A j \in 1 .. Len(r) : r[j] \in Nat)
      /\ (\A i \in 1 .. Len(s) : s[i] \in Nat)
  BY LenProperties, ElementOfSeq
<1>3. PICK k \in 0 .. Len(s) :
        /\ \A i \in 1 .. k : s[i] <= u - Window
        /\ Len(Unexpired(s, u)) = Len(s) - k
        /\ \A i \in 1 .. Len(s) - k : Unexpired(s, u)[i] = s[k + i]
  BY UnexpiredIsSuffix
<1>4. d + k \in Nat /\ Len(r) = (d + k) + Len(Unexpired(s, u))
  BY <1>1, <1>2, <1>3 DEF Aligned
<1>5. ASSUME NEW i \in 1 .. Len(Unexpired(s, u))
      PROVE  Unexpired(s, u)[i] <= r[d + k + i] /\ r[d + k + i] <= Unexpired(s, u)[i] + MaxLag
  <2>1. k + i \in 1 .. Len(s) /\ Unexpired(s, u)[i] = s[k + i] /\ d + (k + i) = d + k + i
    BY <1>2, <1>3
  <2> QED
    BY <1>1, <2>1 DEF Aligned
<1>6. ASSUME NEW j \in 1 .. d + k PROVE r[j] <= t - (Window - MaxLag)
  <2>1. CASE j <= d
    BY <1>1, <2>1 DEF Aligned
  <2>2. CASE j > d
    <3>1. j - d \in 1 .. k /\ j - d \in 1 .. Len(s) /\ d + (j - d) = j
      BY <1>2, <2>2
    <3>2. s[j - d] <= u - Window /\ r[j] <= s[j - d] + MaxLag
      BY <1>1, <1>3, <3>1 DEF Aligned
    <3>3. s[j - d] \in Nat /\ r[j] \in Nat
      BY <1>1, <1>2, <3>1 DEF Aligned
    <3> QED
      BY <3>2, <3>3, LimiterConstants
  <2> QED
    BY <2>1, <2>2
<1>7. Aligned(Unexpired(s, u), r, t, d + k)
  BY <1>4, <1>5, <1>6 DEF Aligned
<1> QED
  BY <1>4, <1>7 DEF Tracks

LEMMA TracksAppended ==
  ASSUME NEW s \in Seq(Nat), NEW r \in Seq(Nat), NEW t \in Nat, NEW x \in Nat,
         x <= t, t <= x + MaxLag, Tracks(s, r, t)
  PROVE  Tracks(Append(s, x), Append(r, t), t)
<1>1. PICK d \in Nat : Aligned(s, r, t, d)
  BY DEF Tracks
<1>2. Len(r) \in Nat /\ Len(s) \in Nat
  BY LenProperties
<1>3. Len(Append(s, x)) = Len(s) + 1 /\ Len(Append(r, t)) = Len(r) + 1
  OBVIOUS
<1>4. \A i \in 1 .. Len(s) + 1 : Append(s, x)[i] = IF i = Len(s) + 1 THEN x ELSE s[i]
  OBVIOUS
<1>5. \A j \in 1 .. Len(r) + 1 : Append(r, t)[j] = IF j = Len(r) + 1 THEN t ELSE r[j]
  OBVIOUS
<1>6. Len(Append(r, t)) = d + Len(Append(s, x)) /\ Len(r) = d + Len(s)
  BY <1>1, <1>2, <1>3 DEF Aligned
<1>7. ASSUME NEW i \in 1 .. Len(s) + 1
      PROVE  Append(s, x)[i] <= Append(r, t)[d + i] /\ Append(r, t)[d + i] <= Append(s, x)[i] + MaxLag
  <2>1. CASE i = Len(s) + 1
    <3>1. d + i = Len(r) + 1 /\ d + i \in 1 .. Len(r) + 1
      BY <1>2, <1>6, <2>1
    <3>2. Append(s, x)[i] = x /\ Append(r, t)[d + i] = t
      BY <1>4, <1>5, <2>1, <3>1
    <3> QED
      BY <3>2
  <2>2. CASE i # Len(s) + 1
    <3>1. i \in 1 .. Len(s) /\ d + i \in 1 .. Len(r)
      BY <1>2, <1>6, <2>2
    <3>2. Append(s, x)[i] = s[i] /\ Append(r, t)[d + i] = r[d + i]
      BY <1>2, <1>4, <1>5, <3>1
    <3> QED
      BY <1>1, <3>1, <3>2 DEF Aligned
  <2> QED
    BY <2>1, <2>2
<1>8. ASSUME NEW j \in 1 .. d PROVE Append(r, t)[j] <= t - (Window - MaxLag)
  <2>1. j \in 1 .. Len(r) /\ Append(r, t)[j] = r[j]
    BY <1>2, <1>5, <1>6
  <2> QED
    BY <1>1, <2>1 DEF Aligned
<1>9. Aligned(Append(s, x), Append(r, t), t, d)
  BY <1>3, <1>6, <1>7, <1>8 DEF Aligned
<1> QED
  BY <1>9 DEF Tracks

LEMMA TracksBounds ==
  ASSUME NEW s \in Seq(Nat), NEW r \in Seq(Nat), NEW t \in Nat, Tracks(s, r, t)
  PROVE  Cardinality({i \in DOMAIN r : r[i] > t - (Window - MaxLag)}) <= Len(s)
<1> DEFINE I == {i \in DOMAIN r : r[i] > t - (Window - MaxLag)}
<1>1. PICK d \in Nat : Aligned(s, r, t, d)
  BY DEF Tracks
<1>2. Len(r) \in Nat /\ Len(s) \in Nat /\ DOMAIN r = 1 .. Len(r) /\ \A j \in 1 .. Len(r) : r[j] \in Nat
  BY LenProperties, ElementOfSeq
<1>3. I \subseteq d + 1 .. d + Len(s)
  BY <1>1, <1>2, LimiterConstants DEF Aligned
<1>4. IsFiniteSet(d + 1 .. d + Len(s)) /\ Cardinality(d + 1 .. d + Len(s)) = Len(s)
  <2>1. d + 1 \in Int /\ d + Len(s) \in Int
    BY <1>2
  <2>2. /\ IsFiniteSet(d + 1 .. d + Len(s))
        /\ Cardinality(d + 1 .. d + Len(s)) =
             IF d + 1 > d + Len(s) THEN 0 ELSE (d + Len(s)) - (d + 1) + 1
    BY <2>1, FS_Interval
  <2> QED
    BY <1>2, <2>2
<1> HIDE DEF I
<1>5. Cardinality(I) <= Cardinality(d + 1 .. d + Len(s))
  BY <1>3, <1>4, FS_Subset
<1> QED
  BY <1>4, <1>5 DEF I

LEMMA LockTimesStep == LimiterTypeOK /\ LockTimes /\ [LimiterNext]_limiterVars => LockTimes'
<1> SUFFICES ASSUME LimiterTypeOK, LockTimes, [LimiterNext]_limiterVars, NEW q \in Arrivals, arrival'[q].pc = "lock"
             PROVE  arrival'[q].stamp <= now' /\ now' <= arrival'[q].stamp + MaxLag
  BY DEF LockTimes
<1> USE LimiterConstants
<1>0. arrival \in [Arrivals -> Arrival] /\ now \in Nat
  BY DEF LimiterTypeOK
<1>1. CASE ReadClock(q)
  <2>1. arrival'[q].stamp = now /\ now' = now
    BY <1>0, <1>1 DEF ReadClock
  <2> QED
    BY <1>0, <2>1
<1>2. CASE UNCHANGED <<arrival, now>>
  BY <1>2 DEF LockTimes
<1>3. CASE Tick
  <2>1. arrival[q].pc = "lock" /\ arrival'[q].stamp = arrival[q].stamp /\ arrival[q].stamp \in Nat
    BY <1>3, RequestParts DEF Tick
  <2> QED
    BY <1>0, <1>3, <2>1 DEF Tick, LockTimes
<1>4. ASSUME NEW p \in Arrivals, ArrivalStep(p), p # q
      PROVE  arrival'[q].stamp <= now' /\ now' <= arrival'[q].stamp + MaxLag
  <2>1. arrival'[q] = arrival[q] /\ now' = now
    BY <1>0, <1>4 DEF ArrivalStep, Enter, ReadClock, RejectConcurrency, RejectRPM, Admit,
                      Release, Leave, Prunes
  <2> QED
    BY <2>1 DEF LockTimes
<1>5. CASE ArrivalStep(q) /\ ~ReadClock(q)
  <2>1. arrival'[q].pc # "lock"
    BY <1>0, <1>5 DEF ArrivalStep, Enter, RejectConcurrency, RejectRPM, Admit, Release, Leave,
                      Outside
  <2> QED
    BY <2>1
<1> QED
  BY <1>1, <1>2, <1>3, <1>4, <1>5 DEF LimiterNext, UpdateLimits, RemoveKey, Forget, limiterVars

(* What a request counts is what the entry counts, pruned to the request's stamp. *)
LEMMA CountedTracked ==
  ASSUME LimiterTypeOK, LockTimes, RecentTracked, NEW q \in Arrivals, arrival[q].pc = "lock", arrival[q].rpm # 0
  PROVE  Tracks(Counted(q), recent, now)
<1>1. CASE entry = NoState
  BY <1>1 DEF Counted, RecentTracked, Stamps
<1>2. CASE entry # NoState
  <2>1. requests[entry] \in Seq(Nat) /\ recent \in Seq(Nat) /\ now \in Nat
    BY <1>2 DEF LimiterTypeOK
  <2>2. arrival[q].stamp \in Nat /\ arrival[q].stamp <= now
    BY RequestParts DEF LockTimes
  <2>3. Tracks(requests[entry], recent, now)
    BY <1>2 DEF RecentTracked, Stamps
  <2> QED
    BY <1>2, <2>1, <2>2, <2>3, TracksPruned DEF Counted
<1> QED
  BY <1>1, <1>2

LEMMA RecentStep == LimiterTypeOK /\ LockTimes /\ RecentTracked /\ [LimiterNext]_limiterVars => RecentTracked'
<1> SUFFICES ASSUME LimiterTypeOK, LockTimes, RecentTracked, [LimiterNext]_limiterVars PROVE RecentTracked'
  OBVIOUS
<1>0. now \in Nat /\ recent \in Seq(Nat) /\ requests \in [Entries -> Seq(Nat)]
  BY DEF LimiterTypeOK
<1>1. ASSUME NEW q \in Arrivals, NEW e \in Targets, RejectConcurrency(q, e) \/ RejectRPM(q, e)
      PROVE  RecentTracked'
  <2>1. e \in Entries /\ NoState # e /\ arrival[q].pc = "lock"
    BY <1>1, TargetsAreEntries, EntriesAreNaturals DEF RejectConcurrency, RejectRPM
  <2>2. Stamps' = Counted(q) /\ recent' = Remembered(q) /\ now' = now
    BY <1>0, <1>1, <2>1 DEF RejectConcurrency, RejectRPM, Prunes, Stamps
  <2>3. CASE arrival[q].rpm = 0
    BY <1>0, <2>2, <2>3, TracksEmpty DEF RecentTracked, Counted, Remembered
  <2>4. CASE arrival[q].rpm # 0
    BY <2>1, <2>2, <2>4, CountedTracked DEF RecentTracked, Remembered
  <2> QED
    BY <2>3, <2>4
<1>2. ASSUME NEW q \in Arrivals, NEW e \in Targets, Admit(q, e) PROVE RecentTracked'
  <2>1. e \in Entries /\ NoState # e /\ arrival[q].pc = "lock"
    BY <1>2, TargetsAreEntries, EntriesAreNaturals DEF Admit
  <2>2. now' = now /\ entry' = e
        /\ requests' = [requests EXCEPT ![e] = IF arrival[q].rpm = 0 THEN << >>
                                               ELSE Append(Counted(q), arrival[q].stamp)]
        /\ recent' = IF arrival[q].rpm = 0 THEN << >> ELSE Append(Remembered(q), now)
    BY <1>2 DEF Admit, Prunes
  <2>3. CASE arrival[q].rpm = 0
    <3>1. Stamps' = << >> /\ recent' = << >>
      BY <1>0, <2>1, <2>2, <2>3 DEF Stamps
    <3> QED
      BY <1>0, <2>2, <3>1, TracksEmpty DEF RecentTracked
  <2>4. CASE arrival[q].rpm # 0
    <3>1. Stamps' = Append(Counted(q), arrival[q].stamp) /\ recent' = Append(recent, now)
      BY <1>0, <2>1, <2>2, <2>4 DEF Stamps, Remembered
    <3>2. Counted(q) \in Seq(Nat) /\ arrival[q].stamp \in Nat
      BY <2>1, CountedType, RequestParts
    <3>3. arrival[q].stamp <= now /\ now <= arrival[q].stamp + MaxLag
      BY <2>1 DEF LockTimes
    <3>4. Tracks(Counted(q), recent, now)
      BY <2>1, <2>4, CountedTracked
    <3> QED
      BY <1>0, <2>2, <3>1, <3>2, <3>3, <3>4, TracksAppended DEF RecentTracked
  <2> QED
    BY <2>3, <2>4
<1>3. ASSUME NEW q \in Arrivals, Release(q) PROVE RecentTracked'
  <2>1. now' = now /\ recent' = recent /\ Stamps' = Stamps
    BY <1>3 DEF Release, Drops, Stamps
  <2> QED
    BY <2>1 DEF RecentTracked
<1>4. CASE Forget
  <2>1. now' = now /\ recent' = << >> /\ Stamps' = << >>
    BY <1>4 DEF Forget, Stamps
  <2> QED
    BY <1>0, <2>1, TracksEmpty DEF RecentTracked
<1>5. CASE Tick
  <2>1. now' = now + 1 /\ recent' = recent /\ Stamps' = Stamps
    BY <1>5 DEF Tick, Stamps
  <2>2. Stamps \in Seq(Nat)
    BY <1>0 DEF LimiterTypeOK, Stamps
  <2> QED
    BY <1>0, <2>1, <2>2, TracksLater DEF RecentTracked
<1>6. CASE UNCHANGED <<entry, requests, recent, now>>
  BY <1>6 DEF RecentTracked, Stamps
<1> QED
  BY <1>1, <1>2, <1>3, <1>4, <1>5, <1>6
     DEF LimiterNext, ArrivalStep, Enter, ReadClock, Leave, UpdateLimits, RemoveKey, limiterVars

(* The rolling window holds for every limit and window, with the slack of MaxLag. *)
THEOREM RollingRPMHolds == LimiterSpec => RollingRPM
<1>1. LimiterInit => LockTimes /\ RecentTracked
  <2> SUFFICES ASSUME LimiterInit PROVE LockTimes /\ RecentTracked
    OBVIOUS
  <2>1. LockTimes
    BY DEF LimiterInit, LockTimes, Outside
  <2>2. Stamps = << >> /\ recent = << >> /\ now = 0
    BY DEF LimiterInit, Stamps
  <2> QED
    BY <2>1, <2>2, TracksEmpty DEF RecentTracked
<1>2. LimiterSpec => [](LimiterTypeOK /\ LockTimes /\ RecentTracked)
  BY <1>1, LockTimesStep, RecentStep, TypeCorrect, PTL DEF LimiterSpec
<1>3. LimiterTypeOK /\ LockTimes /\ RecentTracked /\ [LimiterNext]_limiterVars =>
        [\A q \in Arrivals :
           /\ arrival[q].pc = "lock" /\ arrival'[q].pc = "running"
           /\ arrival[q].rpm > 0
           => Cardinality({i \in DOMAIN recent : recent[i] > now - (Window - MaxLag)})
                < arrival[q].rpm]_limiterVars
  <2> SUFFICES ASSUME LimiterTypeOK, LockTimes, RecentTracked, LimiterNext, NEW q \in Arrivals,
                      arrival[q].pc = "lock", arrival'[q].pc = "running", arrival[q].rpm > 0
               PROVE  Cardinality({i \in DOMAIN recent : recent[i] > now - (Window - MaxLag)})
                        < arrival[q].rpm
    OBVIOUS
  <2> DEFINE n == Cardinality({i \in DOMAIN recent : recent[i] > now - (Window - MaxLag)})
  <2>1. PICK e \in Targets : Admit(q, e)
    BY OnlyAdmitStarts
  <2>2. Counted(q) \in Seq(Nat) /\ arrival[q].rpm \in Nat /\ recent \in Seq(Nat) /\ now \in Nat
    BY CountedType, RequestParts DEF LimiterTypeOK
  <2>3. n <= Len(Counted(q))
    BY <2>2, CountedTracked, TracksBounds
  <2>4. ~(Len(Counted(q)) >= arrival[q].rpm)
    BY <2>1 DEF Admit, TooFast
  <2>5. n \in Nat
    <3>1. Len(recent) \in Nat /\ DOMAIN recent = 1 .. Len(recent)
      BY <2>2, LenProperties
    <3>2. \A m \in Nat : IsFiniteSet(1 .. m)
      <4>1. ASSUME NEW m \in Nat PROVE IsFiniteSet(1 .. m)
        <5>1. 1 \in Int /\ m \in Int
          OBVIOUS
        <5> QED
          BY <5>1, FS_Interval
      <4> QED
        BY <4>1
    <3>3. {i \in DOMAIN recent : recent[i] > now - (Window - MaxLag)} \in SUBSET (1 .. Len(recent))
      BY <3>1
    <3>4. IsFiniteSet({i \in DOMAIN recent : recent[i] > now - (Window - MaxLag)})
      BY <3>1, <3>2, <3>3, FS_Subset
    <3> QED
      BY <3>4, FS_CardinalityType
  <2> HIDE DEF n
  <2>6. n < arrival[q].rpm
    BY <2>2, <2>3, <2>4, <2>5, LenProperties
  <2> QED
    BY <2>6 DEF n
<1> QED
  BY <1>2, <1>3, PTL DEF LimiterSpec, RollingRPM
-----------------------------------------------------------------------------
(***************************************************************************)
(* Retry-After.  The entry never counts more stamps than the highest limit *)
(* that may be set; a request rejected under that limit finds room as soon *)
(* as the oldest stamp expires, and its Retry-After is not before that.  A *)
(* limit lowered below the stamps counted already breaks the promise.      *)
(***************************************************************************)
Highest(m) == \A l \in Limits : l.rpm <= m

LimitsHeld ==
  \A q \in Arrivals :
    arrival[q].pc \in {"clock", "lock", "rejected"} => \E l \in Limits : l.rpm = arrival[q].rpm
StampsBounded == \A m \in Nat : Highest(m) => Len(Stamps) <= m
Rejection(r) ==
  /\ r.rpm > 0
  /\ Len(r.counted) >= 1
  /\ r.counted[1] + Window <= r.retryAt
  /\ \A m \in Nat : Highest(m) => Len(r.counted) <= m
Rejections == \A q \in Arrivals : arrival[q].pc = "rejected" => Rejection(arrival[q])

RetryInv == LimitsHeld /\ StampsBounded /\ Rejections

(* A stamp that has expired leaves room. *)
LEMMA FirstExpires ==
  ASSUME NEW s \in Seq(Nat), NEW t \in Nat, Len(s) >= 1, s[1] + Window <= t
  PROVE  Len(Unexpired(s, t)) \in Nat /\ Len(Unexpired(s, t)) < Len(s)
<1> DEFINE L == Leading(s, t - Window)
           k == Cardinality(L)
<1>1. Len(s) \in Nat /\ DOMAIN s = 1 .. Len(s) /\ \A i \in 1 .. Len(s) : s[i] \in Nat
  BY LenProperties, ElementOfSeq
<1>2. Window \in Nat /\ t - Window \in Int
  BY LimiterConstants
<1>3. 1 \in L
  <2>1. 1 \in 1 .. Len(s) /\ s[1] <= t - Window
    BY <1>1, <1>2
  <2>2. \A i \in 1 .. 1 : i = 1
    OBVIOUS
  <2> QED
    BY <1>1, <2>1, <2>2 DEF Leading
<1>4. IsFiniteSet(L)
  <2>1. L \in SUBSET (1 .. Len(s)) /\ IsFiniteSet(1 .. Len(s))
    BY <1>1, FS_Interval DEF Leading
  <2> QED
    BY <2>1, FS_Subset
<1> HIDE DEF L
<1>5. k \in Nat /\ k # 0
  BY <1>3, <1>4, FS_EmptySet, FS_CardinalityType
<1>6. k \in 0 .. Len(s)
  BY <1>2, LeadingIsPrefix DEF L
<1> HIDE DEF k
<1>7. \A i \in k + 1 .. Len(s) : s[i] \in Nat
  BY <1>1, <1>6
<1>8. Len(SubSeq(s, k + 1, Len(s))) = IF k + 1 <= Len(s) THEN Len(s) - (k + 1) + 1 ELSE 0
  BY <1>1, <1>5, <1>7, SubSeqProperties
<1>9. Unexpired(s, t) = SubSeq(s, k + 1, Len(s))
  BY DEF Unexpired, L, k
<1> QED
  BY <1>1, <1>5, <1>6, <1>8, <1>9

(* Pruning leaves no more stamps than there were. *)
LEMMA CountedBounded ==
  ASSUME LimiterTypeOK, StampsBounded, NEW q \in Arrivals, arrival[q].pc = "lock",
         NEW m \in Nat, Highest(m)
  PROVE  Len(Counted(q)) <= m
<1>1. CASE arrival[q].rpm = 0 \/ entry = NoState
  BY <1>1 DEF Counted
<1>2. CASE ~(arrival[q].rpm = 0 \/ entry = NoState)
  <2>1. requests[entry] \in Seq(Nat) /\ arrival[q].stamp \in Nat
    BY <1>2, RequestParts DEF LimiterTypeOK
  <2>2. PICK k \in 0 .. Len(requests[entry]) :
          Len(Unexpired(requests[entry], arrival[q].stamp)) = Len(requests[entry]) - k
    BY <2>1, UnexpiredIsSuffix
  <2>3. Len(requests[entry]) <= m /\ Len(requests[entry]) \in Nat
    BY <1>2, <2>1, LenProperties DEF StampsBounded, Stamps
  <2> QED
    BY <1>2, <2>2, <2>3 DEF Counted
<1> QED
  BY <1>1, <1>2

(* The seconds are rounded up. *)
LEMMA RoundedUp ==
  ASSUME NEW x \in Int, NEW s \in Nat \ {0}
  PROVE  (x + s - 1) \div s \in Int /\ x <= ((x + s - 1) \div s) * s
<1> DEFINE n == x + s - 1
           d == n \div s
<1>1. n \in Int /\ d \in Int /\ n % s \in 0 .. s - 1 /\ n = s * d + (n % s)
  OBVIOUS
<1> QED
  BY <1>1

LEMMA RetryAtExpires ==
  ASSUME LimiterTypeOK, NEW q \in Arrivals, arrival[q].pc = "lock", TooFast(q)
  PROVE  /\ Len(Counted(q)) >= 1
         /\ Counted(q)[1] + Window <= arrival[q].stamp + RetryAfter(q) * Second
<1>1. Counted(q) \in Seq(Nat) /\ arrival[q].stamp \in Nat /\ arrival[q].rpm \in Nat
  BY CountedType, RequestParts
<1>2. Len(Counted(q)) \in Nat /\ Len(Counted(q)) >= 1
  BY <1>1, LenProperties DEF TooFast
<1>3. Counted(q)[1] \in Nat
  BY <1>1, <1>2, ElementOfSeq
<1>4. PICK x \in Int : x = Counted(q)[1] + Window - arrival[q].stamp
  BY <1>1, <1>3, LimiterConstants
<1>5. PICK secs \in Int : secs = (x + Second - 1) \div Second /\ x <= secs * Second
  BY RoundedUp, LimiterConstants
<1>6. RetryAfter(q) = IF secs < 1 THEN 1 ELSE secs
  BY <1>4, <1>5 DEF RetryAfter
<1>7. RetryAfter(q) \in Int /\ secs <= RetryAfter(q) /\ Second \in Nat
  BY <1>6, LimiterConstants
<1>8. secs * Second <= RetryAfter(q) * Second /\ RetryAfter(q) * Second \in Int /\ secs * Second \in Int
  BY <1>7
<1>9. PICK wait \in Int : wait = RetryAfter(q) * Second
  BY <1>8
<1>10. x <= wait
  BY <1>5, <1>8, <1>9
<1>11. Counted(q)[1] + Window <= arrival[q].stamp + wait
  BY <1>1, <1>3, <1>4, <1>10, LimiterConstants
<1> QED
  BY <1>2, <1>9, <1>11

LEMMA RetryStep == LimiterTypeOK /\ RetryInv /\ [LimiterNext]_limiterVars => RetryInv'
<1> SUFFICES ASSUME LimiterTypeOK, RetryInv, [LimiterNext]_limiterVars PROVE RetryInv'
  OBVIOUS
<1> USE LimiterConstants
<1>1. arrival \in [Arrivals -> Arrival] /\ requests \in [Entries -> Seq(Nat)] /\ limits \in Limits
  BY DEF LimiterTypeOK
<1>2. LimitsHeld /\ StampsBounded /\ Rejections
  BY DEF RetryInv
(* What becomes of the requests other than q, and of q. *)
<1>3. ASSUME NEW q \in Arrivals, NEW r, arrival' = [arrival EXCEPT ![q] = r],
             r.pc \in {"clock", "lock", "rejected"} => \E l \in Limits : l.rpm = r.rpm,
             r.pc = "rejected" => Rejection(r)
      PROVE  LimitsHeld' /\ Rejections'
  <2>1. \A p \in Arrivals : arrival'[p] = IF p = q THEN r ELSE arrival[p]
    BY <1>1, <1>3
  <2> QED
    BY <1>2, <1>3, <2>1 DEF LimitsHeld, Rejections
<1>4. ASSUME UNCHANGED arrival PROVE LimitsHeld' /\ Rejections'
  BY <1>2, <1>4 DEF LimitsHeld, Rejections
<1>5. ASSUME Stamps' = Stamps PROVE StampsBounded'
  BY <1>2, <1>5 DEF StampsBounded
<1>6. ASSUME NEW q \in Arrivals, NEW e \in Targets, RejectConcurrency(q, e) \/ RejectRPM(q, e)
      PROVE  StampsBounded'
  <2>1. e \in Entries /\ e # NoState /\ arrival[q].pc = "lock" /\ Prunes(e, Counted(q))
    BY <1>6, TargetsAreEntries, EntriesAreNaturals DEF RejectConcurrency, RejectRPM
  <2>2. Stamps' = Counted(q)
    BY <1>1, <2>1 DEF Prunes, Stamps
  <2> QED
    BY <1>2, <2>1, <2>2, CountedBounded DEF StampsBounded
<1>7. ASSUME NEW q \in Arrivals, Enter(q) PROVE RetryInv'
  <2> DEFINE r == [pc |-> "clock", rpm |-> limits.rpm, concurrency |-> limits.concurrency]
  <2>1. arrival' = [arrival EXCEPT ![q] = r] /\ Stamps' = Stamps
    BY <1>7 DEF Enter, Stamps
  <2>2. r.pc = "clock" /\ r.rpm = limits.rpm
    OBVIOUS
  <2> HIDE DEF r
  <2> QED
    BY <1>1, <1>3, <1>5, <2>1, <2>2 DEF RetryInv
<1>8. ASSUME NEW q \in Arrivals, ReadClock(q) PROVE RetryInv'
  <2> DEFINE r == [pc |-> "lock", rpm |-> arrival[q].rpm, concurrency |-> arrival[q].concurrency, stamp |-> now]
  <2>1. arrival' = [arrival EXCEPT ![q] = r] /\ Stamps' = Stamps /\ arrival[q].pc = "clock"
    BY <1>8 DEF ReadClock, Stamps
  <2>2. r.pc = "lock" /\ r.rpm = arrival[q].rpm
    OBVIOUS
  <2> HIDE DEF r
  <2>3. \E l \in Limits : l.rpm = r.rpm
    BY <1>2, <2>1, <2>2 DEF LimitsHeld
  <2> QED
    BY <1>3, <1>5, <2>1, <2>2, <2>3 DEF RetryInv
<1>9. ASSUME NEW q \in Arrivals, arrival' = [arrival EXCEPT ![q] = Outside] PROVE LimitsHeld' /\ Rejections'
  BY <1>3, <1>9 DEF Outside
<1>10. ASSUME NEW q \in Arrivals, NEW e \in Targets, RejectConcurrency(q, e) PROVE RetryInv'
  BY <1>6, <1>9, <1>10 DEF RejectConcurrency, RetryInv
<1>11. ASSUME NEW q \in Arrivals, NEW e \in Targets, RejectRPM(q, e) PROVE RetryInv'
  <2> DEFINE r == [pc |-> "rejected", rpm |-> arrival[q].rpm, counted |-> Counted(q),
                   retryAt |-> arrival[q].stamp + RetryAfter(q) * Second]
  <2>1. arrival' = [arrival EXCEPT ![q] = r] /\ arrival[q].pc = "lock" /\ TooFast(q)
    BY <1>11 DEF RejectRPM
  <2>2. /\ r.pc = "rejected" /\ r.rpm = arrival[q].rpm /\ r.counted = Counted(q)
        /\ r.retryAt = arrival[q].stamp + RetryAfter(q) * Second
    OBVIOUS
  <2> HIDE DEF r
  <2>3. \E l \in Limits : l.rpm = r.rpm
    BY <1>2, <2>1, <2>2 DEF LimitsHeld
  <2>4. Rejection(r)
    BY <1>2, <2>1, <2>2, RetryAtExpires, CountedBounded DEF Rejection, TooFast
  <2> QED
    BY <1>3, <1>6, <1>11, <2>1, <2>3, <2>4 DEF RetryInv
<1>12. ASSUME NEW q \in Arrivals, NEW e \in Targets, Admit(q, e) PROVE RetryInv'
  <2>1. e \in Entries /\ e # NoState /\ arrival[q].pc = "lock" /\ ~TooFast(q)
        /\ Prunes(e, IF arrival[q].rpm = 0 THEN << >> ELSE Append(Counted(q), arrival[q].stamp))
    BY <1>12, TargetsAreEntries, EntriesAreNaturals DEF Admit
  <2>2. Stamps' = IF arrival[q].rpm = 0 THEN << >> ELSE Append(Counted(q), arrival[q].stamp)
    BY <1>1, <2>1 DEF Prunes, Stamps
  <2>3. ASSUME NEW m \in Nat, Highest(m) PROVE Len(Stamps') <= m
    <3>1. CASE arrival[q].rpm = 0
      BY <2>2, <3>1
    <3>2. CASE arrival[q].rpm # 0
      <4>1. Counted(q) \in Seq(Nat) /\ arrival[q].rpm \in Nat /\ Len(Counted(q)) \in Nat
        BY <2>1, CountedType, RequestParts, LenProperties
      <4>2. Len(Counted(q)) < arrival[q].rpm
        BY <2>1, <3>2, <4>1 DEF TooFast
      <4>3. arrival[q].rpm <= m
        BY <1>2, <2>1, <2>3 DEF LimitsHeld, Highest
      <4>4. Len(Append(Counted(q), arrival[q].stamp)) = Len(Counted(q)) + 1
        BY <4>1
      <4> QED
        BY <2>2, <3>2, <4>1, <4>2, <4>3, <4>4
    <3> QED
      BY <3>1, <3>2
  <2>4. LimitsHeld' /\ Rejections'
    <3> DEFINE r == [pc |-> "running", entry |-> e]
    <3>1. arrival' = [arrival EXCEPT ![q] = r] /\ r.pc = "running"
      BY <1>12 DEF Admit
    <3> HIDE DEF r
    <3> QED
      BY <1>3, <3>1
  <2> QED
    BY <2>3, <2>4 DEF RetryInv, StampsBounded
<1>13. ASSUME NEW q \in Arrivals, Release(q) PROVE RetryInv'
  BY <1>5, <1>9, <1>13 DEF Release, Drops, Stamps, RetryInv
<1>14. ASSUME NEW q \in Arrivals, Leave(q) PROVE RetryInv'
  BY <1>5, <1>9, <1>14 DEF Leave, Stamps, RetryInv
<1>15. CASE Forget
  <2>1. Stamps' = << >>
    BY <1>15 DEF Forget, Stamps
  <2> QED
    BY <1>4, <1>15, <2>1 DEF Forget, RetryInv, StampsBounded
<1>16. CASE UNCHANGED <<arrival, entry, requests>>
  BY <1>4, <1>5, <1>16 DEF RetryInv, Stamps
<1> QED
  BY <1>7, <1>8, <1>10, <1>11, <1>12, <1>13, <1>14, <1>15, <1>16
     DEF LimiterNext, ArrivalStep, UpdateLimits, RemoveKey, Tick, limiterVars

LEMMA RetryInvHolds == LimiterSpec => []RetryInv
<1>1. LimiterInit => RetryInv
  <2> SUFFICES ASSUME LimiterInit PROVE RetryInv
    OBVIOUS
  <2>1. Stamps = << >> /\ \A q \in Arrivals : arrival[q].pc = "idle"
    BY DEF LimiterInit, Stamps, Outside
  <2> QED
    BY <2>1 DEF RetryInv, LimitsHeld, StampsBounded, Rejections
<1> QED
  BY <1>1, RetryStep, TypeCorrect, PTL DEF LimiterSpec

(* A request rejected under the highest limit there may be is let in once its *)
(* Retry-After has passed, if no other request came before it.                *)
LEMMA HighestSuffices ==
  ASSUME LimiterTypeOK, RetryInv, NEW q \in Arrivals, arrival[q].pc = "rejected", Highest(arrival[q].rpm)
  PROVE  Len(Unexpired(arrival[q].counted, arrival[q].retryAt)) < arrival[q].rpm
<1>1. arrival[q].counted \in Seq(Nat) /\ arrival[q].retryAt \in Nat /\ arrival[q].rpm \in Nat
  <2>1. arrival[q] \in Arrival
    BY DEF LimiterTypeOK
  <2> QED
    BY <2>1 DEF Arrival, Outside
<1>2. Rejection(arrival[q])
  BY DEF RetryInv, Rejections
<1>3. Len(arrival[q].counted) <= arrival[q].rpm /\ Len(arrival[q].counted) \in Nat
  BY <1>1, <1>2, LenProperties DEF Rejection
<1>4. /\ Len(Unexpired(arrival[q].counted, arrival[q].retryAt)) \in Nat
      /\ Len(Unexpired(arrival[q].counted, arrival[q].retryAt)) < Len(arrival[q].counted)
  BY <1>1, <1>2, FirstExpires DEF Rejection
<1> QED
  BY <1>1, <1>3, <1>4

(* Retry-After is honest while the limit stays: it may be switched off and on, *)
(* and the concurrency limit may be anything, but the RPM limit has one value. *)
THEOREM RetryAfterHolds ==
  ASSUME \A l, m \in Limits : l.rpm # 0 /\ m.rpm # 0 => l.rpm = m.rpm
  PROVE  LimiterSpec => []RetryAfterSuffices
<1>1. LimiterTypeOK /\ RetryInv => RetryAfterSuffices
  <2> SUFFICES ASSUME LimiterTypeOK, RetryInv, NEW q \in Arrivals, arrival[q].pc = "rejected"
               PROVE  Len(Unexpired(arrival[q].counted, arrival[q].retryAt)) < arrival[q].rpm
    BY DEF RetryAfterSuffices
  <2>1. PICK l \in Limits : l.rpm = arrival[q].rpm
    BY DEF RetryInv, LimitsHeld
  <2>2. arrival[q].rpm > 0
    BY DEF RetryInv, Rejections, Rejection
  <2>3. \A m \in Limits : m.rpm \in Nat /\ (m.rpm = 0 \/ m.rpm = arrival[q].rpm)
    BY <2>1, <2>2, LimiterConstants
  <2>4. Highest(arrival[q].rpm)
    BY <2>1, <2>2, <2>3 DEF Highest
  <2> QED
    BY <2>4, HighestSuffices
<1> QED
  BY <1>1, RetryInvHolds, TypeCorrect, PTL
=============================================================================
