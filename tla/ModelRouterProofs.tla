------------------------- MODULE ModelRouterProofs -------------------------
(***************************************************************************)
(* Proofs about ModelRouter for every set of keys, accounts and requests.  *)
(***************************************************************************)
EXTENDS ModelRouter, FiniteSetTheorems, SequenceTheorems, TLAPS

-----------------------------------------------------------------------------
(* What the local state of a request may be, by its pc. *)
LEMMA RequestParts ==
  ASSUME TypeOK, NEW q \in Requests
  PROVE  /\ req[q].pc \in {"idle", "read", "list", "choose", "persist", "routed"}
         /\ req[q].pc # "idle" => req[q].key \in Keys
         /\ req[q].pc \in {"read", "list", "choose"} => req[q].snapshot \in MaybeAccount
         /\ req[q].pc = "read" => req[q].strategy \in Strategies
         /\ req[q].pc \in {"list", "choose"} => req[q].cands \in Seq(Accounts)
         /\ req[q].pc \in {"list", "choose"} => DOMAIN req[q].cands # {}
         /\ req[q].pc \in {"persist", "routed"} => req[q].account \in Accounts
<1>1. req[q] \in Request
  BY DEF TypeOK
<1> QED
  BY <1>1 DEF Request, Idle, TypeOK

LEMMA OfferedAreAccounts ==
  ASSUME TypeOK, NEW q \in Requests, req[q].pc \in {"list", "choose"}
  PROVE  /\ Offered(req[q].cands) \subseteq Accounts
         /\ \A i \in DOMAIN req[q].cands : req[q].cands[i] \in Offered(req[q].cands)
<1>1. req[q].cands \in Seq(Accounts)
  BY RequestParts
<1>2. \A i \in DOMAIN req[q].cands : req[q].cands[i] \in Accounts
  BY <1>1
<1> QED
  BY <1>2 DEF Offered

LEMMA PrioritizedAmong ==
  ASSUME NEW S \in SUBSET Accounts
  PROVE  Prioritized(S) \subseteq S /\ (S # {} => Prioritized(S) # {})
BY DEF Prioritized

LEMMA CandidatesAreAccounts ==
  /\ Eligible \subseteq Accounts
  /\ Prioritized(Eligible) \subseteq Eligible
BY PrioritizedAmong DEF Eligible

(* The sorted candidates are a sequence of them, without a gap. *)
LEMMA SortedIsSeq ==
  ASSUME NEW S \in SUBSET Accounts, S # {}, NEW c \in Sorted(S)
  PROVE  c \in Seq(Accounts) /\ DOMAIN c # {} /\ Offered(c) = S
<1>1. IsFiniteSet(S)
  BY RouterConstants, FS_Subset
<1>2. Cardinality(S) \in Nat
  BY <1>1, FS_CardinalityType
<1>3. Cardinality(S) # 0
  BY <1>1, FS_EmptySet
<1>4. c \in [1 .. Cardinality(S) -> S] /\ Offered(c) = S
  BY DEF Sorted
<1>5. c \in [1 .. Cardinality(S) -> Accounts]
  BY <1>4
<1>6. c \in Seq(Accounts)
  BY <1>2, <1>5
<1>7. 1 \in DOMAIN c
  BY <1>2, <1>3, <1>4
<1> QED
  BY <1>4, <1>6, <1>7

-----------------------------------------------------------------------------
(* Type correctness. *)
LEMMA SaveType ==
  ASSUME TypeOK, NEW m \in [Keys -> KeyRow \cup {NoKey}], NEW f \in BOOLEAN, Save(m, f)
  PROVE  /\ stored' \in [Keys -> KeyRow \cup {NoKey}]
         /\ disk' \in [Keys -> KeyRow \cup {NoKey}]
         /\ failures' \in 0 .. MaxFailures
BY RouterConstants DEF TypeOK, Save

LEMMA RequestTypes ==
  ASSUME TypeOK, NEW q \in Requests, NEW r \in Request,
         r.pc \in {"list", "choose"} => DOMAIN r.cands # {},
         req' = [req EXCEPT ![q] = r]
  PROVE  /\ req' \in [Requests -> Request]
         /\ \A p \in Requests : req'[p].pc \in {"list", "choose"} => DOMAIN req'[p].cands # {}
BY DEF TypeOK

LEMMA IdleType == Idle \in Request /\ Idle.pc = "idle"
BY DEF Idle, Request

LEMMA TypeStep == TypeOK /\ [Next]_vars => TypeOK'
<1> SUFFICES ASSUME TypeOK, [Next]_vars PROVE TypeOK'
  OBVIOUS
<1>1. ASSUME NEW q \in Requests, NEW k \in Keys, Authenticate(q, k) PROVE TypeOK'
  <2> DEFINE r == [pc |-> "read", key |-> k, snapshot |-> stored[k].binding,
                   strategy |-> stored[k].strategy]
  <2>1. stored[k] \in KeyRow
    BY <1>1 DEF Authenticate, Live, TypeOK
  <2>2. r \in Request /\ r.pc = "read"
    BY <2>1 DEF KeyRow, Request
  <2>3. req' = [req EXCEPT ![q] = r]
    BY <1>1 DEF Authenticate
  <2> HIDE DEF r
  <2>4. /\ req' \in [Requests -> Request]
        /\ \A p \in Requests : req'[p].pc \in {"list", "choose"} => DOMAIN req'[p].cands # {}
    BY <2>2, <2>3, RequestTypes
  <2> QED
    BY <1>1, <2>4 DEF Authenticate, TypeOK, evars, svars, rvars, hvars
<1>2. ASSUME NEW q \in Requests, ReadAccounts(q) PROVE TypeOK'
  <2>1. req[q].key \in Keys /\ req[q].snapshot \in MaybeAccount
    BY <1>2, RequestParts DEF ReadAccounts
  <2>2. \E r \in Request : /\ r.pc \in {"list", "choose"} => DOMAIN r.cands # {}
                           /\ req' = [req EXCEPT ![q] = r]
    <3>1. CASE NoCandidate /\ req' = [req EXCEPT ![q] = Idle]
      BY <3>1, IdleType
    <3>2. CASE ~NoCandidate /\ \E c \in Sorted(Prioritized(Eligible)) :
                 req' = [req EXCEPT ![q] = [pc |-> "list", key |-> req[q].key,
                                            snapshot |-> req[q].snapshot, cands |-> c]]
      <4>1. PICK c \in Sorted(Prioritized(Eligible)) :
              req' = [req EXCEPT ![q] = [pc |-> "list", key |-> req[q].key,
                                         snapshot |-> req[q].snapshot, cands |-> c]]
        BY <3>2
      <4>2. c \in Seq(Accounts) /\ DOMAIN c # {}
        BY <3>2, CandidatesAreAccounts, SortedIsSeq DEF NoCandidate
      <4> DEFINE r == [pc |-> "list", key |-> req[q].key, snapshot |-> req[q].snapshot, cands |-> c]
      <4>3. r \in Request /\ r.cands = c
        BY <2>1, <4>2 DEF Request
      <4> QED
        BY <4>1, <4>2, <4>3
    <3>3. CASE \E a \in Prioritized(Eligible) :
                 req' = [req EXCEPT ![q] = [pc |-> "routed", key |-> req[q].key, account |-> a]]
      <4>1. PICK a \in Prioritized(Eligible) :
              req' = [req EXCEPT ![q] = [pc |-> "routed", key |-> req[q].key, account |-> a]]
        BY <3>3
      <4>2. a \in Accounts
        BY CandidatesAreAccounts
      <4> DEFINE r == [pc |-> "routed", key |-> req[q].key, account |-> a]
      <4>3. r \in Request /\ r.pc = "routed"
        BY <2>1, <4>2 DEF Request
      <4> QED
        BY <4>1, <4>3
    <3> QED
      BY <1>2, <3>1, <3>2, <3>3 DEF ReadAccounts
  <2>3. /\ req' \in [Requests -> Request]
        /\ \A p \in Requests : req'[p].pc \in {"list", "choose"} => DOMAIN req'[p].cands # {}
    BY <2>2, RequestTypes
  <2>4. refused' \in [Requests -> SUBSET Accounts]
    BY <1>2 DEF ReadAccounts, TypeOK
  <2> QED
    BY <1>2, <2>3, <2>4 DEF ReadAccounts, TypeOK, evars, svars, rvars
<1>3. ASSUME NEW q \in Requests, ReadAssignments(q) PROVE TypeOK'
  <2>1. /\ req[q].key \in Keys /\ req[q].snapshot \in MaybeAccount
        /\ req[q].cands \in Seq(Accounts) /\ DOMAIN req[q].cands # {}
    BY <1>3, RequestParts DEF ReadAssignments
  <2>2. StoredAssignments \in [Keys -> MaybeAccount]
    BY DEF StoredAssignments, Live, TypeOK, KeyRow, MaybeAccount
  <2> DEFINE r == [pc |-> "choose", key |-> req[q].key, snapshot |-> req[q].snapshot,
                   cands |-> req[q].cands, assigned |-> StoredAssignments]
  <2>3. r \in Request /\ r.cands = req[q].cands
    BY <2>1, <2>2 DEF Request
  <2>4. req' = [req EXCEPT ![q] = r]
    BY <1>3 DEF ReadAssignments
  <2> HIDE DEF r
  <2>5. /\ req' \in [Requests -> Request]
        /\ \A p \in Requests : req'[p].pc \in {"list", "choose"} => DOMAIN req'[p].cands # {}
    BY <2>1, <2>3, <2>4, RequestTypes
  <2> QED
    BY <1>3, <2>5 DEF ReadAssignments, TypeOK, evars, svars, rvars, hvars
<1>4. ASSUME NEW q \in Requests, NEW a \in Accounts, NEW b \in BOOLEAN, Route(q, a, b),
             req[q].pc = "choose"
      PROVE  /\ bindings' \in [Keys -> MaybeAccount]
             /\ req' \in [Requests -> Request]
             /\ \A p \in Requests : req'[p].pc \in {"list", "choose"} => DOMAIN req'[p].cands # {}
  <2>1. req[q].key \in Keys
    BY <1>4, RequestParts
  <2> DEFINE r == [pc |-> IF b THEN "persist" ELSE "routed", key |-> req[q].key, account |-> a]
  <2>2. r \in Request /\ r.pc \in {"persist", "routed"}
    BY <2>1 DEF Request
  <2>3. req' = [req EXCEPT ![q] = r]
    BY <1>4 DEF Route
  <2> HIDE DEF r
  <2>4. /\ req' \in [Requests -> Request]
        /\ \A p \in Requests : req'[p].pc \in {"list", "choose"} => DOMAIN req'[p].cands # {}
    BY <2>2, <2>3, RequestTypes
  <2> QED
    BY <1>4, <2>4 DEF Route, TypeOK, MaybeAccount
<1>5. ASSUME NEW q \in Requests, KeepBinding(q) PROVE TypeOK'
  <2>1. Bound(q) \in Accounts
    BY <1>5, OfferedAreAccounts DEF KeepBinding
  <2>2. /\ bindings' \in [Keys -> MaybeAccount]
        /\ req' \in [Requests -> Request]
        /\ \A p \in Requests : req'[p].pc \in {"list", "choose"} => DOMAIN req'[p].cands # {}
    BY <1>4, <1>5, <2>1 DEF KeepBinding
  <2>3. lastRoute' \in [Keys -> MaybeAccount]
    BY <1>5, <2>1 DEF KeepBinding, Returns, TypeOK, MaybeAccount
  <2> QED
    BY <1>5, <2>2, <2>3 DEF KeepBinding, TypeOK, evars, svars
<1>6. ASSUME NEW q \in Requests, Assign(q) PROVE TypeOK'
  <2>1. PICK i \in DOMAIN req[q].cands : Route(q, req[q].cands[i], TRUE)
    BY <1>6 DEF Assign
  <2>2. req[q].cands[i] \in Accounts
    BY <1>6, OfferedAreAccounts DEF Assign
  <2>3. /\ bindings' \in [Keys -> MaybeAccount]
        /\ req' \in [Requests -> Request]
        /\ \A p \in Requests : req'[p].pc \in {"list", "choose"} => DOMAIN req'[p].cands # {}
    BY <1>4, <1>6, <2>1, <2>2 DEF Assign
  <2>4. next' \in 0 .. Cycle - 1
    BY <1>6, RouterConstants DEF Assign, TypeOK
  <2> QED
    BY <1>6, <2>3, <2>4 DEF Assign, TypeOK, evars, svars, hvars
<1>7. ASSUME NEW q \in Requests, NEW f \in BOOLEAN, Persist(q, f) PROVE TypeOK'
  <2>1. req[q].key \in Keys /\ req[q].account \in Accounts
    BY <1>7, RequestParts DEF Persist
  <2> DEFINE k == req[q].key
             a == req[q].account
  <2>2. /\ stored' \in [Keys -> KeyRow \cup {NoKey}]
        /\ disk' \in [Keys -> KeyRow \cup {NoKey}]
        /\ failures' \in 0 .. MaxFailures
    <3>1. CASE Rebinds(k, a)
      <4>1. stored[k] \in KeyRow
        BY <2>1, <3>1 DEF Rebinds, Live, TypeOK
      <4>2. [stored[k] EXCEPT !.binding = a] \in KeyRow
        BY <2>1, <4>1 DEF KeyRow, MaybeAccount
      <4>3. [stored EXCEPT ![k].binding = a] \in [Keys -> KeyRow \cup {NoKey}]
        BY <2>1, <4>2 DEF TypeOK
      <4>4. Save([stored EXCEPT ![k].binding = a], f)
        BY <1>7, <3>1 DEF Persist
      <4> QED
        BY <4>3, <4>4, SaveType
    <3>2. CASE ~Rebinds(k, a)
      BY <1>7, <3>2 DEF Persist, TypeOK
    <3> QED
      BY <3>1, <3>2
  <2> DEFINE r == [req[q] EXCEPT !.pc = "routed"]
  <2>3. r \in Request /\ r.pc = "routed"
    <3>1. req[q] \in [pc : {"persist", "routed"}, key : Keys, account : Accounts]
      BY <1>7 DEF Persist, TypeOK, Request, Idle
    <3> QED
      BY <3>1 DEF Request
  <2>4. req' = [req EXCEPT ![q] = r]
    BY <1>7 DEF Persist, TypeOK
  <2> HIDE DEF r
  <2>5. /\ req' \in [Requests -> Request]
        /\ \A p \in Requests : req'[p].pc \in {"list", "choose"} => DOMAIN req'[p].cands # {}
    BY <2>3, <2>4, RequestTypes
  <2>6. lastRoute' \in [Keys -> MaybeAccount]
    BY <1>7, <2>1 DEF Persist, Returns, TypeOK, MaybeAccount
  <2> QED
    BY <1>7, <2>2, <2>5, <2>6 DEF Persist, TypeOK, evars, rvars
<1>8. ASSUME NEW q \in Requests, NEW ok \in BOOLEAN, NEW f \in BOOLEAN, Finish(q, ok, f)
      PROVE  TypeOK'
  <2>1. req[q].account \in Accounts
    BY <1>8, RequestParts DEF Finish
  <2>2. /\ stored' \in [Keys -> KeyRow \cup {NoKey}]
        /\ disk' \in [Keys -> KeyRow \cup {NoKey}]
        /\ failures' \in 0 .. MaxFailures
    BY <1>8, SaveType DEF Finish, TypeOK
  <2>3. errs' \in [Accounts -> 0 .. MaxErr]
    BY <1>8, <2>1, RouterConstants DEF Finish, TypeOK
  <2>4. /\ req' \in [Requests -> Request]
        /\ \A p \in Requests : req'[p].pc \in {"list", "choose"} => DOMAIN req'[p].cands # {}
    BY <1>8, IdleType, RequestTypes DEF Finish
  <2> QED
    BY <1>8, <2>2, <2>3, <2>4 DEF Finish, TypeOK, rvars
<1>9. ASSUME NEW k \in Keys, AdminStep(k) PROVE TypeOK'
  <2>1. ASSUME NEW s \in Strategies, NEW f \in BOOLEAN, CreateKey(k, s, f) PROVE TypeOK'
    <3>1. [stored EXCEPT ![k] = [binding |-> NoAccount, strategy |-> s]]
            \in [Keys -> KeyRow \cup {NoKey}]
      BY DEF TypeOK, KeyRow, MaybeAccount
    <3>2. /\ stored' \in [Keys -> KeyRow \cup {NoKey}]
          /\ disk' \in [Keys -> KeyRow \cup {NoKey}]
          /\ failures' \in 0 .. MaxFailures
      BY <2>1, <3>1, SaveType DEF CreateKey
    <3> QED
      BY <2>1, <3>2 DEF CreateKey, TypeOK, evars, rvars, hvars
  <2>2. ASSUME NEW s \in Strategies, NEW f \in BOOLEAN, UpdateKeyStrategy(k, s, f) PROVE TypeOK'
    <3>1. stored[k] \in KeyRow
      BY <2>2 DEF UpdateKeyStrategy, Live, TypeOK
    <3>2. [stored[k] EXCEPT !.strategy = s] \in KeyRow
      BY <3>1 DEF KeyRow
    <3>3. [stored EXCEPT ![k].strategy = s] \in [Keys -> KeyRow \cup {NoKey}]
      BY <3>2 DEF TypeOK
    <3>4. /\ stored' \in [Keys -> KeyRow \cup {NoKey}]
          /\ disk' \in [Keys -> KeyRow \cup {NoKey}]
          /\ failures' \in 0 .. MaxFailures
      BY <2>2, <3>3, SaveType DEF UpdateKeyStrategy
    <3> QED
      BY <2>2, <3>4 DEF UpdateKeyStrategy, TypeOK, evars, rvars, hvars
  <2>3. ASSUME NEW f \in BOOLEAN, DeleteKey(k, f) PROVE TypeOK'
    <3>1. [stored EXCEPT ![k] = NoKey] \in [Keys -> KeyRow \cup {NoKey}]
      BY DEF TypeOK
    <3>2. /\ stored' \in [Keys -> KeyRow \cup {NoKey}]
          /\ disk' \in [Keys -> KeyRow \cup {NoKey}]
          /\ failures' \in 0 .. MaxFailures
      BY <2>3, <3>1, SaveType DEF DeleteKey
    <3> QED
      BY <2>3, <3>2 DEF DeleteKey, TypeOK, evars, rvars, hvars
  <2>4. CASE ForgetAPIKeyRoutes(k)
    BY <2>4 DEF ForgetAPIKeyRoutes, TypeOK, MaybeAccount, evars, hvars
  <2> QED
    BY <1>9, <2>1, <2>2, <2>3, <2>4 DEF AdminStep
<1>10. ASSUME NEW a \in Accounts, NEW r \in Reasons, AccountChanges(a, r) PROVE TypeOK'
  BY <1>10 DEF AccountChanges, TypeOK, svars, rvars, hvars
<1>11. CASE OtherSave
  BY <1>11, SaveType DEF OtherSave, TypeOK, evars, rvars, hvars
<1>12. CASE Restart
  <2>1. req' \in [Requests -> Request]
        /\ \A p \in Requests : req'[p].pc = "idle"
    BY <1>12, IdleType DEF Restart
  <2> QED
    BY <1>12, <2>1, RouterConstants DEF Restart, TypeOK, MaybeAccount, evars
<1>13. CASE UNCHANGED vars
  BY <1>13 DEF vars, TypeOK
<1> QED
  BY <1>1, <1>2, <1>3, <1>5, <1>6, <1>7, <1>8, <1>9, <1>10, <1>11, <1>12, <1>13
     DEF Next, RequestStep

(* The state keeps its type; a request that waits for r.mu has a candidate. *)
THEOREM TypeCorrect == Spec => []TypeOK
<1>1. Init => TypeOK
  <2> SUFFICES ASSUME Init PROVE TypeOK
    OBVIOUS
  <2>1. req \in [Requests -> Request] /\ \A q \in Requests : req[q].pc = "idle"
    BY IdleType DEF Init
  <2> QED
    BY <2>1, RouterConstants DEF Init, TypeOK, MaybeAccount
<1> QED
  BY <1>1, TypeStep, PTL DEF Spec

-----------------------------------------------------------------------------
(***************************************************************************)
(* What a request in flight knows: every candidate it still holds is       *)
(* permitted by the plan rules, and (outside DeepSeek, whose preference     *)
(* drops usable accounts) every account it dropped was refused.            *)
(***************************************************************************)
CandidatesPermitted ==
  \A q \in Requests :
    req[q].pc \in {"list", "choose"} =>
      \A a \in Offered(req[q].cands) : Permitted(q, a)

CandidatesComplete ==
  \A q \in Requests :
    req[q].pc \in {"list", "choose"} =>
      (Family # "deepseek" => Accounts \ refused[q] \subseteq Offered(req[q].cands))

RoutingInv == CandidatesPermitted /\ PlanRule /\ CandidatesComplete

(* The candidates as they are read. *)
LEMMA ReadPermitted ==
  ASSUME TypeOK, NEW q \in Requests, ReadAccounts(q), ~NoCandidate,
         NEW a \in Prioritized(Eligible)
  PROVE  Permitted(q, a)'
<1>1. a \in Eligible /\ a \in Accounts /\ Tier[a] \in {"lite", "pro", "max"}
  BY CandidatesAreAccounts, RouterConstants
<1>2. Family = "glm" => Tier[a] # "lite"
  BY <1>1 DEF Eligible
<1>3. ASSUME Family = "deepseek", Tier[a] # "lite", NEW b \in Accounts, Tier[b] = "lite"
      PROVE  b \in refused'[q]
  <2>1. b \notin Eligible
    BY <1>3 DEF Prioritized
  <2> QED
    BY <2>1 DEF ReadAccounts, TypeOK
<1> QED
  BY <1>2, <1>3 DEF Permitted

(* A request that does not move keeps what it knows. *)
Still(q) == req'[q] = req[q] /\ refused'[q] = refused[q]

(* The three parts of the invariant for one request. *)
Knows(q) ==
  /\ req[q].pc \in {"list", "choose"} =>
       /\ \A a \in Offered(req[q].cands) : Permitted(q, a)
       /\ Family # "deepseek" => Accounts \ refused[q] \subseteq Offered(req[q].cands)
  /\ req[q].pc \in {"persist", "routed"} => Permitted(q, req[q].account)

LEMMA RoutingInvIsKnows == RoutingInv <=> \A q \in Requests : Knows(q)
BY DEF RoutingInv, CandidatesPermitted, CandidatesComplete, PlanRule, Knows

LEMMA StillKnows ==
  ASSUME NEW q \in Requests, Still(q), Knows(q)
  PROVE  Knows(q)'
BY DEF Still, Knows, Permitted, Offered

LEMMA OthersStill ==
  ASSUME TypeOK, Next, NEW q \in Requests, ~Still(q)
  PROVE  RequestStep(q) \/ Restart
<1>1. ASSUME NEW p \in Requests, RequestStep(p), p # q PROVE FALSE
  BY <1>1 DEF RequestStep, Authenticate, ReadAccounts, ReadAssignments, KeepBinding, Assign, Route,
              Persist, Finish, hvars, Still, TypeOK
<1>2. ASSUME NEW k \in Keys, AdminStep(k) PROVE FALSE
  BY <1>2 DEF AdminStep, CreateKey, UpdateKeyStrategy, DeleteKey, ForgetAPIKeyRoutes, hvars, Still
<1>3. ASSUME NEW a \in Accounts, NEW r \in Reasons, AccountChanges(a, r) PROVE FALSE
  BY <1>3 DEF AccountChanges, hvars, Still
<1>4. CASE OtherSave
  BY <1>4 DEF OtherSave, hvars, Still
<1> QED
  BY <1>1, <1>2, <1>3, <1>4 DEF Next

LEMMA RoutingStep == TypeOK /\ RoutingInv /\ [Next]_vars => RoutingInv'
<1> SUFFICES ASSUME TypeOK, RoutingInv, [Next]_vars, NEW q \in Requests PROVE Knows(q)'
  BY RoutingInvIsKnows DEF RoutingInv, CandidatesPermitted, CandidatesComplete, PlanRule, Knows
<1>1. Knows(q)
  BY RoutingInvIsKnows
<1>2. CASE Still(q)
  BY <1>1, <1>2, StillKnows
<1>3. CASE Restart
  BY <1>3 DEF Restart, Idle, Knows
<1>4. ASSUME NEW k \in Keys, Authenticate(q, k) PROVE Knows(q)'
  BY <1>4 DEF Authenticate, TypeOK, Knows
<1>5. CASE ReadAccounts(q)
  <2>1. CASE NoCandidate
    <3>1. req'[q].pc = "idle"
      BY <1>5, <2>1 DEF ReadAccounts, TypeOK, Idle
    <3> QED
      BY <3>1 DEF Knows
  <2>2. ASSUME ~NoCandidate, NEW c \in Sorted(Prioritized(Eligible)),
               req' = [req EXCEPT ![q] = [pc |-> "list", key |-> req[q].key,
                                          snapshot |-> req[q].snapshot, cands |-> c]]
        PROVE  Knows(q)'
    <3>1. Offered(c) = Prioritized(Eligible)
      BY <2>2, CandidatesAreAccounts, SortedIsSeq DEF NoCandidate
    <3>2. req'[q].pc = "list" /\ req'[q].cands = c
      BY <2>2 DEF TypeOK
    <3>3. \A a \in Offered(c) : Permitted(q, a)'
      BY <1>5, <2>2, <3>1, ReadPermitted
    <3>4. Family # "deepseek" => Accounts \ refused'[q] \subseteq Offered(c)
      BY <1>5, <2>2, <3>1 DEF ReadAccounts, Prioritized, TypeOK
    <3>5. Offered(req[q].cands)' = Offered(c)
      BY <3>2 DEF Offered
    <3> QED
      BY <3>2, <3>3, <3>4, <3>5 DEF Knows
  <2>3. ASSUME ~NoCandidate, NEW a \in Prioritized(Eligible),
               req' = [req EXCEPT ![q] = [pc |-> "routed", key |-> req[q].key, account |-> a]]
        PROVE  Knows(q)'
    <3>1. req'[q].pc = "routed" /\ req'[q].account = a
      BY <2>3 DEF TypeOK
    <3>2. Permitted(q, a)'
      BY <1>5, <2>3, ReadPermitted
    <3>3. Permitted(q, req[q].account)'
      BY <3>1, <3>2 DEF Permitted
    <3> QED
      BY <3>1, <3>3 DEF Knows
  <2> QED
    BY <1>5, <2>1, <2>2, <2>3 DEF ReadAccounts
<1>6. CASE ReadAssignments(q)
  <2>1. /\ req[q].pc = "list" /\ req'[q].pc = "choose"
        /\ req'[q].cands = req[q].cands /\ refused' = refused
    BY <1>6 DEF ReadAssignments, hvars, TypeOK
  <2> QED
    BY <1>1, <2>1 DEF Knows, Permitted, Offered
<1>7. ASSUME NEW a \in Offered(req[q].cands), NEW b \in BOOLEAN, Route(q, a, b),
             req[q].pc = "choose", refused' = refused
      PROVE  Knows(q)'
  <2>1. Permitted(q, a)
    BY <1>1, <1>7 DEF Knows
  <2>2. req'[q].pc \in {"persist", "routed"} /\ req'[q].account = a
    BY <1>7 DEF Route, TypeOK
  <2> QED
    BY <1>7, <2>1, <2>2 DEF Knows, Permitted
<1>8. CASE KeepBinding(q)
  BY <1>7, <1>8 DEF KeepBinding
<1>9. CASE Assign(q)
  <2>1. PICK i \in DOMAIN req[q].cands : Route(q, req[q].cands[i], TRUE)
    BY <1>9 DEF Assign
  <2> QED
    BY <1>7, <1>9, <2>1, OfferedAreAccounts DEF Assign, hvars
<1>10. ASSUME NEW f \in BOOLEAN, Persist(q, f) PROVE Knows(q)'
  <2>1. /\ req[q].pc = "persist" /\ req'[q].pc = "routed"
        /\ req'[q].account = req[q].account /\ refused' = refused
    BY <1>10 DEF Persist, TypeOK
  <2> QED
    BY <1>1, <2>1 DEF Knows, Permitted
<1>11. ASSUME NEW ok \in BOOLEAN, NEW f \in BOOLEAN, Finish(q, ok, f) PROVE Knows(q)'
  <2>1. req'[q].pc = "idle"
    BY <1>11 DEF Finish, TypeOK, Idle
  <2> QED
    BY <2>1 DEF Knows
<1>12. CASE UNCHANGED vars
  BY <1>2, <1>12 DEF vars, Still
<1> QED
  BY <1>2, <1>3, <1>4, <1>5, <1>6, <1>8, <1>9, <1>10, <1>11, <1>12, OthersStill DEF RequestStep

LEMMA RoutingHolds == Spec => []RoutingInv
<1>1. Init => RoutingInv
  BY DEF Init, Idle, RoutingInv, CandidatesPermitted, CandidatesComplete, PlanRule
<1> QED
  BY <1>1, RoutingStep, TypeCorrect, PTL DEF Spec

(* No GLM request reaches a Lite account, and a DeepSeek request leaves the Lite accounts *)
(* only when it found all of them unusable: whatever is bound, changed or deleted.        *)
THEOREM PlanRuleHolds == Spec => []PlanRule
<1>1. RoutingInv => PlanRule
  BY DEF RoutingInv
<1> QED
  BY <1>1, RoutingHolds, PTL

(* Outside the DeepSeek family, a binding in memory is moved only by a request of its key *)
(* that found the bound account unusable, however many requests of the key overlap.       *)
THEOREM BindingStickyHolds ==
  ASSUME Family # "deepseek"
  PROVE  Spec => BindingSticky
<1>1. ASSUME TypeOK, RoutingInv, Next, NEW k \in Keys,
             bindings[k] # NoAccount, bindings'[k] \notin {bindings[k], NoAccount}
      PROVE  \E q \in Requests : req[q] # Idle /\ req[q].key = k /\ bindings[k] \in refused[q]
  <2>1. PICK q \in Requests : KeepBinding(q) \/ Assign(q)
    BY <1>1 DEF Next, RequestStep, AdminStep, Authenticate, ReadAccounts, ReadAssignments, Persist,
                Finish, CreateKey, UpdateKeyStrategy, DeleteKey, ForgetAPIKeyRoutes, AccountChanges,
                OtherSave, Restart, rvars, TypeOK
  <2>2. req[q].pc = "choose" /\ req[q] # Idle
    <3>1. req[q].pc = "choose"
      BY <2>1 DEF KeepBinding, Assign
    <3> QED
      BY <3>1, IdleType
  <2>3. req[q].key = k
    BY <1>1, <2>1 DEF KeepBinding, Assign, Route, TypeOK
  <2>4. Bound(q) = bindings[k]
    BY <1>1, <2>3 DEF Bound
  <2>5. ~KeepBinding(q)
    BY <1>1, <2>3, <2>4 DEF KeepBinding, Route, TypeOK
  <2>6. bindings[k] \notin Offered(req[q].cands)
    BY <2>1, <2>4, <2>5 DEF Assign
  <2>7. bindings[k] \in refused[q]
    BY <1>1, <2>2, <2>6 DEF RoutingInv, CandidatesComplete, TypeOK, MaybeAccount
  <2> QED
    BY <2>2, <2>3, <2>7
<1>2. TypeOK /\ RoutingInv /\ [Next]_vars =>
        [\A k \in Keys :
           bindings[k] # NoAccount /\ bindings'[k] \notin {bindings[k], NoAccount} =>
             \E q \in Requests : req[q] # Idle /\ req[q].key = k /\ bindings[k] \in refused[q]]_vars
  BY <1>1
<1> QED
  BY <1>2, TypeCorrect, RoutingHolds, PTL DEF Spec, BindingSticky

-----------------------------------------------------------------------------
(***************************************************************************)
(* What each action does to the requests and to the rows, for the proofs   *)
(* below.                                                                  *)
(***************************************************************************)
Others(q) == \A p \in Requests : p # q => req'[p] = req[p] /\ refused'[p] = refused[p]

LEMMA AuthenticateSays ==
  ASSUME TypeOK, NEW q \in Requests, NEW k \in Keys, Authenticate(q, k)
  PROVE  /\ Others(q) /\ req[q].pc = "idle" /\ k \in Live
         /\ req'[q].pc = "read" /\ req'[q].key = k /\ req'[q].snapshot = stored[k].binding
         /\ UNCHANGED <<evars, svars, rvars, restarts, hvars>>
BY IdleType DEF Authenticate, Others, TypeOK, hvars

LEMMA ReadAccountsSays ==
  ASSUME TypeOK, NEW q \in Requests, ReadAccounts(q)
  PROVE  /\ Others(q) /\ req[q].pc = "read"
         /\ req'[q].pc \in {"idle", "list", "routed"}
         /\ req'[q].pc # "idle" => req'[q].key = req[q].key
         /\ req'[q].pc = "list" => req'[q].snapshot = req[q].snapshot
         /\ UNCHANGED <<evars, svars, rvars, restarts, lastRoute>>
<1>1. Others(q)
  BY DEF ReadAccounts, Others, TypeOK
<1>2. CASE req' = [req EXCEPT ![q] = Idle]
  BY <1>1, <1>2, IdleType DEF ReadAccounts, TypeOK
<1>3. ASSUME NEW c, req' = [req EXCEPT ![q] = [pc |-> "list", key |-> req[q].key,
                                               snapshot |-> req[q].snapshot, cands |-> c]]
      PROVE  /\ req'[q].pc = "list" /\ req'[q].key = req[q].key
             /\ req'[q].snapshot = req[q].snapshot
  BY <1>3 DEF TypeOK
<1>4. ASSUME NEW a, req' = [req EXCEPT ![q] = [pc |-> "routed", key |-> req[q].key, account |-> a]]
      PROVE  req'[q].pc = "routed" /\ req'[q].key = req[q].key
  BY <1>4 DEF TypeOK
<1> QED
  BY <1>1, <1>2, <1>3, <1>4 DEF ReadAccounts

LEMMA ReadAssignmentsSays ==
  ASSUME TypeOK, NEW q \in Requests, ReadAssignments(q)
  PROVE  /\ Others(q) /\ req[q].pc = "list" /\ req'[q].pc = "choose"
         /\ req'[q].key = req[q].key /\ req'[q].snapshot = req[q].snapshot
         /\ req'[q].cands = req[q].cands /\ req'[q].assigned = StoredAssignments
         /\ UNCHANGED <<evars, svars, rvars, restarts, hvars>>
BY DEF ReadAssignments, Others, TypeOK, hvars

LEMMA KeepBindingSays ==
  ASSUME TypeOK, NEW q \in Requests, KeepBinding(q)
  PROVE  /\ Others(q) /\ req[q].pc = "choose" /\ req'[q].pc = "routed"
         /\ req[q].key \in Keys /\ req'[q].key = req[q].key /\ Bound(q) \in Accounts
         /\ bindings' = [bindings EXCEPT ![req[q].key] = Bound(q)]
         /\ lastRoute' = [lastRoute EXCEPT ![req[q].key] = Bound(q)]
         /\ UNCHANGED <<evars, svars, next, restarts, refused>>
<1>1. req[q].pc = "choose" /\ req[q].key \in Keys
  BY RequestParts DEF KeepBinding
<1>2. Bound(q) \in Accounts
  BY <1>1, OfferedAreAccounts DEF KeepBinding
<1> QED
  BY <1>1, <1>2 DEF KeepBinding, Route, Returns, Others, TypeOK

LEMMA AssignSays ==
  ASSUME TypeOK, NEW q \in Requests, Assign(q)
  PROVE  /\ Others(q) /\ req[q].pc = "choose" /\ req'[q].pc = "persist"
         /\ req[q].key \in Keys /\ req'[q].key = req[q].key
         /\ req'[q].account \in Accounts /\ Bound(q) \notin Offered(req[q].cands)
         /\ \E i \in LeastUsed(req[q].cands, Assignments(q)) : req'[q].account = req[q].cands[i]
         /\ bindings' = [bindings EXCEPT ![req[q].key] = req'[q].account]
         /\ UNCHANGED <<evars, svars, restarts, hvars>>
<1>1. req[q].pc = "choose" /\ req[q].key \in Keys
  BY RequestParts DEF Assign
<1>2. PICK i \in DOMAIN req[q].cands :
        i \in LeastUsed(req[q].cands, Assignments(q)) /\ Route(q, req[q].cands[i], TRUE)
  BY DEF Assign, IsNth
<1>3. req[q].cands[i] \in Accounts
  BY <1>1, OfferedAreAccounts
<1>4. req'[q].pc = "persist" /\ req'[q].key = req[q].key /\ req'[q].account = req[q].cands[i]
  BY <1>2 DEF Route, TypeOK
<1>5. Others(q)
  BY <1>2 DEF Assign, Route, Others, TypeOK, hvars
<1> QED
  BY <1>1, <1>2, <1>3, <1>4, <1>5 DEF Assign, Route

LEMMA PersistSays ==
  ASSUME TypeOK, NEW q \in Requests, NEW f \in BOOLEAN, Persist(q, f)
  PROVE  /\ Others(q) /\ req[q].pc = "persist" /\ req'[q].pc = "routed"
         /\ req[q].key \in Keys /\ req[q].account \in Accounts
         /\ req'[q].key = req[q].key
         /\ lastRoute' = [lastRoute EXCEPT ![req[q].key] = req[q].account]
         /\ UNCHANGED <<evars, rvars, issued, forgetting, restarts, refused>>
         /\ \A k \in Keys :
              /\ stored'[k] # NoKey <=> stored[k] # NoKey
              /\ k # req[q].key => stored'[k] = stored[k]
         /\ req[q].key \in Live => stored'[req[q].key].binding = req[q].account
         /\ Save(stored', f) \/ UNCHANGED <<stored, disk, failures>>
<1> DEFINE k == req[q].key
           a == req[q].account
<1>1. req[q].pc = "persist" /\ k \in Keys /\ a \in Accounts
  BY RequestParts DEF Persist
<1>2. Others(q) /\ req'[q].pc = "routed" /\ req'[q].key = k
  <2>1. req[q] \in [pc : {"persist", "routed"}, key : Keys, account : Accounts]
    BY DEF Persist, TypeOK, Request, Idle
  <2> QED
    BY <2>1 DEF Persist, Others, TypeOK
<1>3. CASE Rebinds(k, a)
  <2>1. Save([stored EXCEPT ![k].binding = a], f)
    BY <1>3 DEF Persist
  <2>2. stored' = [stored EXCEPT ![k].binding = a]
    BY <2>1 DEF Save
  <2>3. stored[k] \in KeyRow
    BY <1>1, <1>3 DEF Rebinds, Live, TypeOK
  <2>4. [stored[k] EXCEPT !.binding = a] \in KeyRow
    BY <1>1, <2>3 DEF KeyRow, MaybeAccount
  <2>5. stored'[k] = [stored[k] EXCEPT !.binding = a] /\ \A j \in Keys : j # k => stored'[j] = stored[j]
    BY <1>1, <2>2 DEF TypeOK
  <2>6. stored'[k] # NoKey /\ stored[k] # NoKey
    BY <2>3, <2>4, <2>5, RouterConstants DEF KeyRow, MaybeAccount
  <2>7. stored'[k].binding = a
    BY <2>3, <2>5 DEF KeyRow
  <2>8. Save(stored', f)
    BY <2>1, <2>2
  <2> QED
    BY <1>1, <1>2, <2>5, <2>6, <2>7, <2>8 DEF Persist, Returns
<1>4. CASE ~Rebinds(k, a)
  <2>1. UNCHANGED <<stored, disk, failures>>
    BY <1>4 DEF Persist
  <2>2. k \in Live => stored[k].binding = a
    BY <1>4 DEF Rebinds
  <2> QED
    BY <1>1, <1>2, <2>1, <2>2 DEF Persist, Returns
<1> QED
  BY <1>3, <1>4

LEMMA FinishSays ==
  ASSUME TypeOK, NEW q \in Requests, NEW ok \in BOOLEAN, NEW f \in BOOLEAN, Finish(q, ok, f)
  PROVE  /\ Others(q) /\ req'[q].pc = "idle" /\ req[q].pc = "routed" /\ Save(stored, f)
         /\ UNCHANGED <<blocked, issued, rvars, forgetting, restarts, lastRoute>>
BY IdleType DEF Finish, Others, TypeOK

LEMMA RestartSays ==
  ASSUME Restart
  PROVE  /\ stored' = disk /\ bindings' = [k \in Keys |-> NoAccount] /\ forgetting' = {}
         /\ \A q \in Requests : req'[q].pc = "idle"
         /\ restarts < MaxRestarts /\ restarts' = restarts + 1
         /\ UNCHANGED <<evars, disk, issued, failures, lastRoute>>
BY IdleType DEF Restart

LEMMA SaveSays ==
  ASSUME TypeOK, NEW m, NEW f \in BOOLEAN, Save(m, f)
  PROVE  /\ stored' = m
         /\ disk' \in {m, disk}
         /\ failures' = 0 => failures = 0 /\ disk' = m
         /\ f \/ disk' = m
BY DEF Save, TypeOK

(* The requests, the bindings and what was routed are left alone by the administrator, *)
(* by the accounts and by the other saves; only ForgetAPIKeyRoutes clears a binding.   *)
Elsewhere == UNCHANGED <<req, restarts, hvars>>
LEMMA ElsewhereSays ==
  ASSUME Next
  PROVE  \/ \E q \in Requests : RequestStep(q)
         \/ Restart
         \/ Elsewhere /\ \E k \in Keys : ForgetAPIKeyRoutes(k)
         \/ Elsewhere /\ rvars' = rvars /\
              \/ \E k \in Keys, s \in Strategies, f \in BOOLEAN :
                   CreateKey(k, s, f) \/ UpdateKeyStrategy(k, s, f)
              \/ \E k \in Keys, f \in BOOLEAN : DeleteKey(k, f)
              \/ UNCHANGED svars
              \/ OtherSave
<1>1. ASSUME NEW k \in Keys, AdminStep(k)
      PROVE  \/ Elsewhere /\ ForgetAPIKeyRoutes(k)
             \/ Elsewhere /\ rvars' = rvars /\
                  \/ \E s \in Strategies, f \in BOOLEAN : CreateKey(k, s, f) \/ UpdateKeyStrategy(k, s, f)
                  \/ \E f \in BOOLEAN : DeleteKey(k, f)
  BY <1>1 DEF AdminStep, CreateKey, UpdateKeyStrategy, DeleteKey, ForgetAPIKeyRoutes, Elsewhere
<1>2. ASSUME NEW a \in Accounts, NEW r \in Reasons, AccountChanges(a, r)
      PROVE  Elsewhere /\ rvars' = rvars /\ UNCHANGED svars
  BY <1>2 DEF AccountChanges, Elsewhere
<1>3. CASE OtherSave
  BY <1>3 DEF OtherSave, Elsewhere
<1> QED
  BY <1>1, <1>2, <1>3 DEF Next

-----------------------------------------------------------------------------
(***************************************************************************)
(* The keys that a binding, a row or a request speaks of have been issued, *)
(* and are finitely many.  The assignments that a request read say, of a   *)
(* key without a binding in memory, what its row still says.               *)
(***************************************************************************)
KeysKnown ==
  /\ IsFiniteSet(issued)
  /\ Live \subseteq issued
  /\ \A k \in Keys : disk[k] # NoKey \/ bindings[k] # NoAccount => k \in issued
  /\ forgetting \subseteq issued \ Live

Listed(q) ==
  \A j \in Keys :
    /\ req[q].assigned[j] # NoAccount => j \in issued
    /\ j \in Live /\ bindings[j] = NoAccount => req[q].assigned[j] = stored[j].binding

Seen(q) ==
  /\ req[q].pc # "idle" => req[q].key \in issued
  /\ req[q].pc = "persist" /\ req[q].key \in Live => bindings[req[q].key] # NoAccount
  /\ req[q].pc = "choose" => Listed(q)

KeysInv == KeysKnown /\ \A q \in Requests : Seen(q)

LEMMA LiveKeys == \A k \in Keys : k \in Live <=> stored[k] # NoKey
BY DEF Live

(* A request that does not move keeps what it has seen when the rows and the bindings *)
(* change in the ways that other steps change them.                                   *)
LEMMA SeenStays ==
  ASSUME TypeOK, KeysInv, NEW q \in Requests, req'[q] = req[q],
         issued \subseteq issued',
         \A k \in Keys : k \in issued /\ k \in Live' =>
           /\ k \in Live
           /\ bindings[k] # NoAccount => bindings'[k] # NoAccount
           /\ bindings'[k] = NoAccount => stored'[k].binding = stored[k].binding,
         \A k \in Keys : k \notin issued /\ k \in Live' => stored'[k].binding = NoAccount
  PROVE  Seen(q)'
<1>1. Seen(q)
  BY DEF KeysInv
<1>2. req[q].pc # "idle" => req[q].key \in Keys /\ req[q].key \in issued'
  BY <1>1, RequestParts DEF Seen
<1>3. ASSUME req[q].pc = "persist", req[q].key \in Live' PROVE bindings'[req[q].key] # NoAccount
  BY <1>1, <1>2, <1>3 DEF Seen
<1>4. ASSUME req[q].pc = "choose", NEW j \in Keys
      PROVE  /\ req[q].assigned[j] # NoAccount => j \in issued'
             /\ j \in Live' /\ bindings'[j] = NoAccount => req[q].assigned[j] = stored'[j].binding
  <2>1. req[q].assigned[j] # NoAccount => j \in issued
    BY <1>1, <1>4 DEF Seen, Listed
  <2>2. j \in Live /\ bindings[j] = NoAccount => req[q].assigned[j] = stored[j].binding
    BY <1>1, <1>4 DEF Seen, Listed
  <2> QED
    BY <2>1, <2>2
<1> QED
  BY <1>2, <1>3, <1>4 DEF Seen, Listed

LEMMA KeysStep == TypeOK /\ KeysInv /\ [Next]_vars => KeysInv'
<1> SUFFICES ASSUME TypeOK, KeysInv, [Next]_vars PROVE KeysInv'
  OBVIOUS
<1>a. KeysKnown /\ \A q \in Requests : Seen(q)
  BY DEF KeysInv
<1>1. ASSUME NEW q \in Requests, Others(q), UNCHANGED <<stored, issued>>,
             \A k \in Keys : bindings[k] # NoAccount => bindings'[k] # NoAccount,
             Seen(q)'
      PROVE  \A p \in Requests : Seen(p)'
  <2>1. ASSUME NEW p \in Requests, p # q PROVE Seen(p)'
    <3>1. req'[p] = req[p]
      BY <1>1, <2>1 DEF Others
    <3>2. Live' = Live
      BY <1>1 DEF Live
    <3>3. \A k \in Keys : k \notin issued => k \notin Live
      BY <1>a DEF KeysKnown
    <3> QED
      BY <1>1, <3>1, <3>2, <3>3, SeenStays
  <2> QED
    BY <1>1, <2>1
<1>2. ASSUME NEW q \in Requests, NEW k \in Keys, Authenticate(q, k) PROVE KeysInv'
  <2>1. /\ Others(q) /\ k \in Live /\ req'[q].pc = "read" /\ req'[q].key = k
        /\ UNCHANGED <<svars, rvars>>
    BY <1>2, AuthenticateSays
  <2>2. Seen(q)'
    BY <1>a, <2>1 DEF Seen, KeysKnown, svars
  <2>3. KeysKnown'
    BY <1>a, <2>1 DEF KeysKnown, Live, svars, rvars
  <2> QED
    BY <1>1, <2>1, <2>2, <2>3 DEF KeysInv, svars, rvars
<1>3. ASSUME NEW q \in Requests, ReadAccounts(q) PROVE KeysInv'
  <2>1. /\ Others(q) /\ req[q].pc = "read" /\ req'[q].pc \in {"idle", "list", "routed"}
        /\ req'[q].pc # "idle" => req'[q].key = req[q].key
        /\ UNCHANGED <<svars, rvars>>
    BY <1>3, ReadAccountsSays
  <2>2. Seen(q)'
    BY <1>a, <2>1 DEF Seen, svars
  <2>3. KeysKnown'
    BY <1>a, <2>1 DEF KeysKnown, Live, svars, rvars
  <2> QED
    BY <1>1, <2>1, <2>2, <2>3 DEF KeysInv, svars, rvars
<1>4. ASSUME NEW q \in Requests, ReadAssignments(q) PROVE KeysInv'
  <2>1. /\ Others(q) /\ req[q].pc = "list" /\ req'[q].pc = "choose"
        /\ req'[q].key = req[q].key /\ req'[q].assigned = StoredAssignments
        /\ UNCHANGED <<svars, rvars>>
    BY <1>4, ReadAssignmentsSays
  <2>2. \A j \in Keys : /\ StoredAssignments[j] # NoAccount => j \in issued
                        /\ j \in Live => StoredAssignments[j] = stored[j].binding
    BY <1>a DEF StoredAssignments, KeysKnown
  <2>3. Live' = Live
    BY <2>1 DEF Live, svars
  <2>4. Seen(q)'
    BY <1>a, <2>1, <2>2, <2>3 DEF Seen, Listed, svars
  <2>5. KeysKnown'
    BY <1>a, <2>1 DEF KeysKnown, Live, svars, rvars
  <2> QED
    BY <1>1, <2>1, <2>4, <2>5 DEF KeysInv, svars, rvars
<1>5. ASSUME NEW q \in Requests, NEW a \in Accounts, Others(q), req[q].pc = "choose",
             req[q].key \in Keys, req'[q].key = req[q].key, req'[q].pc \in {"persist", "routed"},
             bindings' = [bindings EXCEPT ![req[q].key] = a], UNCHANGED svars
      PROVE  KeysInv'
  <2>1. req[q].key \in issued
    BY <1>a, <1>5 DEF Seen
  <2>2. a # NoAccount
    BY RouterConstants
  <2>3. bindings'[req[q].key] = a /\ \A k \in Keys : k # req[q].key => bindings'[k] = bindings[k]
    BY <1>5 DEF TypeOK
  <2>4. Seen(q)'
    BY <1>5, <2>1, <2>2, <2>3 DEF Seen, svars
  <2>5. KeysKnown'
    BY <1>a, <1>5, <2>1, <2>3 DEF KeysKnown, Live, svars
  <2> QED
    BY <1>1, <1>5, <2>2, <2>3, <2>4, <2>5 DEF KeysInv, svars
<1>6. ASSUME NEW q \in Requests, KeepBinding(q) PROVE KeysInv'
  BY <1>5, <1>6, KeepBindingSays
<1>7. ASSUME NEW q \in Requests, Assign(q) PROVE KeysInv'
  BY <1>5, <1>7, AssignSays
<1>8. ASSUME NEW q \in Requests, NEW f \in BOOLEAN, Persist(q, f) PROVE KeysInv'
  <2> DEFINE k == req[q].key
  <2>1. /\ Others(q) /\ req[q].pc = "persist" /\ req'[q].pc = "routed"
        /\ k \in Keys /\ req'[q].key = k
        /\ UNCHANGED <<rvars, issued, forgetting>>
        /\ \A j \in Keys : /\ stored'[j] # NoKey <=> stored[j] # NoKey
                           /\ j # k => stored'[j] = stored[j]
        /\ Save(stored', f) \/ UNCHANGED <<stored, disk, failures>>
    BY <1>8, PersistSays
  <2>2. Live' = Live
    BY <2>1 DEF Live
  <2>3. disk' \in {stored', disk}
    BY <2>1, SaveSays
  <2>4. KeysKnown'
    BY <1>a, <2>1, <2>2, <2>3 DEF KeysKnown, Live, rvars
  <2>5. Seen(q)'
    BY <1>a, <2>1 DEF Seen
  <2>6. k \in Live => bindings[k] # NoAccount
    BY <1>a, <2>1 DEF Seen
  <2>7. \A j \in Keys : j \in issued /\ j \in Live' =>
           /\ j \in Live
           /\ bindings[j] # NoAccount => bindings'[j] # NoAccount
           /\ bindings'[j] = NoAccount => stored'[j].binding = stored[j].binding
    BY <2>1, <2>2, <2>6 DEF rvars
  <2>8. \A j \in Keys : j \notin issued => j \notin Live'
    BY <1>a, <2>2 DEF KeysKnown
  <2>9. ASSUME NEW p \in Requests, p # q PROVE Seen(p)'
    BY <2>1, <2>7, <2>8, <2>9, SeenStays DEF Others
  <2> QED
    BY <2>4, <2>5, <2>9 DEF KeysInv
<1>9. ASSUME NEW m \in [Keys -> KeyRow \cup {NoKey}], NEW f \in BOOLEAN, Save(m, f),
             Elsewhere, rvars' = rvars,
             issued \subseteq issued', IsFiniteSet(issued'),
             \A k \in Keys : m[k] # NoKey => k \in issued',
             \A k \in Keys : m[k] # NoKey /\ k \in issued =>
                               stored[k] # NoKey /\ m[k].binding = stored[k].binding,
             \A k \in Keys : m[k] # NoKey /\ k \notin issued => m[k].binding = NoAccount,
             forgetting' \subseteq issued', \A k \in forgetting' : k \in Keys /\ m[k] = NoKey
      PROVE  KeysInv'
  <2>1. stored' = m /\ disk' \in {m, disk}
    BY <1>9, SaveSays
  <2>2. \A k \in Keys : k \in Live' <=> m[k] # NoKey
    BY <2>1 DEF Live
  <2>3. Live' \subseteq issued' /\ Live' \subseteq Keys
    BY <1>9, <2>1 DEF Live
  <2>4. KeysKnown'
    BY <1>a, <1>9, <2>1, <2>2, <2>3 DEF KeysKnown, rvars
  <2>5. ASSUME NEW q \in Requests PROVE Seen(q)'
    <3>1. req'[q] = req[q] /\ bindings' = bindings
      BY <1>9 DEF Elsewhere, rvars
    <3> QED
      BY <1>9, <2>1, <2>2, <3>1, LiveKeys, SeenStays
  <2> QED
    BY <2>4, <2>5 DEF KeysInv
<1>10. ASSUME NEW k \in Keys, NEW s \in Strategies, NEW f \in BOOLEAN, CreateKey(k, s, f),
              Elsewhere, rvars' = rvars
       PROVE  KeysInv'
  <2> DEFINE r == [binding |-> NoAccount, strategy |-> s]
             m == [stored EXCEPT ![k] = r]
  <2>1. r \in KeyRow /\ r.binding = NoAccount
    BY DEF KeyRow, MaybeAccount
  <2> HIDE DEF r
  <2>2. m \in [Keys -> KeyRow \cup {NoKey}] /\ m[k] = r /\ \A j \in Keys : j # k => m[j] = stored[j]
    BY <2>1 DEF TypeOK
  <2>3. Save(m, f)
    BY <1>10 DEF CreateKey, r
  <2>4. k \notin issued /\ issued' = issued \cup {k} /\ forgetting' = forgetting
    BY <1>10 DEF CreateKey
  <2>5. IsFiniteSet(issued')
    BY <1>a, <2>4, FS_AddElement DEF KeysKnown
  <2>6. \A j \in Keys : stored[j] # NoKey => j \in issued
    BY <1>a, LiveKeys DEF KeysKnown
  <2>7. \A j \in forgetting : j \in issued /\ j \in Keys /\ stored[j] = NoKey
    BY <1>a, LiveKeys DEF KeysKnown, TypeOK
  <2> HIDE DEF m
  <2>8. /\ \A j \in Keys : m[j] # NoKey => j \in issued'
        /\ \A j \in Keys : m[j] # NoKey /\ j \in issued =>
                             stored[j] # NoKey /\ m[j].binding = stored[j].binding
        /\ \A j \in Keys : m[j] # NoKey /\ j \notin issued => m[j].binding = NoAccount
    BY <2>1, <2>2, <2>4, <2>6
  <2>9. forgetting' \subseteq issued' /\ \A j \in forgetting' : j \in Keys /\ m[j] = NoKey
    BY <2>2, <2>4, <2>7
  <2>10. issued \subseteq issued'
    BY <2>4
  <2> QED
    BY <1>9, <1>10, <2>2, <2>3, <2>5, <2>8, <2>9, <2>10
<1>11. ASSUME NEW k \in Keys, NEW s \in Strategies, NEW f \in BOOLEAN, UpdateKeyStrategy(k, s, f),
              Elsewhere, rvars' = rvars
       PROVE  KeysInv'
  <2> DEFINE m == [stored EXCEPT ![k].strategy = s]
  <2>1. k \in Live /\ stored[k] # NoKey /\ stored[k] \in KeyRow
    BY <1>11 DEF UpdateKeyStrategy, Live, TypeOK
  <2>2. [stored[k] EXCEPT !.strategy = s] \in KeyRow
    BY <2>1 DEF KeyRow
  <2>3. [stored[k] EXCEPT !.strategy = s].binding = stored[k].binding
    BY <2>1 DEF KeyRow
  <2>4. /\ m \in [Keys -> KeyRow \cup {NoKey}]
        /\ m[k].binding = stored[k].binding
        /\ \A j \in Keys : j # k => m[j] = stored[j]
    BY <2>2, <2>3 DEF TypeOK
  <2>5. Save(m, f) /\ issued' = issued /\ forgetting' = forgetting
    BY <1>11 DEF UpdateKeyStrategy
  <2>6. \A j \in Keys : stored[j] # NoKey => j \in issued
    BY <1>a, LiveKeys DEF KeysKnown
  <2>7. \A j \in forgetting : j \in issued /\ j \in Keys /\ stored[j] = NoKey
    BY <1>a, LiveKeys DEF KeysKnown, TypeOK
  <2> HIDE DEF m
  <2>8. /\ \A j \in Keys : m[j] # NoKey => j \in issued
        /\ \A j \in Keys : m[j] # NoKey => stored[j] # NoKey /\ m[j].binding = stored[j].binding
        /\ \A j \in forgetting : j \in Keys /\ m[j] = NoKey
    BY <2>1, <2>4, <2>6, <2>7
  <2>9. IsFiniteSet(issued)
    BY <1>a DEF KeysKnown
  <2> QED
    BY <1>9, <1>11, <2>4, <2>5, <2>6, <2>7, <2>8, <2>9
<1>12. ASSUME NEW k \in Keys, NEW f \in BOOLEAN, DeleteKey(k, f), Elsewhere, rvars' = rvars
       PROVE  KeysInv'
  <2> DEFINE m == [stored EXCEPT ![k] = NoKey]
  <2>1. m \in [Keys -> KeyRow \cup {NoKey}] /\ m[k] = NoKey /\ \A j \in Keys : j # k => m[j] = stored[j]
    BY DEF TypeOK
  <2>2. /\ Save(m, f) /\ issued' = issued /\ k \in issued
        /\ forgetting' \subseteq forgetting \cup {k}
    BY <1>12, <1>a DEF DeleteKey, KeysKnown
  <2>3. \A j \in Keys : stored[j] # NoKey => j \in issued
    BY <1>a, LiveKeys DEF KeysKnown
  <2>4. \A j \in forgetting : j \in issued /\ j \in Keys /\ stored[j] = NoKey
    BY <1>a, LiveKeys DEF KeysKnown, TypeOK
  <2> HIDE DEF m
  <2>5. /\ \A j \in Keys : m[j] # NoKey => stored[j] # NoKey /\ m[j] = stored[j]
        /\ forgetting' \subseteq issued /\ \A j \in forgetting' : j \in Keys /\ m[j] = NoKey
    BY <2>1, <2>2, <2>4
  <2>6. IsFiniteSet(issued)
    BY <1>a DEF KeysKnown
  <2> QED
    BY <1>9, <1>12, <2>1, <2>2, <2>3, <2>5, <2>6
<1>13. ASSUME NEW k \in Keys, ForgetAPIKeyRoutes(k), Elsewhere PROVE KeysInv'
  <2>1. /\ k \notin Live /\ forgetting' \subseteq forgetting
        /\ \A j \in Keys : bindings'[j] # NoAccount => bindings[j] # NoAccount
        /\ \A j \in Keys : j # k => bindings'[j] = bindings[j]
        /\ UNCHANGED <<stored, disk, issued, req>> /\ Live' = Live
    BY <1>13, <1>a DEF ForgetAPIKeyRoutes, Elsewhere, KeysKnown, TypeOK, Live
  <2>2. KeysKnown'
    BY <1>a, <2>1 DEF KeysKnown
  <2>3. \A j \in Keys : j \notin issued => j \notin Live
    BY <1>a DEF KeysKnown
  <2>4. ASSUME NEW q \in Requests PROVE Seen(q)'
    BY <2>1, <2>3, SeenStays
  <2> QED
    BY <2>2, <2>4 DEF KeysInv
<1>14. ASSUME UNCHANGED svars, rvars' = rvars, UNCHANGED req PROVE KeysInv'
  BY <1>a, <1>14 DEF KeysInv, KeysKnown, Seen, Listed, Live, svars, rvars
<1>15. CASE OtherSave /\ Elsewhere /\ rvars' = rvars
  <2>1. Save(stored, FALSE) /\ issued' = issued /\ forgetting' = forgetting
    BY <1>15 DEF OtherSave
  <2>2. stored' = stored /\ disk' \in {stored, disk}
    BY <2>1, SaveSays
  <2>3. Live' = Live
    BY <2>2 DEF Live
  <2>4. KeysKnown'
    BY <1>a, <1>15, <2>1, <2>2, <2>3, LiveKeys DEF KeysKnown, rvars
  <2>5. \A q \in Requests : Seen(q)'
    BY <1>a, <1>15, <2>1, <2>2, <2>3 DEF Seen, Listed, Elsewhere, rvars
  <2> QED
    BY <2>4, <2>5 DEF KeysInv
<1>16. ASSUME NEW q \in Requests, NEW ok \in BOOLEAN, NEW f \in BOOLEAN, Finish(q, ok, f)
       PROVE  KeysInv'
  <2>1. /\ Others(q) /\ req'[q].pc = "idle" /\ Save(stored, f)
        /\ UNCHANGED <<issued, rvars, forgetting>>
    BY <1>16, FinishSays
  <2>2. stored' = stored /\ disk' \in {stored, disk}
    BY <2>1, SaveSays
  <2>3. Live' = Live
    BY <2>2 DEF Live
  <2>4. KeysKnown'
    BY <1>a, <2>1, <2>2, <2>3, LiveKeys DEF KeysKnown, rvars
  <2>5. Seen(q)'
    BY <2>1 DEF Seen
  <2> QED
    BY <1>1, <2>1, <2>2, <2>4, <2>5 DEF KeysInv, rvars
<1>17. CASE Restart
  <2>1. /\ stored' = disk /\ disk' = disk /\ bindings' = [k \in Keys |-> NoAccount]
        /\ forgetting' = {} /\ issued' = issued
        /\ \A q \in Requests : req'[q].pc = "idle"
    BY <1>17, RestartSays
  <2>2. KeysKnown'
    BY <1>a, <2>1 DEF KeysKnown, Live
  <2>3. \A q \in Requests : Seen(q)'
    BY <2>1 DEF Seen
  <2> QED
    BY <2>2, <2>3 DEF KeysInv
<1>18. CASE UNCHANGED vars
  BY <1>14, <1>18 DEF vars, svars, rvars
<1>19. ASSUME NEW q \in Requests, RequestStep(q) PROVE KeysInv'
  BY <1>2, <1>3, <1>4, <1>6, <1>7, <1>8, <1>16, <1>19 DEF RequestStep
<1>20. CASE Next
  BY <1>10, <1>11, <1>12, <1>13, <1>14, <1>15, <1>17, <1>19, <1>20, ElsewhereSays DEF Elsewhere
<1> QED
  BY <1>18, <1>20

LEMMA KeysHold == Spec => []KeysInv
<1>1. Init => KeysInv
  BY FS_EmptySet DEF Init, Idle, KeysInv, KeysKnown, Seen, Live
<1> QED
  BY <1>1, KeysStep, TypeCorrect, PTL DEF Spec

LEMMA CountIsNat ==
  ASSUME NEW f \in [Keys -> MaybeAccount], IsFiniteSet(issued),
         \A k \in Keys : f[k] # NoAccount => k \in issued, NEW a \in Accounts
  PROVE  /\ Count(f, a) \in Nat
         /\ Count(f, a) = 0 <=> \A k \in Keys : f[k] # a
<1> DEFINE S == {k \in Keys : f[k] = a}
<1>1. S \subseteq issued
  BY RouterConstants
<1>2. IsFiniteSet(S)
  BY <1>1, FS_Subset
<1>3. Cardinality(S) \in Nat /\ (Cardinality(S) = 0 <=> S = {})
  BY <1>2, FS_CardinalityType, FS_EmptySet
<1> QED
  BY <1>3 DEF Count

(* An account of another fill key is given away only when each candidate is held by a    *)
(* fill key or counted for a ghost (models.go:201-219): for any number of keys and        *)
(* requests in flight, and whatever saves fail.                                           *)
THEOREM SharesHolds == Spec => SharesOnlyForGhosts
<1>1. ASSUME TypeOK, KeysInv, Next, NEW q \in Requests, Shares(q),
             NEW a \in Offered(req[q].cands)
      PROVE  a \in HeldByOthers(q) \cup Ghosts(q)
  <2>0. PICK h \in Holders(req[q].key) : req'[q].account = Held(h)
    BY <1>1 DEF Shares, HeldByOthers
  <2> DEFINE f == Assignments(q)
             k == req[q].key
  <2>1. req[q].pc = "choose" /\ req'[q].pc = "persist"
    BY <1>1 DEF Shares, Assigned
  <2>2. Assign(q)
    <3>1. ~Restart
      BY <2>1, RestartSays
    <3>2. RequestStep(q)
      BY <1>1, <2>1, <3>1, OthersStill DEF Still
    <3> QED
      BY <1>1, <2>1, <3>2, KeepBindingSays
         DEF RequestStep, Authenticate, ReadAccounts, ReadAssignments, Persist, Finish, Idle
  <2>3. PICK i \in LeastUsed(req[q].cands, f) : req'[q].account = req[q].cands[i]
    BY <1>1, <2>2, AssignSays
  <2>4. req[q].cands[i] \in Accounts /\ i \in DOMAIN req[q].cands
    BY <1>1, <2>1, <2>3, OfferedAreAccounts DEF LeastUsed
  <2>5. PICK n \in DOMAIN req[q].cands : a = req[q].cands[n]
    BY <1>1 DEF Offered
  <2>6. a \in Accounts
    BY <1>1, <2>1, OfferedAreAccounts
  <2>7. Listed(q) /\ KeysKnown
    BY <1>1, <2>1 DEF KeysInv, Seen
  <2>8. req[q].assigned \in [Keys -> MaybeAccount]
    BY <1>1, <2>1 DEF TypeOK, Request, Idle
  <2>9. f \in [Keys -> MaybeAccount]
    BY <1>1, <2>8 DEF Assignments, TypeOK, MaybeAccount
  <2>10. \A j \in Keys : f[j] # NoAccount => j \in issued
    BY <2>7 DEF Assignments, Listed, KeysKnown
  <2>11. IsFiniteSet(issued)
    BY <2>7 DEF KeysKnown
  <2>12. h \in Keys /\ h \in Live /\ h # k
    BY <2>0 DEF Holders, Live
  <2>13. f[h] = req[q].cands[i]
    BY <2>0, <2>3, <2>7, <2>12 DEF Held, Assignments, Listed
  <2> HIDE DEF f
  <2>14. /\ Count(f, req[q].cands[i]) \in Nat /\ Count(f, req[q].cands[i]) # 0
         /\ Count(f, a) \in Nat
    BY <2>4, <2>6, <2>9, <2>10, <2>11, <2>12, <2>13, CountIsNat
  <2>15. Count(f, req[q].cands[i]) <= Count(f, a)
    BY <2>3, <2>5 DEF LeastUsed
  <2>16. Count(f, a) # 0
    BY <2>14, <2>15
  <2>17. PICK j \in Keys : f[j] = a
    BY <2>6, <2>9, <2>10, <2>11, <2>16, CountIsNat
  <2>18. j # k /\ a # NoAccount
    BY <2>6, <2>17, RouterConstants DEF f, Assignments
  <2>19. CASE j \in Holders(k)
    <3>1. j \in Live
      BY <2>19 DEF Holders
    <3>2. Held(j) = a
      BY <2>7, <2>17, <2>18, <3>1 DEF f, Assignments, Held, Listed
    <3> QED
      BY <2>19, <3>2 DEF HeldByOthers
  <2>20. CASE j \notin Holders(k)
    <3>1. Held(j) = a \/ (j \notin Live /\ req[q].assigned[j] = a)
      BY <2>7, <2>17, <2>18 DEF f, Assignments, Held, Listed
    <3> QED
      BY <2>18, <2>20, <3>1 DEF Ghosts
  <2> QED
    BY <2>19, <2>20
<1>2. TypeOK /\ KeysInv /\ [Next]_vars =>
        [\A q \in Requests : Shares(q) =>
           Offered(req[q].cands) \subseteq HeldByOthers(q) \cup Ghosts(q)]_vars
  BY <1>1
<1> QED
  BY <1>2, TypeCorrect, KeysHold, PTL DEF Spec, SharesOnlyForGhosts

-----------------------------------------------------------------------------
(***************************************************************************)
(* Without round robin and without deletions there are no ghosts: only a   *)
(* key that exists has a binding or a request.                             *)
(***************************************************************************)
Exorcised ==
  \A k \in Keys \ Live :
    /\ bindings[k] = NoAccount
    /\ \A q \in Requests :
         /\ req[q].pc # "idle" => req[q].key # k
         /\ req[q].pc = "choose" => req[q].assigned[k] = NoAccount

LEMMA RequestKeepsOut ==
  ASSUME TypeOK, Exorcised, NEW q \in Requests, RequestStep(q)
  PROVE  Exorcised'
<1>1. ASSUME NEW k \in Keys, Authenticate(q, k) PROVE Exorcised'
  BY <1>1, AuthenticateSays, LiveKeys DEF Exorcised, Others, rvars, svars, Live
<1>2. CASE ReadAccounts(q)
  BY <1>2, ReadAccountsSays DEF Exorcised, Others, rvars, svars, Live
<1>3. CASE ReadAssignments(q)
  <2>1. \A k \in Keys \ Live : StoredAssignments[k] = NoAccount
    BY DEF StoredAssignments
  <2> QED
    BY <1>3, <2>1, ReadAssignmentsSays DEF Exorcised, Others, rvars, svars, Live
<1>4. CASE KeepBinding(q)
  BY <1>4, KeepBindingSays DEF Exorcised, Others, svars, Live, TypeOK
<1>5. CASE Assign(q)
  BY <1>5, AssignSays DEF Exorcised, Others, svars, Live, TypeOK
<1>6. ASSUME NEW f \in BOOLEAN, Persist(q, f) PROVE Exorcised'
  BY <1>6, PersistSays DEF Exorcised, Others, rvars, Live
<1>7. ASSUME NEW ok \in BOOLEAN, NEW f \in BOOLEAN, Finish(q, ok, f) PROVE Exorcised'
  BY <1>7, FinishSays DEF Exorcised, Others, rvars, Save, Live
<1> QED
  BY <1>1, <1>2, <1>3, <1>4, <1>5, <1>6, <1>7 DEF RequestStep

(* The promise of README.md:45 in full, where no key is switched to round robin and none  *)
(* is deleted: different keys are assigned different accounts as long as there are        *)
(* enough, for any number of keys, accounts and requests.                                 *)
THEOREM SharesWithoutGhosts ==
  ASSUME Strategies = {"fill"}, Deletable = {}
  PROVE  Spec => SharesOnlyWhenFull
<1>1. Init => Exorcised
  BY IdleType DEF Init, Exorcised
<1>2. ASSUME TypeOK, Exorcised, [Next]_vars PROVE Exorcised'
  <2>1. ASSUME NEW q \in Requests, RequestStep(q) PROVE Exorcised'
    BY <1>2, <2>1, RequestKeepsOut
  <2>2. CASE Restart
    BY <2>2, RestartSays DEF Exorcised
  <2>3. ASSUME NEW k \in Keys, Elsewhere, ForgetAPIKeyRoutes(k) PROVE Exorcised'
    BY <1>2, <2>3 DEF Elsewhere, ForgetAPIKeyRoutes, Exorcised, Live, TypeOK
  <2>4. ASSUME Elsewhere, rvars' = rvars, Live \subseteq Live' PROVE Exorcised'
    BY <1>2, <2>4 DEF Elsewhere, rvars, Exorcised
  <2>5. ASSUME NEW k \in Keys, NEW st \in Strategies, NEW f \in BOOLEAN, CreateKey(k, st, f) \/ UpdateKeyStrategy(k, st, f)
        PROVE  Live \subseteq Live'
    <3>1. [binding |-> NoAccount, strategy |-> st] # NoKey
      BY RouterConstants
    <3>2. CASE CreateKey(k, st, f)
      BY <1>2, <3>1, <3>2 DEF CreateKey, Save, Live, TypeOK
    <3>3. CASE UpdateKeyStrategy(k, st, f)
      <4>1. stored[k] \in KeyRow
        BY <1>2, <3>3 DEF UpdateKeyStrategy, Live, TypeOK
      <4>2. [stored[k] EXCEPT !.strategy = st] \in KeyRow
        BY <4>1 DEF KeyRow
      <4>3. [stored[k] EXCEPT !.strategy = st] # NoKey
        BY <4>2, RouterConstants DEF KeyRow, MaybeAccount
      <4> QED
        BY <1>2, <3>3, <4>3 DEF UpdateKeyStrategy, Save, Live, TypeOK
    <3> QED
      BY <2>5, <3>2, <3>3
  <2>6. ASSUME NEW k \in Keys, NEW f \in BOOLEAN, DeleteKey(k, f) PROVE FALSE
    BY <2>6 DEF DeleteKey
  <2>7. UNCHANGED svars \/ OtherSave => Live \subseteq Live'
    BY DEF svars, OtherSave, Save, Live
  <2>8. CASE UNCHANGED vars
    BY <1>2, <2>8 DEF vars, Exorcised, Live
  <2> QED
    BY <1>2, <2>1, <2>2, <2>3, <2>4, <2>5, <2>6, <2>7, <2>8, ElsewhereSays
<1>3. ASSUME TypeOK, Exorcised, NEW q \in Requests, Shares(q),
             Offered(req[q].cands) \subseteq HeldByOthers(q) \cup Ghosts(q)
      PROVE  Offered(req[q].cands) \subseteq HeldByOthers(q)
  <2>1. \A j \in Live : stored[j].strategy = "fill"
    BY <1>3 DEF TypeOK, KeyRow, Live
  <2>2. (Keys \ {req[q].key}) \ Holders(req[q].key) \subseteq Keys \ Live
    BY <2>1 DEF Holders
  <2>3. Ghosts(q) \subseteq {NoAccount}
    BY <1>3, <2>2 DEF Ghosts, Exorcised, Held, Shares, Assigned
  <2>4. Offered(req[q].cands) \subseteq Accounts
    BY <1>3, OfferedAreAccounts DEF Shares, Assigned, Offered
  <2> QED
    BY <1>3, <2>3, <2>4, RouterConstants
<1>4. TypeOK /\ Exorcised /\
      [\A q \in Requests : Shares(q) =>
         Offered(req[q].cands) \subseteq HeldByOthers(q) \cup Ghosts(q)]_vars =>
      [\A q \in Requests : Shares(q) => Offered(req[q].cands) \subseteq HeldByOthers(q)]_vars
  BY <1>3
<1> QED
  BY <1>1, <1>2, <1>4, SharesHolds, TypeCorrect, PTL DEF Spec, SharesOnlyForGhosts, SharesOnlyWhenFull

-----------------------------------------------------------------------------
(***************************************************************************)
(* Requests of a key one at a time.  While no request of the key is saving *)
(* its binding, the binding in memory is the one in the row, and the copy  *)
(* of the key that a request carries is the row's.                         *)
(***************************************************************************)
OneEach ==
  \A p, q \in Requests :
    req[p].pc # "idle" /\ req[q].pc # "idle" /\ req[p].key = req[q].key => p = q

Saving(k) == \E q \in Requests : req[q].pc = "persist" /\ req[q].key = k

Copied(q) ==
  /\ req[q].pc \in {"read", "list", "choose"} /\ req[q].key \in Live =>
       req[q].snapshot = stored[req[q].key].binding
  /\ req[q].pc = "persist" /\ req[q].key \in Live => bindings[req[q].key] = req[q].account

Remembered(k) == k \in Live => bindings[k] \in {NoAccount, stored[k].binding} \/ Saving(k)

MemoryInv ==
  /\ failures = 0 => disk = stored
  /\ \A q \in Requests : Copied(q)
  /\ \A k \in Keys : Remembered(k)

LEMMA OneEachStep == SerialKeys /\ TypeOK /\ OneEach /\ [Next]_vars => OneEach'
<1> SUFFICES ASSUME SerialKeys, TypeOK, OneEach, [Next]_vars PROVE OneEach'
  OBVIOUS
<1>1. ASSUME NEW q \in Requests, Others(q),
             req'[q].pc # "idle" => req[q].pc # "idle" /\ req'[q].key = req[q].key
      PROVE  OneEach'
  BY <1>1 DEF OneEach, Others
<1>2. ASSUME NEW q \in Requests, NEW k \in Keys, Authenticate(q, k) PROVE OneEach'
  <2>1. Others(q) /\ req'[q].key = k
    BY <1>2, AuthenticateSays
  <2>2. \A p \in Requests : req[p].pc # "idle" => req[p].key # k
    BY <1>2, IdleType DEF Authenticate
  <2> QED
    BY <2>1, <2>2 DEF OneEach, Others
<1>3. ASSUME NEW q \in Requests, RequestStep(q) PROVE OneEach'
  <2>1. CASE ReadAccounts(q)
    BY <1>1, <2>1, ReadAccountsSays
  <2>2. CASE ReadAssignments(q)
    BY <1>1, <2>2, ReadAssignmentsSays
  <2>3. CASE KeepBinding(q)
    BY <1>1, <2>3, KeepBindingSays
  <2>4. CASE Assign(q)
    BY <1>1, <2>4, AssignSays
  <2>5. ASSUME NEW f \in BOOLEAN, Persist(q, f) PROVE OneEach'
    BY <1>1, <2>5, PersistSays
  <2>6. ASSUME NEW ok \in BOOLEAN, NEW f \in BOOLEAN, Finish(q, ok, f) PROVE OneEach'
    BY <1>1, <2>6, FinishSays
  <2> QED
    BY <1>2, <1>3, <2>1, <2>2, <2>3, <2>4, <2>5, <2>6 DEF RequestStep
<1>4. CASE Restart
  BY <1>4, RestartSays DEF OneEach
<1>5. CASE UNCHANGED req
  BY <1>5 DEF OneEach
<1> QED
  BY <1>3, <1>4, <1>5, ElsewhereSays DEF Elsewhere, vars

LEMMA OneEachHolds == ASSUME SerialKeys PROVE Spec => []OneEach
<1>1. Init => OneEach
  BY DEF Init, Idle, OneEach
<1>2. SerialKeys
  OBVIOUS
<1>3. TypeOK /\ OneEach /\ [Next]_vars => OneEach'
  BY <1>2, OneEachStep
<1> QED
  BY <1>1, <1>3, TypeCorrect, PTL DEF Spec

(* A step of q leaves the other keys alone. *)
LEMMA OtherKeys ==
  ASSUME TypeOK, OneEach, MemoryInv, NEW q \in Requests, Others(q), req[q].pc # "idle",
         req'[q].pc # "idle" => req'[q].key = req[q].key,
         req[q].key \in Keys,
         \A k \in Keys : /\ k \in Live' <=> k \in Live
                         /\ k # req[q].key => /\ bindings'[k] = bindings[k]
                                              /\ stored'[k] = stored[k]
  PROVE  /\ \A p \in Requests : p # q => Copied(p)'
         /\ \A k \in Keys : k # req[q].key => Remembered(k)'
<1>1. ASSUME NEW p \in Requests, p # q PROVE Copied(p)'
  <2>1. Copied(p) /\ req'[p] = req[p]
    BY <1>1 DEF MemoryInv, Others
  <2>2. req[p].pc # "idle" => req[p].key \in Keys /\ req[p].key # req[q].key
    BY <1>1, RequestParts DEF OneEach
  <2> QED
    BY <2>1, <2>2 DEF Copied
<1>2. ASSUME NEW k \in Keys, k # req[q].key PROVE Remembered(k)'
  <2>1. Remembered(k)
    BY DEF MemoryInv
  <2>2. Saving(k) => Saving(k)'
    BY <1>2 DEF Saving, Others
  <2> QED
    BY <1>2, <2>1, <2>2 DEF Remembered
<1> QED
  BY <1>1, <1>2

LEMMA MemoryStep == TypeOK /\ KeysInv /\ OneEach /\ MemoryInv /\ [Next]_vars => MemoryInv'
<1> SUFFICES ASSUME TypeOK, KeysInv, OneEach, MemoryInv, [Next]_vars PROVE MemoryInv'
  OBVIOUS
<1>a. /\ failures = 0 => disk = stored
      /\ \A q \in Requests : Copied(q)
      /\ \A k \in Keys : Remembered(k)
  BY DEF MemoryInv
<1>2. ASSUME NEW q \in Requests, NEW k \in Keys, Authenticate(q, k) PROVE MemoryInv'
  <2>1. /\ Others(q) /\ req[q].pc = "idle" /\ req'[q].pc = "read"
        /\ req'[q].key = k /\ req'[q].snapshot = stored[k].binding
        /\ UNCHANGED <<svars, rvars>>
    BY <1>2, AuthenticateSays
  <2>2. Live' = Live /\ \A j \in Keys : Saving(j) => Saving(j)'
    BY <2>1 DEF Live, svars, Saving, Others
  <2>3. \A p \in Requests : Copied(p)'
    BY <1>a, <2>1, <2>2 DEF Copied, Others, svars, rvars
  <2>4. \A j \in Keys : Remembered(j)'
    BY <1>a, <2>1, <2>2 DEF Remembered, svars, rvars
  <2> QED
    BY <1>a, <2>1, <2>3, <2>4 DEF MemoryInv, svars
<1>3. ASSUME NEW q \in Requests, Others(q), UNCHANGED <<svars, rvars>>,
             req[q].pc \in {"read", "list"}, req'[q].pc \in {"idle", "list", "choose", "routed"},
             req'[q].pc # "idle" => req'[q].key = req[q].key,
             req'[q].pc \in {"list", "choose"} => req'[q].snapshot = req[q].snapshot
      PROVE  MemoryInv'
  <2>1. Live' = Live /\ req[q].key \in Keys
    BY <1>3, RequestParts DEF Live, svars
  <2>2. Copied(q)'
    BY <1>a, <1>3, <2>1 DEF Copied, svars
  <2>3. \A p \in Requests : p # q => Copied(p)'
    BY <1>a, <1>3, <2>1 DEF Copied, Others, svars, rvars
  <2>4. \A j \in Keys : Saving(j) => Saving(j)'
    BY <1>3 DEF Saving, Others
  <2>5. \A j \in Keys : Remembered(j)'
    BY <1>a, <1>3, <2>1, <2>4 DEF Remembered, svars, rvars
  <2> QED
    BY <1>a, <1>3, <2>2, <2>3, <2>5 DEF MemoryInv, svars
<1>4. ASSUME NEW q \in Requests, KeepBinding(q) PROVE MemoryInv'
  <2> DEFINE k == req[q].key
  <2>1. /\ Others(q) /\ req[q].pc = "choose" /\ req'[q].pc = "routed" /\ k \in Keys
        /\ req'[q].key = k /\ bindings' = [bindings EXCEPT ![k] = Bound(q)]
        /\ UNCHANGED svars
    BY <1>4, KeepBindingSays
  <2>2. Live' = Live /\ bindings'[k] = Bound(q) /\ \A j \in Keys : j # k => bindings'[j] = bindings[j]
    BY <2>1 DEF Live, svars, TypeOK
  <2>3. ~Saving(k)
    BY <2>1 DEF Saving, OneEach
  <2>4. k \in Live => Bound(q) = stored[k].binding
    BY <1>a, <2>1, <2>3 DEF Bound, Copied, Remembered
  <2>5. Remembered(k)'
    BY <2>1, <2>2, <2>4 DEF Remembered, svars
  <2>6. Copied(q)'
    BY <2>1 DEF Copied
  <2>7. /\ \A p \in Requests : p # q => Copied(p)'
        /\ \A j \in Keys : j # k => Remembered(j)'
    BY <2>1, <2>2, OtherKeys DEF svars
  <2> QED
    BY <1>a, <2>1, <2>5, <2>6, <2>7 DEF MemoryInv, svars
<1>5. ASSUME NEW q \in Requests, Assign(q) PROVE MemoryInv'
  <2> DEFINE k == req[q].key
  <2>1. /\ Others(q) /\ req[q].pc = "choose" /\ req'[q].pc = "persist" /\ k \in Keys
        /\ req'[q].key = k /\ bindings' = [bindings EXCEPT ![k] = req'[q].account]
        /\ UNCHANGED svars
    BY <1>5, AssignSays
  <2>2. /\ Live' = Live /\ bindings'[k] = req'[q].account
        /\ \A j \in Keys : j # k => bindings'[j] = bindings[j]
    BY <2>1 DEF Live, svars, TypeOK
  <2>3. Saving(k)'
    BY <2>1 DEF Saving
  <2>4. Remembered(k)'
    BY <2>3 DEF Remembered
  <2>5. Copied(q)'
    BY <2>1, <2>2 DEF Copied
  <2>6. /\ \A p \in Requests : p # q => Copied(p)'
        /\ \A j \in Keys : j # k => Remembered(j)'
    BY <2>1, <2>2, OtherKeys DEF svars
  <2> QED
    BY <1>a, <2>1, <2>4, <2>5, <2>6 DEF MemoryInv, svars
<1>6. ASSUME NEW q \in Requests, NEW f \in BOOLEAN, Persist(q, f) PROVE MemoryInv'
  <2> DEFINE k == req[q].key
  <2>1. /\ Others(q) /\ req[q].pc = "persist" /\ req'[q].pc = "routed" /\ k \in Keys
        /\ req'[q].key = k /\ UNCHANGED rvars
        /\ \A j \in Keys : /\ stored'[j] # NoKey <=> stored[j] # NoKey
                           /\ j # k => stored'[j] = stored[j]
        /\ k \in Live => stored'[k].binding = req[q].account
        /\ Save(stored', f) \/ UNCHANGED <<stored, disk, failures>>
    BY <1>6, PersistSays
  <2>2. Live' = Live /\ bindings' = bindings
    BY <2>1 DEF Live, rvars
  <2>3. k \in Live => bindings[k] = req[q].account
    BY <1>a, <2>1 DEF Copied
  <2>4. Remembered(k)'
    BY <2>1, <2>2, <2>3 DEF Remembered
  <2>5. Copied(q)'
    BY <2>1 DEF Copied
  <2>6. /\ \A p \in Requests : p # q => Copied(p)'
        /\ \A j \in Keys : j # k => Remembered(j)'
    BY <2>1, <2>2, OtherKeys
  <2>7. failures' = 0 => disk' = stored'
    BY <1>a, <2>1, SaveSays
  <2>8. \A p \in Requests : Copied(p)'
    BY <2>5, <2>6
  <2>9. \A j \in Keys : Remembered(j)'
    BY <2>1, <2>4, <2>6
  <2> QED
    BY <2>7, <2>8, <2>9 DEF MemoryInv
<1>7. ASSUME NEW q \in Requests, NEW ok \in BOOLEAN, NEW f \in BOOLEAN, Finish(q, ok, f)
      PROVE  MemoryInv'
  <2>1. /\ Others(q) /\ req[q].pc = "routed" /\ req'[q].pc = "idle" /\ Save(stored, f)
        /\ UNCHANGED rvars
    BY <1>7, FinishSays
  <2>2. stored' = stored /\ Live' = Live /\ bindings' = bindings
    BY <2>1, SaveSays DEF Live, rvars
  <2>3. Copied(q)'
    BY <2>1 DEF Copied
  <2>4. \A p \in Requests : p # q => Copied(p)'
    BY <1>a, <2>1, <2>2 DEF Copied, Others
  <2>5. \A j \in Keys : Saving(j) => Saving(j)'
    BY <2>1 DEF Saving, Others
  <2>6. \A j \in Keys : Remembered(j)'
    BY <1>a, <2>2, <2>5 DEF Remembered
  <2>7. failures' = 0 => disk' = stored'
    BY <2>1, SaveSays
  <2> QED
    BY <2>3, <2>4, <2>6, <2>7 DEF MemoryInv
<1>8. ASSUME NEW m, NEW f \in BOOLEAN, Save(m, f), UNCHANGED req, UNCHANGED rvars,
             \A k \in Keys : m[k] # NoKey => \/ stored[k] # NoKey /\ m[k].binding = stored[k].binding
                                             \/ k \notin issued
      PROVE  MemoryInv'
  <2>1. stored' = m /\ (failures' = 0 => disk' = m) /\ bindings' = bindings
    BY <1>8, SaveSays DEF rvars
  <2>2. \A k \in Keys : k \in Live' /\ k \in issued => k \in Live /\ stored'[k].binding = stored[k].binding
    BY <1>8, <2>1 DEF Live
  <2>3. \A q \in Requests : req[q].pc # "idle" => req[q].key \in Keys /\ req[q].key \in issued
    BY RequestParts DEF KeysInv, Seen
  <2>4. \A q \in Requests : Copied(q)'
    BY <1>a, <1>8, <2>1, <2>2, <2>3 DEF Copied
  <2>5. \A k \in Keys : bindings[k] # NoAccount => k \in issued
    BY DEF KeysInv, KeysKnown
  <2>6. \A k \in Keys : Saving(k)' = Saving(k)
    BY <1>8 DEF Saving
  <2>7. \A k \in Keys : Remembered(k)'
    BY <1>a, <2>1, <2>2, <2>5, <2>6 DEF Remembered
  <2> QED
    BY <2>1, <2>4, <2>7 DEF MemoryInv
<1>9. ASSUME NEW k \in Keys, NEW s \in Strategies, NEW f \in BOOLEAN, CreateKey(k, s, f),
             UNCHANGED req, UNCHANGED rvars
      PROVE  MemoryInv'
  <2> DEFINE m == [stored EXCEPT ![k] = [binding |-> NoAccount, strategy |-> s]]
  <2>1. Save(m, f) /\ k \notin issued
    BY <1>9 DEF CreateKey
  <2>2. \A j \in Keys : j # k => m[j] = stored[j]
    BY DEF TypeOK
  <2> HIDE DEF m
  <2> QED
    BY <1>8, <1>9, <2>1, <2>2
<1>10. ASSUME NEW k \in Keys, NEW s \in Strategies, NEW f \in BOOLEAN, UpdateKeyStrategy(k, s, f),
              UNCHANGED req, UNCHANGED rvars
       PROVE  MemoryInv'
  <2> DEFINE m == [stored EXCEPT ![k].strategy = s]
  <2>1. stored[k] # NoKey /\ stored[k] \in KeyRow
    BY <1>10 DEF UpdateKeyStrategy, Live, TypeOK
  <2>2. m[k].binding = stored[k].binding /\ \A j \in Keys : j # k => m[j] = stored[j]
    BY <2>1 DEF TypeOK, KeyRow
  <2>3. Save(m, f)
    BY <1>10 DEF UpdateKeyStrategy
  <2> HIDE DEF m
  <2> QED
    BY <1>8, <1>10, <2>1, <2>2, <2>3
<1>11. ASSUME NEW k \in Keys, NEW f \in BOOLEAN, DeleteKey(k, f), UNCHANGED req, UNCHANGED rvars
       PROVE  MemoryInv'
  <2> DEFINE m == [stored EXCEPT ![k] = NoKey]
  <2>1. m[k] = NoKey /\ \A j \in Keys : j # k => m[j] = stored[j]
    BY DEF TypeOK
  <2>2. Save(m, f)
    BY <1>11 DEF DeleteKey
  <2> HIDE DEF m
  <2> QED
    BY <1>8, <1>11, <2>1, <2>2
<1>12. CASE OtherSave /\ UNCHANGED req /\ UNCHANGED rvars
  BY <1>8, <1>12 DEF OtherSave
<1>13. ASSUME NEW k \in Keys, ForgetAPIKeyRoutes(k), UNCHANGED req PROVE MemoryInv'
  <2>1. /\ k \notin Live /\ \A j \in Keys : j # k => bindings'[j] = bindings[j]
        /\ UNCHANGED <<stored, disk, failures, req>> /\ Live' = Live
    BY <1>13 DEF ForgetAPIKeyRoutes, KeysInv, KeysKnown, TypeOK, Live
  <2>2. \A q \in Requests : Copied(q)'
    BY <1>a, <2>1, RequestParts DEF Copied
  <2>3. \A j \in Keys : Remembered(j)'
    BY <1>a, <2>1 DEF Remembered, Saving
  <2> QED
    BY <1>a, <2>1, <2>2, <2>3 DEF MemoryInv
<1>14. CASE Restart
  <2>1. /\ stored' = disk /\ disk' = disk /\ failures' = failures
        /\ bindings' = [k \in Keys |-> NoAccount] /\ \A q \in Requests : req'[q].pc = "idle"
    BY <1>14, RestartSays
  <2> QED
    BY <2>1 DEF MemoryInv, Copied, Remembered
<1>15. CASE UNCHANGED svars /\ UNCHANGED rvars /\ UNCHANGED req
  BY <1>a, <1>15 DEF MemoryInv, Copied, Remembered, Saving, Live, svars, rvars
<1>16. ASSUME NEW q \in Requests, RequestStep(q) PROVE MemoryInv'
  <2>1. CASE ReadAccounts(q)
    BY <1>3, <2>1, ReadAccountsSays
  <2>2. CASE ReadAssignments(q)
    BY <1>3, <2>2, ReadAssignmentsSays
  <2> QED
    BY <1>2, <1>4, <1>5, <1>6, <1>7, <1>16, <2>1, <2>2 DEF RequestStep
<1>17. CASE Next
  <2>1. CASE \E k \in Keys : Elsewhere /\ ForgetAPIKeyRoutes(k)
    BY <1>13, <2>1 DEF Elsewhere
  <2> QED
    BY <1>9, <1>10, <1>11, <1>12, <1>14, <1>15, <1>16, <1>17, <2>1, ElsewhereSays DEF Elsewhere
<1>18. CASE UNCHANGED vars
  BY <1>15, <1>18 DEF vars, svars, rvars
<1> QED
  BY <1>17, <1>18

LEMMA MemoryHolds == ASSUME SerialKeys PROVE Spec => []MemoryInv
<1>1. Init => MemoryInv
  BY DEF Init, Idle, MemoryInv, Copied, Remembered, Live
<1> QED
  BY <1>1, MemoryStep, TypeCorrect, KeysHold, OneEachHolds, PTL DEF Spec

(* Requests of a key one at a time, and no save that failed: the binding the router uses  *)
(* is the one a restart gives back.  With overlapping requests it is not (the run         *)
(* RouterOverlapPersist), and after a failed save the row on disk is the old one.         *)
THEOREM BindingPersistedHolds ==
  ASSUME SerialKeys
  PROVE  Spec => [](failures = 0 => BindingPersisted)
<1>1. ASSUME TypeOK, MemoryInv, failures = 0, NEW k \in Live, bindings[k] # NoAccount,
             \A q \in Requests : req[q] # Idle => req[q].key # k
      PROVE  stored[k].binding = bindings[k] /\ disk[k] # NoKey /\ disk[k].binding = bindings[k]
  <2>1. k \in Keys /\ stored[k] # NoKey
    BY DEF Live
  <2>2. ~Saving(k)
    BY <1>1, IdleType DEF Saving
  <2>3. stored[k].binding = bindings[k]
    BY <1>1, <2>1, <2>2 DEF MemoryInv, Remembered
  <2>4. disk = stored
    BY <1>1 DEF MemoryInv
  <2> QED
    BY <2>1, <2>3, <2>4
<1>2. TypeOK /\ MemoryInv => (failures = 0 => BindingPersisted)
  BY <1>1 DEF BindingPersisted
<1> QED
  BY <1>2, TypeCorrect, MemoryHolds, PTL

-----------------------------------------------------------------------------
(***************************************************************************)
(* The last account a request of the key was routed to is the one in the   *)
(* row, in the copy a request carries and, unless a request of the key is  *)
(* saving another one, in memory: as long as no restart brings back a row  *)
(* that a failed save had left on disk.                                    *)
(***************************************************************************)
RowsReturn == failures = 0 \/ restarts = 0

Tracked(k) ==
  /\ k \in Live => stored[k].binding = lastRoute[k]
  /\ k \notin issued => lastRoute[k] = NoAccount
  /\ bindings[k] \in {NoAccount, lastRoute[k]} \/ Saving(k)

Follows(q) ==
  /\ req[q].pc \in {"read", "list", "choose"} => req[q].snapshot = lastRoute[req[q].key]
  /\ req[q].pc = "persist" =>
       /\ bindings[req[q].key] \in {NoAccount, req[q].account}
       /\ Family # "deepseek" => lastRoute[req[q].key] \in {NoAccount} \cup refused[q]

TrackInv ==
  RowsReturn => (\A k \in Keys : Tracked(k)) /\ (\A q \in Requests : Follows(q))

(* A step of q leaves the other keys alone. *)
LEMMA OthersTracked ==
  ASSUME TypeOK, OneEach, NEW q \in Requests, Others(q), req[q].pc # "idle",
         req[q].key \in Keys, req'[q].pc # "idle" => req'[q].key = req[q].key,
         \A k \in Keys : Tracked(k), \A p \in Requests : Follows(p), issued' = issued,
         \A k \in Keys : /\ k \in Live' <=> k \in Live
                         /\ k # req[q].key => /\ bindings'[k] = bindings[k]
                                              /\ stored'[k] = stored[k]
                                              /\ lastRoute'[k] = lastRoute[k]
  PROVE  /\ \A p \in Requests : p # q => Follows(p)'
         /\ \A k \in Keys : k # req[q].key => Tracked(k)'
<1>1. ASSUME NEW p \in Requests, p # q PROVE Follows(p)'
  <2>1. Follows(p) /\ req'[p] = req[p] /\ refused'[p] = refused[p]
    BY <1>1 DEF Others
  <2>2. req[p].pc # "idle" => req[p].key \in Keys /\ req[p].key # req[q].key
    BY <1>1, RequestParts DEF OneEach
  <2> QED
    BY <2>1, <2>2 DEF Follows
<1>2. ASSUME NEW k \in Keys, k # req[q].key PROVE Tracked(k)'
  <2>1. Tracked(k)
    OBVIOUS
  <2>2. Saving(k) => Saving(k)'
    BY <1>2 DEF Saving, Others
  <2> QED
    BY <1>2, <2>1, <2>2 DEF Tracked
<1> QED
  BY <1>1, <1>2

LEMMA TrackStep ==
  TypeOK /\ RoutingInv /\ KeysInv /\ OneEach /\ MemoryInv /\ TrackInv /\ [Next]_vars => TrackInv'
<1> SUFFICES ASSUME TypeOK, RoutingInv, KeysInv, OneEach, MemoryInv, TrackInv, [Next]_vars, RowsReturn'
             PROVE  (\A k \in Keys : Tracked(k)') /\ (\A q \in Requests : Follows(q)')
  BY DEF TrackInv
<1> DEFINE Goal == (\A k \in Keys : Tracked(k)') /\ (\A q \in Requests : Follows(q)')
<1> HIDE DEF Goal
<1>a. ASSUME RowsReturn PROVE (\A k \in Keys : Tracked(k)) /\ (\A q \in Requests : Follows(q))
  BY <1>a DEF TrackInv
<1>b. \A q \in Requests : req[q].pc # "idle" => req[q].key \in Keys /\ req[q].key \in issued
  BY RequestParts DEF KeysInv, Seen
<1>2. ASSUME NEW q \in Requests, NEW k \in Keys, Authenticate(q, k) PROVE Goal
  <2>1. /\ Others(q) /\ req[q].pc = "idle" /\ k \in Live /\ req'[q].pc = "read"
        /\ req'[q].key = k /\ req'[q].snapshot = stored[k].binding
        /\ UNCHANGED <<svars, rvars, restarts, hvars>>
    BY <1>2, AuthenticateSays
  <2>2. (\A j \in Keys : Tracked(j)) /\ (\A p \in Requests : Follows(p))
    BY <1>a, <2>1 DEF RowsReturn, svars
  <2>3. Live' = Live /\ \A j \in Keys : Saving(j) => Saving(j)'
    BY <2>1 DEF Live, svars, Saving, Others
  <2>4. Follows(q)'
    BY <2>1, <2>2 DEF Follows, Tracked, hvars
  <2>5. \A p \in Requests : p # q => Follows(p)'
    BY <2>1, <2>2 DEF Follows, Others, rvars, hvars
  <2>6. \A j \in Keys : Tracked(j)'
    BY <2>1, <2>2, <2>3 DEF Tracked, svars, rvars, hvars
  <2> QED
    BY <2>4, <2>5, <2>6 DEF Goal
<1>3. ASSUME NEW q \in Requests, Others(q), UNCHANGED <<svars, rvars, restarts, lastRoute>>,
             req[q].pc \in {"read", "list"}, req'[q].pc \in {"idle", "list", "choose", "routed"},
             req'[q].pc # "idle" => req'[q].key = req[q].key,
             req'[q].pc \in {"list", "choose"} => req'[q].snapshot = req[q].snapshot
      PROVE  Goal
  <2>1. (\A j \in Keys : Tracked(j)) /\ (\A p \in Requests : Follows(p))
    BY <1>3, <1>a DEF RowsReturn, svars
  <2>2. Live' = Live /\ \A j \in Keys : Saving(j) => Saving(j)'
    BY <1>3 DEF Live, svars, Saving, Others
  <2>3. Follows(q)'
    BY <1>3, <2>1 DEF Follows
  <2>4. \A p \in Requests : p # q => Follows(p)'
    BY <1>3, <2>1 DEF Follows, Others, rvars
  <2>5. \A j \in Keys : Tracked(j)'
    BY <1>3, <2>1, <2>2 DEF Tracked, svars, rvars
  <2> QED
    BY <2>3, <2>4, <2>5 DEF Goal
<1>4. ASSUME NEW q \in Requests, KeepBinding(q) PROVE Goal
  <2> DEFINE k == req[q].key
  <2>1. /\ Others(q) /\ req[q].pc = "choose" /\ req'[q].pc = "routed" /\ k \in Keys
        /\ req'[q].key = k /\ Bound(q) \in Accounts
        /\ bindings' = [bindings EXCEPT ![k] = Bound(q)]
        /\ lastRoute' = [lastRoute EXCEPT ![k] = Bound(q)]
        /\ UNCHANGED <<svars, restarts>>
    BY <1>4, KeepBindingSays
  <2>2. (\A j \in Keys : Tracked(j)) /\ (\A p \in Requests : Follows(p))
    BY <1>a, <2>1 DEF RowsReturn, svars
  <2>3. ~Saving(k)
    BY <2>1 DEF Saving, OneEach
  <2>4. Bound(q) = lastRoute[k]
    BY <2>1, <2>2, <2>3 DEF Bound, Follows, Tracked
  <2>5. /\ Live' = Live /\ bindings'[k] = Bound(q) /\ lastRoute' = lastRoute
        /\ \A j \in Keys : j # k => bindings'[j] = bindings[j]
    BY <2>1, <2>4 DEF Live, svars, TypeOK
  <2>6. Tracked(k)'
    BY <2>1, <2>2, <2>4, <2>5 DEF Tracked, svars
  <2>7. Follows(q)'
    BY <2>1 DEF Follows
  <2>8. /\ \A p \in Requests : p # q => Follows(p)'
        /\ \A j \in Keys : j # k => Tracked(j)'
    BY <2>1, <2>2, <2>5, OthersTracked DEF svars
  <2> QED
    BY <2>1, <2>6, <2>7, <2>8 DEF Goal
<1>5. ASSUME NEW q \in Requests, Assign(q) PROVE Goal
  <2> DEFINE k == req[q].key
  <2>1. /\ Others(q) /\ req[q].pc = "choose" /\ req'[q].pc = "persist" /\ k \in Keys
        /\ req'[q].key = k /\ Bound(q) \notin Offered(req[q].cands)
        /\ bindings' = [bindings EXCEPT ![k] = req'[q].account]
        /\ UNCHANGED <<svars, restarts, hvars>>
    BY <1>5, AssignSays
  <2>2. (\A j \in Keys : Tracked(j)) /\ (\A p \in Requests : Follows(p))
    BY <1>a, <2>1 DEF RowsReturn, svars
  <2>3. ~Saving(k)
    BY <2>1 DEF Saving, OneEach
  <2>4. Bound(q) = lastRoute[k]
    BY <2>1, <2>2, <2>3 DEF Bound, Follows, Tracked
  <2>5. /\ Live' = Live /\ bindings'[k] = req'[q].account /\ lastRoute' = lastRoute
        /\ refused' = refused
        /\ \A j \in Keys : j # k => bindings'[j] = bindings[j]
    BY <2>1 DEF Live, svars, hvars, TypeOK
  <2>6. Family # "deepseek" => lastRoute[k] \in {NoAccount} \cup refused[q]
    BY <2>1, <2>4 DEF RoutingInv, CandidatesComplete, TypeOK, MaybeAccount
  <2>7. Follows(q)'
    BY <2>1, <2>5, <2>6 DEF Follows
  <2>8. Saving(k)'
    BY <2>1 DEF Saving
  <2>9. Tracked(k)'
    BY <2>1, <2>2, <2>5, <2>8 DEF Tracked, svars
  <2>10. /\ \A p \in Requests : p # q => Follows(p)'
         /\ \A j \in Keys : j # k => Tracked(j)'
    BY <2>1, <2>2, <2>5, OthersTracked DEF svars
  <2> QED
    BY <2>1, <2>7, <2>9, <2>10 DEF Goal
<1>6. ASSUME NEW q \in Requests, NEW f \in BOOLEAN, Persist(q, f) PROVE Goal
  <2> DEFINE k == req[q].key
  <2>1. /\ Others(q) /\ req[q].pc = "persist" /\ req'[q].pc = "routed" /\ k \in Keys
        /\ req'[q].key = k /\ UNCHANGED <<rvars, issued, restarts>>
        /\ lastRoute' = [lastRoute EXCEPT ![k] = req[q].account]
        /\ \A j \in Keys : /\ stored'[j] # NoKey <=> stored[j] # NoKey
                           /\ j # k => stored'[j] = stored[j]
        /\ k \in Live => stored'[k].binding = req[q].account
        /\ Save(stored', f) \/ UNCHANGED <<stored, disk, failures>>
    BY <1>6, PersistSays
  <2>2. RowsReturn
    BY <2>1, SaveSays DEF RowsReturn
  <2>3. (\A j \in Keys : Tracked(j)) /\ (\A p \in Requests : Follows(p))
    BY <1>a, <2>2
  <2>4. /\ Live' = Live /\ bindings' = bindings
        /\ lastRoute'[k] = req[q].account
        /\ \A j \in Keys : j # k => lastRoute'[j] = lastRoute[j]
    BY <2>1 DEF Live, rvars, TypeOK
  <2>5. bindings[k] \in {NoAccount, req[q].account} /\ k \in issued
    BY <1>b, <2>1, <2>3 DEF Follows
  <2>6. Tracked(k)'
    BY <2>1, <2>4, <2>5 DEF Tracked
  <2>7. Follows(q)'
    BY <2>1 DEF Follows
  <2>8. /\ \A p \in Requests : p # q => Follows(p)'
        /\ \A j \in Keys : j # k => Tracked(j)'
    BY <2>1, <2>3, <2>4, OthersTracked
  <2> QED
    BY <2>1, <2>6, <2>7, <2>8 DEF Goal
<1>7. ASSUME NEW q \in Requests, NEW ok \in BOOLEAN, NEW f \in BOOLEAN, Finish(q, ok, f)
      PROVE  Goal
  <2>1. /\ Others(q) /\ req[q].pc = "routed" /\ req'[q].pc = "idle" /\ Save(stored, f)
        /\ UNCHANGED <<issued, rvars, restarts, lastRoute>>
    BY <1>7, FinishSays
  <2>2. RowsReturn
    BY <2>1, SaveSays DEF RowsReturn
  <2>3. (\A j \in Keys : Tracked(j)) /\ (\A p \in Requests : Follows(p))
    BY <1>a, <2>2
  <2>4. stored' = stored /\ Live' = Live /\ bindings' = bindings
    BY <2>1, SaveSays DEF Live, rvars
  <2>5. \A j \in Keys : Saving(j) => Saving(j)'
    BY <2>1 DEF Saving, Others
  <2>6. Follows(q)'
    BY <2>1 DEF Follows
  <2>7. \A p \in Requests : p # q => Follows(p)'
    BY <2>1, <2>3, <2>4 DEF Follows, Others
  <2>8. \A j \in Keys : Tracked(j)'
    BY <2>1, <2>3, <2>4, <2>5 DEF Tracked
  <2> QED
    BY <2>1, <2>6, <2>7, <2>8 DEF Goal
<1>8. ASSUME NEW m, NEW f \in BOOLEAN, Save(m, f), Elsewhere, UNCHANGED rvars, issued \subseteq issued',
             \A k \in Keys : m[k] # NoKey => \/ stored[k] # NoKey /\ m[k].binding = stored[k].binding
                                             \/ k \notin issued /\ m[k].binding = NoAccount
      PROVE  Goal
  <2>1. /\ stored' = m /\ bindings' = bindings /\ req' = req /\ lastRoute' = lastRoute
        /\ refused' = refused
    BY <1>8, SaveSays DEF rvars, Elsewhere, hvars
  <2>2. RowsReturn
    BY <1>8, SaveSays DEF RowsReturn, Elsewhere
  <2>3. (\A j \in Keys : Tracked(j)) /\ (\A p \in Requests : Follows(p))
    BY <1>a, <2>2
  <2>4. \A k \in Keys : Saving(k)' = Saving(k)
    BY <2>1 DEF Saving
  <2>5. ASSUME NEW k \in Keys PROVE Tracked(k)'
    <3>1. Tracked(k)
      BY <2>3
    <3>2. k \in Live' => stored'[k].binding = lastRoute[k]
      BY <1>8, <2>1, <3>1 DEF Tracked, Live
    <3> QED
      BY <1>8, <2>1, <2>4, <3>1, <3>2 DEF Tracked
  <2>6. \A q \in Requests : Follows(q)'
    BY <2>1, <2>3 DEF Follows
  <2> QED
    BY <2>5, <2>6 DEF Goal
<1>9. ASSUME NEW k \in Keys, NEW s \in Strategies, NEW f \in BOOLEAN, CreateKey(k, s, f),
             Elsewhere, UNCHANGED rvars
      PROVE  Goal
  <2> DEFINE r == [binding |-> NoAccount, strategy |-> s]
             m == [stored EXCEPT ![k] = r]
  <2>1. Save(m, f) /\ k \notin issued /\ issued \subseteq issued'
    BY <1>9 DEF CreateKey
  <2>2. r.binding = NoAccount
    OBVIOUS
  <2> HIDE DEF r
  <2>3. m[k] = r /\ \A j \in Keys : j # k => m[j] = stored[j]
    BY DEF TypeOK
  <2> HIDE DEF m
  <2> QED
    BY <1>8, <1>9, <2>1, <2>2, <2>3
<1>10. ASSUME NEW k \in Keys, NEW s \in Strategies, NEW f \in BOOLEAN, UpdateKeyStrategy(k, s, f),
              Elsewhere, UNCHANGED rvars
       PROVE  Goal
  <2> DEFINE m == [stored EXCEPT ![k].strategy = s]
  <2>1. stored[k] # NoKey /\ stored[k] \in KeyRow
    BY <1>10 DEF UpdateKeyStrategy, Live, TypeOK
  <2>2. m[k].binding = stored[k].binding /\ \A j \in Keys : j # k => m[j] = stored[j]
    BY <2>1 DEF TypeOK, KeyRow
  <2>3. Save(m, f) /\ issued' = issued
    BY <1>10 DEF UpdateKeyStrategy
  <2> HIDE DEF m
  <2> QED
    BY <1>8, <1>10, <2>1, <2>2, <2>3
<1>11. ASSUME NEW k \in Keys, NEW f \in BOOLEAN, DeleteKey(k, f), Elsewhere, UNCHANGED rvars
       PROVE  Goal
  <2> DEFINE m == [stored EXCEPT ![k] = NoKey]
  <2>1. m[k] = NoKey /\ \A j \in Keys : j # k => m[j] = stored[j]
    BY DEF TypeOK
  <2>2. Save(m, f) /\ issued' = issued
    BY <1>11 DEF DeleteKey
  <2> HIDE DEF m
  <2> QED
    BY <1>8, <1>11, <2>1, <2>2
<1>12. ASSUME OtherSave /\ Elsewhere /\ UNCHANGED rvars PROVE Goal
  BY <1>8, <1>12 DEF OtherSave
<1>13. ASSUME NEW k \in Keys, ForgetAPIKeyRoutes(k), Elsewhere PROVE Goal
  <2>1. /\ bindings' = [bindings EXCEPT ![k] = NoAccount]
        /\ UNCHANGED <<stored, issued, failures, req, restarts, lastRoute, refused>>
    BY <1>13 DEF ForgetAPIKeyRoutes, Elsewhere, hvars
  <2>2. (\A j \in Keys : Tracked(j)) /\ (\A p \in Requests : Follows(p))
    BY <1>a, <2>1 DEF RowsReturn
  <2>3. \A j \in Keys : bindings'[j] \in {NoAccount, bindings[j]}
    BY <2>1 DEF TypeOK
  <2>4. \A q \in Requests : Follows(q)'
    BY <1>b, <2>1, <2>2, <2>3 DEF Follows
  <2>5. \A j \in Keys : Tracked(j)'
    BY <2>1, <2>2, <2>3 DEF Tracked, Saving, Live
  <2> QED
    BY <2>4, <2>5 DEF Goal
<1>14. ASSUME Restart PROVE Goal
  <2>1. /\ stored' = disk /\ failures' = failures /\ restarts' = restarts + 1
        /\ bindings' = [k \in Keys |-> NoAccount] /\ \A q \in Requests : req'[q].pc = "idle"
        /\ issued' = issued /\ lastRoute' = lastRoute
    BY <1>14, RestartSays
  <2>2. failures = 0
    BY <2>1 DEF RowsReturn, TypeOK
  <2>3. disk = stored
    BY <2>2 DEF MemoryInv
  <2>4. \A j \in Keys : Tracked(j)
    BY <1>a, <2>2 DEF RowsReturn
  <2>5. \A j \in Keys : Tracked(j)'
    BY <2>1, <2>3, <2>4 DEF Tracked, Live
  <2>6. \A q \in Requests : Follows(q)'
    BY <2>1 DEF Follows
  <2> QED
    BY <2>5, <2>6 DEF Goal
<1>15. ASSUME UNCHANGED <<svars, rvars, req, restarts, hvars>> PROVE Goal
  <2>1. (\A j \in Keys : Tracked(j)) /\ (\A p \in Requests : Follows(p))
    BY <1>15, <1>a DEF RowsReturn, svars
  <2>2. \A j \in Keys : Tracked(j)'
    BY <1>15, <2>1 DEF Tracked, Saving, Live, svars, rvars, hvars
  <2>3. \A q \in Requests : Follows(q)'
    BY <1>15, <2>1 DEF Follows, rvars, hvars
  <2> QED
    BY <2>2, <2>3 DEF Goal
<1>16. ASSUME NEW q \in Requests, RequestStep(q) PROVE Goal
  <2>1. CASE ReadAccounts(q)
    BY <1>3, <2>1, ReadAccountsSays
  <2>2. CASE ReadAssignments(q)
    BY <1>3, <2>2, ReadAssignmentsSays DEF hvars
  <2> QED
    BY <1>2, <1>4, <1>5, <1>6, <1>7, <1>16, <2>1, <2>2 DEF RequestStep
<1>17. ASSUME Next PROVE Goal
  <2>1. CASE \E k \in Keys : Elsewhere /\ ForgetAPIKeyRoutes(k)
    BY <1>13, <2>1
  <2>2. CASE Elsewhere /\ UNCHANGED rvars /\ UNCHANGED svars
    BY <1>15, <2>2 DEF Elsewhere
  <2>3. ASSUME NEW k \in Keys, NEW s \in Strategies, NEW f \in BOOLEAN,
               CreateKey(k, s, f) \/ UpdateKeyStrategy(k, s, f), Elsewhere, UNCHANGED rvars
        PROVE  Goal
    BY <1>9, <1>10, <2>3
  <2> QED
    BY <1>11, <1>12, <1>14, <1>16, <1>17, <2>1, <2>2, <2>3, ElsewhereSays
<1>18. ASSUME UNCHANGED vars PROVE Goal
  BY <1>15, <1>18 DEF vars, svars, rvars, hvars
<1>19. Goal
  BY <1>17, <1>18
<1> QED
  BY <1>19 DEF Goal

LEMMA TrackHolds == ASSUME SerialKeys PROVE Spec => []TrackInv
<1>1. Init => TrackInv
  BY DEF Init, Idle, TrackInv, Tracked, Follows, Live
<1> QED
  BY <1>1, TrackStep, TypeCorrect, RoutingHolds, KeysHold, OneEachHolds, MemoryHolds, PTL DEF Spec

(* Requests of a key one at a time, outside the DeepSeek family, and no restart that      *)
(* brings back a row which a failed save had left on disk: Fill moves a key off its       *)
(* account only on behalf of a request that found the account unusable.  Each hypothesis  *)
(* is needed: RouterLiteReturns is the DeepSeek case, overlapping requests of a key may   *)
(* save their bindings in the opposite order of the choice, and a restart after a failed  *)
(* save gives the key the account it had before.                                          *)
THEOREM FillStickyHolds ==
  ASSUME SerialKeys, Family # "deepseek"
  PROVE  Spec /\ [](failures = 0 \/ restarts = 0) => FillSticky
<1>1. ASSUME TypeOK, OneEach, TrackInv, RowsReturn, Next, NEW k \in Keys,
             lastRoute[k] # NoAccount, lastRoute'[k] # lastRoute[k]
      PROVE  \E q \in Requests : req[q] # Idle /\ req[q].key = k /\ lastRoute[k] \in refused[q]
  <2>1. PICK q \in Requests : KeepBinding(q) \/ \E f \in BOOLEAN : Persist(q, f)
    BY <1>1, ElsewhereSays, RestartSays
       DEF RequestStep, Authenticate, ReadAccounts, ReadAssignments, Assign, Finish, Elsewhere, hvars
  <2>2. /\ req[q].pc \in {"choose", "persist"} /\ req[q].key = k
        /\ req[q].pc = "choose" => lastRoute'[k] = Bound(q)
    BY <1>1, <2>1, KeepBindingSays, PersistSays DEF TypeOK
  <2>3. req[q] # Idle
    BY <2>2, IdleType
  <2>4. Tracked(k) /\ Follows(q)
    BY <1>1 DEF TrackInv
  <2>5. req[q].pc # "choose"
    <3>1. SUFFICES ASSUME req[q].pc = "choose" PROVE FALSE
      OBVIOUS
    <3>2. ~Saving(k)
      BY <1>1, <2>2, <3>1 DEF Saving, OneEach
    <3>3. Bound(q) = lastRoute[k]
      BY <2>2, <2>4, <3>1, <3>2 DEF Bound, Tracked, Follows
    <3> QED
      BY <1>1, <2>2, <3>1, <3>3
  <2>6. lastRoute[k] \in refused[q]
    BY <1>1, <2>2, <2>4, <2>5 DEF Follows
  <2> QED
    BY <2>2, <2>3, <2>6
<1>2. TypeOK /\ OneEach /\ TrackInv /\ RowsReturn /\ [Next]_vars =>
        [\A k \in Keys :
           lastRoute[k] # NoAccount /\ lastRoute'[k] # lastRoute[k] =>
             \E q \in Requests : req[q] # Idle /\ req[q].key = k /\ lastRoute[k] \in refused[q]]_vars
  BY <1>1
<1>3. (failures = 0 \/ restarts = 0) <=> RowsReturn
  BY DEF RowsReturn
<1> QED
  BY <1>2, <1>3, TypeCorrect, OneEachHolds, TrackHolds, PTL DEF Spec, FillSticky
=============================================================================
