------------------------ MODULE ProxyRequestProofs ------------------------
(***************************************************************************)
(* Proofs about ProxyRequest and Accounts for every number of accounts,    *)
(* requests, synchronisations and refresh tokens and every retry count.    *)
(***************************************************************************)
EXTENDS ProxyRequest, SequenceTheorems, TLAPS

-----------------------------------------------------------------------------
(* The local state of a thread that is not idle.                           *)
SyncLocal ==
  [pc : {"refresh", "broker", "store", "fetch", "failed"},
   account : Accounts, used : 0 .. MaxTokens, got : 0 .. MaxTokens, refused : BOOLEAN]
RequestLocal ==
  [pc : {"refresh", "broker", "store", "call", "disable", "forward", "record"},
   account : Accounts, used : 0 .. MaxTokens, got : 0 .. MaxTokens, refused : BOOLEAN,
   limit : 0 .. MaxRetries, retries : Nat, attempts : Seq(Outcomes), calls : Seq(Outcomes)]
LocalOf(t) == IF t \in Requests THEN RequestLocal ELSE SyncLocal

ThreadsOK ==
  /\ thread = [t \in Threads |-> thread[t]]
  /\ \A t \in Threads : thread[t] = Idle \/ thread[t] \in LocalOf(t)
RowsOK == row \in [Accounts -> {Unused, Deleted} \cup Row]
BrokerOK ==
  /\ rotates \in BOOLEAN
  /\ issued \in 0 .. MaxTokens
  /\ accepted \subseteq 1 .. issued /\ lost \subseteq 1 .. issued
  /\ failures \in 0 .. MaxFailures
TypeInv == ThreadsOK /\ RowsOK /\ BrokerOK

LEMMA Busy ==
  ASSUME ThreadsOK, NEW t \in Threads, thread[t].pc # "idle"
  PROVE  thread[t] \in LocalOf(t)
BY DEF ThreadsOK, Idle

LEMMA GoOK ==
  ASSUME ThreadsOK, NEW t \in Threads, NEW local \in LocalOf(t) \cup {Idle}, Go(t, local)
  PROVE  /\ ThreadsOK'
         /\ thread'[t] = local
         /\ \A u \in Threads \ {t} : thread'[u] = thread[u]
<1>1. thread' = [u \in Threads |-> IF u = t THEN local ELSE thread[u]]
  BY DEF ThreadsOK, Go
<1> QED
  BY <1>1 DEF ThreadsOK

(* What the fields of a busy thread are. *)
LEMMA Fields ==
  ASSUME NEW t \in Threads, NEW local \in LocalOf(t)
  PROVE  /\ local.account \in Accounts /\ local.used \in 0 .. MaxTokens
         /\ local.got \in 0 .. MaxTokens /\ local.refused \in BOOLEAN
         /\ local.pc \in Points(t)
BY DEF LocalOf, RequestLocal, SyncLocal, Points

(* Steps that assign fewer of these four fields leave the others alone. *)
LEMMA AssignOne ==
  ASSUME NEW t \in Threads, NEW local \in LocalOf(t), NEW pc \in Points(t)
  PROVE  /\ [local EXCEPT !.pc = pc]
              = [local EXCEPT !.used = local.used, !.got = local.got,
                              !.refused = local.refused, !.pc = pc]
         /\ \A x : [local EXCEPT !.pc = pc, !.used = x]
              = [local EXCEPT !.used = x, !.got = local.got, !.refused = local.refused, !.pc = pc]
         /\ \A x : [local EXCEPT !.pc = pc, !.got = x]
              = [local EXCEPT !.used = local.used, !.got = x, !.refused = local.refused, !.pc = pc]
         /\ \A x, y : [local EXCEPT !.used = x, !.got = y, !.pc = pc]
              = [local EXCEPT !.used = x, !.got = y, !.refused = local.refused, !.pc = pc]
BY DEF LocalOf, RequestLocal, SyncLocal

(* Thread t moves to pc with these tokens and keeps its account and its audit. *)
Moves(t, pc, used, got, refused) ==
  /\ ThreadsOK'
  /\ thread'[t] \in LocalOf(t)
  /\ thread'[t].pc = pc /\ thread'[t].used = used /\ thread'[t].got = got
  /\ thread'[t].refused = refused
  /\ thread'[t].account = thread[t].account
  /\ t \in Requests => /\ thread'[t].limit = thread[t].limit
                       /\ thread'[t].retries = thread[t].retries
                       /\ thread'[t].attempts = thread[t].attempts
                       /\ thread'[t].calls = thread[t].calls
  /\ \A u \in Threads \ {t} : thread'[u] = thread[u]

LEMMA AssignMoves ==
  ASSUME ThreadsOK, NEW t \in Threads, thread[t].pc # "idle", NEW pc \in Points(t),
         NEW used \in 0 .. MaxTokens, NEW got \in 0 .. MaxTokens, NEW refused \in BOOLEAN,
         Go(t, [thread[t] EXCEPT !.used = used, !.got = got, !.refused = refused, !.pc = pc])
  PROVE  Moves(t, pc, used, got, refused)
<1>1. thread[t] \in LocalOf(t)
  BY Busy
<1>2. PICK new : new = [thread[t] EXCEPT !.used = used, !.got = got, !.refused = refused, !.pc = pc]
  OBVIOUS
<1>3. /\ new \in LocalOf(t)
      /\ new.pc = pc /\ new.used = used /\ new.got = got /\ new.account = thread[t].account
      /\ new.refused = refused
      /\ t \in Requests => /\ new.limit = thread[t].limit /\ new.retries = thread[t].retries
                           /\ new.attempts = thread[t].attempts /\ new.calls = thread[t].calls
  BY <1>1, <1>2 DEF LocalOf, RequestLocal, SyncLocal, Points
<1>4. Go(t, new)
  BY <1>2
<1>5. /\ ThreadsOK'
      /\ thread'[t] = new
      /\ \A u \in Threads \ {t} : thread'[u] = thread[u]
  BY <1>3, <1>4, GoOK
<1> QED
  BY <1>3, <1>5 DEF Moves

LEMMA ProceedMoves ==
  ASSUME ThreadsOK, NEW t \in Threads, thread[t].pc # "idle", Proceed(t)
  PROVE  Moves(t, Using(t), None, None, thread[t].refused)
<1>1. thread[t] \in LocalOf(t)
  BY Busy
<1>2. Using(t) \in Points(t) /\ None \in 0 .. MaxTokens /\ thread[t].refused \in BOOLEAN
  BY <1>1, Fields, AccountConstants DEF Using, Points, None
<1>3. [thread[t] EXCEPT !.used = None, !.got = None, !.pc = Using(t)]
        = [thread[t] EXCEPT !.used = None, !.got = None, !.refused = thread[t].refused,
                            !.pc = Using(t)]
  BY <1>1, <1>2, AssignOne
<1>4. Go(t, [thread[t] EXCEPT !.used = None, !.got = None, !.refused = thread[t].refused,
                              !.pc = Using(t)])
  BY <1>3 DEF Proceed
<1> QED
  BY <1>2, <1>4, AssignMoves

FailPoint(t, refused) ==
  IF t \notin Requests THEN "failed" ELSE IF refused THEN "disable" ELSE "record"

LEMMA FailsMoves ==
  ASSUME ThreadsOK, NEW t \in Threads, thread[t].pc # "idle", NEW refused \in BOOLEAN,
         Go(t, Fails(t, refused))
  PROVE  Moves(t, FailPoint(t, refused), None, None, refused)
<1>1. FailPoint(t, refused) \in Points(t) /\ None \in 0 .. MaxTokens
  BY AccountConstants DEF FailPoint, Points, None
<1>2. Go(t, [thread[t] EXCEPT !.used = None, !.got = None, !.refused = refused,
                              !.pc = FailPoint(t, refused)])
  BY DEF Fails, Failed, FailPoint
<1> QED
  BY <1>1, <1>2, AssignMoves

(* ReadToken on its way to the broker, and Granted on its way to the Store. *)
LEMMA UsedMoves ==
  ASSUME ThreadsOK, NEW t \in Threads, thread[t].pc # "idle", NEW used \in 0 .. MaxTokens,
         Go(t, [thread[t] EXCEPT !.pc = "broker", !.used = used])
  PROVE  Moves(t, "broker", used, thread[t].got, thread[t].refused)
<1>1. thread[t] \in LocalOf(t) /\ "broker" \in Points(t)
  BY Busy DEF Points
<1>2. Go(t, [thread[t] EXCEPT !.used = used, !.got = thread[t].got,
                              !.refused = thread[t].refused, !.pc = "broker"])
  BY <1>1, AssignOne
<1>3. thread[t].got \in 0 .. MaxTokens /\ thread[t].refused \in BOOLEAN
  BY <1>1, Fields
<1> QED
  BY <1>1, <1>2, <1>3, AssignMoves

LEMMA GotMoves ==
  ASSUME ThreadsOK, NEW t \in Threads, thread[t].pc # "idle", NEW got \in 0 .. MaxTokens,
         Go(t, [thread[t] EXCEPT !.pc = "store", !.got = got])
  PROVE  Moves(t, "store", thread[t].used, got, thread[t].refused)
<1>1. thread[t] \in LocalOf(t) /\ "store" \in Points(t)
  BY Busy DEF Points
<1>2. Go(t, [thread[t] EXCEPT !.used = thread[t].used, !.got = got,
                              !.refused = thread[t].refused, !.pc = "store"])
  BY <1>1, AssignOne
<1>3. thread[t].used \in 0 .. MaxTokens /\ thread[t].refused \in BOOLEAN
  BY <1>1, Fields
<1> QED
  BY <1>1, <1>2, <1>3, AssignMoves

LEMMA PcMoves ==
  ASSUME ThreadsOK, NEW t \in Threads, thread[t].pc # "idle", NEW pc \in Points(t),
         Go(t, [thread[t] EXCEPT !.pc = pc])
  PROVE  Moves(t, pc, thread[t].used, thread[t].got, thread[t].refused)
<1>1. thread[t] \in LocalOf(t)
  BY Busy
<1>2. Go(t, [thread[t] EXCEPT !.used = thread[t].used, !.got = thread[t].got,
                              !.refused = thread[t].refused, !.pc = pc])
  BY <1>1, AssignOne
<1>3. /\ thread[t].used \in 0 .. MaxTokens /\ thread[t].got \in 0 .. MaxTokens
      /\ thread[t].refused \in BOOLEAN
  BY <1>1, Fields
<1> QED
  BY <1>2, <1>3, AssignMoves

-----------------------------------------------------------------------------
(* The refresh tokens.  While a new token is on its way to the Store, no   *)
(* other thread has it and no row keeps it; a token belongs to one account.*)
RowTokens ==
  /\ \A a \in Accounts : Exists(a) => row[a].refresh \in 0 .. issued
  /\ rotates => \A a, b \in Accounts :
       a # b /\ Exists(a) /\ Exists(b) => row[a].refresh # row[b].refresh \/ row[a].refresh = None
UsedTokens ==
  \A t \in Threads : At(t, "broker") \/ At(t, "store") =>
    thread[t].used \in 1 .. issued /\ Own(t) \in Accounts
BrokerTokens ==
  rotates => \A t \in Threads, a \in Accounts :
    At(t, "broker") /\ Exists(a) /\ row[a].refresh = thread[t].used => Own(t) = a
Unshared(t) ==
  /\ thread[t].got \in accepted
  /\ \A a \in Accounts : Exists(a) => row[a].refresh # thread[t].got
  /\ \A u \in Threads \ {t} : /\ At(u, "store") => thread[u].got # thread[t].got
                              /\ At(u, "broker") => thread[u].used # thread[t].got
GotTokens ==
  \A t \in Threads : At(t, "store") =>
    IF rotates THEN Unshared(t) ELSE thread[t].got = None /\ thread[t].used \in accepted
TokenInv == RowTokens /\ UsedTokens /\ BrokerTokens /\ GotTokens /\ RefreshTokenUsable

(* A step that stores no token and does not bring a thread to the broker or the Store. *)
LEMMA Quiet ==
  ASSUME TypeInv, TokenInv, UNCHANGED broker,
         \A a \in Accounts : Exists(a)' => Exists(a) /\ row'[a].refresh = row[a].refresh,
         \A u \in Threads : \/ thread'[u] = thread[u]
                            \/ thread[u].pc # "store" /\ thread'[u].pc \notin {"broker", "store"}
  PROVE  TokenInv'
<1>1. /\ issued' = issued /\ accepted' = accepted /\ lost' = lost /\ rotates' = rotates
  BY DEF broker
<1>2. \A u \in Threads : At(u, "store")' \/ At(u, "broker")' => thread'[u] = thread[u]
  BY DEF At
<1>3. \A u \in Threads : At(u, "store") => thread'[u] = thread[u]
  BY DEF At
<1>4. RowTokens'
  BY <1>1 DEF RowTokens, TokenInv
<1>5. UsedTokens'
  BY <1>1, <1>2 DEF UsedTokens, TokenInv, At, Own
<1>6. BrokerTokens'
  BY <1>1, <1>2 DEF BrokerTokens, TokenInv, At, Own
<1>7. GotTokens'
  BY <1>1, <1>2 DEF GotTokens, Unshared, TokenInv, At
<1>8. RefreshTokenUsable'
  BY <1>1, <1>3 DEF RefreshTokenUsable, TokenInv, At, Own, Threads
<1> QED
  BY <1>4, <1>5, <1>6, <1>7, <1>8 DEF TokenInv

(* A thread takes the token of its account to the broker. *)
LEMMA ReadsToken ==
  ASSUME TypeInv, TokenInv, UNCHANGED <<row, broker>>, NEW t \in Threads, At(t, "refresh"),
         NEW got, NEW refused, Exists(Own(t)), Own(t) \in Accounts, row[Own(t)].refresh # None,
         Moves(t, "broker", row[Own(t)].refresh, got, refused)
  PROVE  TokenInv'
<1>1. /\ issued' = issued /\ accepted' = accepted /\ lost' = lost /\ rotates' = rotates /\ row' = row
  BY DEF broker
<1>2. /\ thread'[t].pc = "broker" /\ thread'[t].used = row[Own(t)].refresh
      /\ thread'[t].account = thread[t].account
      /\ \A u \in Threads \ {t} : thread'[u] = thread[u]
  BY DEF Moves
<1>3. row[Own(t)].refresh \in 1 .. issued
  BY DEF TokenInv, RowTokens, None, TypeInv, BrokerOK
<1>4. RowTokens'
  BY <1>1 DEF RowTokens, TokenInv, Exists
<1>5. UsedTokens'
  BY <1>1, <1>2, <1>3 DEF UsedTokens, TokenInv, At, Own
<1>6. BrokerTokens'
  BY <1>1, <1>2 DEF BrokerTokens, RowTokens, TokenInv, At, Own, Exists
<1>7. GotTokens'
  <2>1. SUFFICES ASSUME NEW u \in Threads, At(u, "store")'
                 PROVE IF rotates THEN Unshared(u)' ELSE thread'[u].got = None /\ thread'[u].used \in accepted
    BY <1>1 DEF GotTokens
  <2>2. u # t /\ thread'[u] = thread[u] /\ At(u, "store")
    BY <1>2, <2>1 DEF At
  <2>3. CASE rotates
    <3>1. Unshared(u)
      BY <2>2, <2>3 DEF GotTokens, TokenInv
    <3>2. thread'[t].used # thread[u].got
      BY <1>2, <3>1 DEF Unshared
    <3> QED
      BY <1>1, <1>2, <2>2, <2>3, <3>1, <3>2 DEF Unshared, At, Exists
  <2>4. CASE ~rotates
    BY <1>1, <2>2, <2>4 DEF GotTokens, TokenInv
  <2> QED
    BY <2>3, <2>4
<1>8. RefreshTokenUsable'
  <2>1. \A u \in Threads : At(u, "store") => thread'[u] = thread[u]
    BY <1>2 DEF At
  <2> QED
    BY <1>1, <2>1 DEF RefreshTokenUsable, TokenInv, At, Own, Exists, Threads
<1> QED
  BY <1>4, <1>5, <1>6, <1>7, <1>8 DEF TokenInv

(* The broker exchanges the token: the rows that kept it are those of the account whose    *)
(* thread now has the new one, or the old one is lost.                                      *)
LEMMA Exchanges ==
  ASSUME TypeInv, TokenInv, UNCHANGED <<row, rotates>>, NEW t \in Threads, At(t, "broker"),
         thread[t].used \in accepted, Exchange(t), NEW refused,
         \/ Moves(t, "store", thread[t].used, issued + 1, refused) /\ lost' = lost
         \/ /\ \E pc, used, got : Moves(t, pc, used, got, refused) /\ pc \notin {"broker", "store"}
            /\ lost' = lost \cup {thread[t].used}
  PROVE  TokenInv'
<1>1. /\ rotates /\ rotates' = rotates /\ row' = row /\ issued \in Nat /\ issued' = issued + 1
      /\ accepted' = (accepted \ {thread[t].used}) \cup {issued + 1}
      /\ accepted \subseteq 1 .. issued /\ lost \subseteq lost'
  BY AccountConstants DEF Exchange, TypeInv, BrokerOK
<1>2. /\ thread'[t].account = thread[t].account /\ thread'[t].pc # "broker"
      /\ thread'[t].pc = "store" => /\ thread'[t].got = issued + 1
                                    /\ thread'[t].used = thread[t].used
      /\ thread'[t].pc # "store" => thread[t].used \in lost'
      /\ \A u \in Threads \ {t} : thread'[u] = thread[u]
  BY DEF Moves
<1>3. RowTokens'
  <2>1. \A a \in Accounts : Exists(a)' => Exists(a) /\ row'[a].refresh \in 0 .. (issued + 1)
    BY <1>1 DEF RowTokens, TokenInv, Exists
  <2> QED
    BY <1>1, <2>1 DEF RowTokens, TokenInv, Exists
<1>4. UsedTokens'
  <2>1. \A x \in 1 .. issued : x \in 1 .. (issued + 1)
    BY <1>1
  <2> QED
    BY <1>1, <1>2, <2>1 DEF UsedTokens, TokenInv, At, Own
<1>5. BrokerTokens'
  BY <1>1, <1>2 DEF BrokerTokens, TokenInv, At, Own, Exists
<1>6. ASSUME NEW u \in Threads, At(u, "store")'
      PROVE  Unshared(u)'
  <2>1. CASE u = t
    <3>1. thread'[t].got = issued + 1
      BY <1>2, <1>6, <2>1 DEF At
    <3>2. \A a \in Accounts : Exists(a)' => row'[a].refresh # issued + 1
      BY <1>1 DEF TokenInv, RowTokens, Exists
    <3>3. \A w \in Threads \ {t} : At(w, "store")' => thread'[w].got # issued + 1
      <4>1. \A w \in Threads : At(w, "store") => thread[w].got \in 1 .. issued
        BY <1>1 DEF TokenInv, GotTokens, Unshared
      <4> QED
        BY <1>1, <1>2, <4>1 DEF At
    <3>4. \A w \in Threads \ {t} : At(w, "broker")' => thread'[w].used # issued + 1
      BY <1>1, <1>2 DEF TokenInv, UsedTokens, At
    <3> QED
      BY <1>1, <2>1, <3>1, <3>2, <3>3, <3>4 DEF Unshared
  <2>2. CASE u # t
    <3>1. thread'[u] = thread[u] /\ Unshared(u)
      BY <1>1, <1>2, <1>6, <2>2 DEF TokenInv, GotTokens, At
    <3>2. thread[u].got # thread[t].used /\ thread[u].got \in 1 .. issued
      BY <1>1, <2>2, <3>1 DEF Unshared
    <3>3. thread[u].got \in accepted'
      BY <1>1, <3>1, <3>2 DEF Unshared
    <3>4. At(t, "store")' => thread'[t].got # thread[u].got
      BY <1>1, <1>2, <3>2 DEF At
    <3>5. \A a \in Accounts : Exists(a)' => row'[a].refresh # thread[u].got
      BY <1>1, <3>1 DEF Unshared, Exists
    <3>6. \A w \in Threads \ {u} : /\ At(w, "store")' => thread'[w].got # thread[u].got
                                   /\ At(w, "broker")' => thread'[w].used # thread[u].got
      BY <1>2, <3>1, <3>4 DEF Unshared, At
    <3> QED
      BY <3>1, <3>3, <3>5, <3>6 DEF Unshared
  <2> QED
    BY <2>1, <2>2
<1>7. GotTokens'
  BY <1>1, <1>6 DEF GotTokens
<1>8. RefreshTokenUsable'
  <2>1. SUFFICES ASSUME NEW a \in Accounts, Exists(a)'
                 PROVE \/ row'[a].refresh \in accepted' \cup lost' \cup {None}
                       \/ \E u \in Threads : At(u, "store")' /\ Own(u)' = a
    BY DEF RefreshTokenUsable
  <2>2. Exists(a) /\ row'[a] = row[a]
    BY <1>1, <2>1 DEF Exists
  <2>3. CASE row[a].refresh = thread[t].used
    <3>1. Own(t) = a
      BY <1>1, <2>2, <2>3 DEF TokenInv, BrokerTokens
    <3> QED
      BY <1>2, <2>2, <2>3, <3>1 DEF At, Own
  <2>4. CASE \E u \in Threads : At(u, "store") /\ Own(u) = a
    BY <1>2, <2>4 DEF At, Own
  <2> QED
    BY <1>1, <2>2, <2>3, <2>4 DEF TokenInv, RefreshTokenUsable
<1> QED
  BY <1>3, <1>4, <1>5, <1>7, <1>8 DEF TokenInv

(* A broker that keeps its tokens accepts the one it was given. *)
LEMMA Keeps ==
  ASSUME TypeInv, TokenInv, UNCHANGED <<row, broker>>, NEW t \in Threads, At(t, "broker"),
         thread[t].used \in accepted, ~rotates, NEW refused,
         Moves(t, "store", thread[t].used, None, refused)
  PROVE  TokenInv'
<1>1. /\ issued' = issued /\ accepted' = accepted /\ lost' = lost /\ rotates' = rotates /\ row' = row
  BY DEF broker
<1>2. /\ thread'[t].pc = "store" /\ thread'[t].used = thread[t].used /\ thread'[t].got = None
      /\ thread'[t].account = thread[t].account
      /\ \A u \in Threads \ {t} : thread'[u] = thread[u]
  BY DEF Moves
<1>3. RowTokens' /\ BrokerTokens'
  BY <1>1 DEF RowTokens, BrokerTokens, TokenInv, Exists
<1>4. UsedTokens'
  BY <1>1, <1>2 DEF UsedTokens, TokenInv, At, Own
<1>5. GotTokens'
  BY <1>1, <1>2 DEF GotTokens, TokenInv, At
<1>6. RefreshTokenUsable'
  BY <1>1, <1>2 DEF RefreshTokenUsable, TokenInv, At, Own, Exists
<1> QED
  BY <1>3, <1>4, <1>5, <1>6 DEF TokenInv

(* The token is stored: no other thread and no other row has it. *)
LEMMA Stores ==
  ASSUME TypeInv, TokenInv, UNCHANGED broker, NEW t \in Threads, At(t, "store"),
         \/ /\ Exists(Own(t))
            /\ Set(Own(t), [row[Own(t)] EXCEPT !.refresh = Kept(t), !.expiring = FALSE])
         \/ ~Exists(Own(t)) /\ row' = row,
         NEW pc, NEW used, NEW got, NEW refused,
         Moves(t, pc, used, got, refused), pc \notin {"broker", "store"}
  PROVE  TokenInv'
<1>1. /\ issued' = issued /\ accepted' = accepted /\ lost' = lost /\ rotates' = rotates
  BY DEF broker
<1>2. /\ ~At(t, "broker")' /\ ~At(t, "store")'
      /\ \A u \in Threads \ {t} : thread'[u] = thread[u]
  BY DEF Moves, At
<1>3. thread[t].used \in 1 .. issued /\ Own(t) \in Accounts
  BY DEF TokenInv, UsedTokens
<1>4. /\ Kept(t) \in accepted /\ Kept(t) \in 1 .. issued
      /\ rotates => Kept(t) = thread[t].got /\ Unshared(t)
  <2>1. accepted \subseteq 1 .. issued /\ issued \in Nat
    BY AccountConstants DEF TypeInv, BrokerOK
  <2>2. CASE rotates
    <3>1. Unshared(t) /\ thread[t].got # None
      BY <2>1, <2>2 DEF TokenInv, GotTokens, Unshared, None
    <3> QED
      BY <2>1, <2>2, <3>1 DEF Kept, Unshared
  <2>3. CASE ~rotates
    BY <2>1, <2>3 DEF TokenInv, GotTokens, Kept
  <2> QED
    BY <2>2, <2>3
<1>5. \A a \in Accounts : Exists(a)' =>
        /\ Exists(a)
        /\ a # Own(t) => row'[a] = row[a]
        /\ a = Own(t) => row'[a].refresh = Kept(t)
  <2>1. CASE ~Exists(Own(t)) /\ row' = row
    BY <2>1 DEF Exists
  <2>2. CASE /\ Exists(Own(t))
             /\ Set(Own(t), [row[Own(t)] EXCEPT !.refresh = Kept(t), !.expiring = FALSE])
    <3>1. row[Own(t)] \in Row
      BY <1>3, <2>2 DEF TypeInv, RowsOK, Exists
    <3>2. [row[Own(t)] EXCEPT !.refresh = Kept(t), !.expiring = FALSE].refresh = Kept(t)
      BY <3>1 DEF Row
    <3> QED
      BY <1>3, <2>2, <3>2 DEF Set, TypeInv, RowsOK, Exists
  <2> QED
    BY <2>1, <2>2
<1>6. RowTokens'
  <2>1. \A a \in Accounts : Exists(a)' => row'[a].refresh \in 0 .. issued
    BY <1>4, <1>5 DEF TokenInv, RowTokens
  <2>2. rotates => \A a \in Accounts : Exists(a) => row[a].refresh # Kept(t)
    BY <1>4 DEF Unshared
  <2> QED
    BY <1>1, <1>5, <2>1, <2>2 DEF TokenInv, RowTokens
<1>7. UsedTokens'
  BY <1>1, <1>2 DEF UsedTokens, TokenInv, At, Own
<1>8. BrokerTokens'
  BY <1>1, <1>2, <1>4, <1>5 DEF BrokerTokens, Unshared, TokenInv, At, Own
<1>9. GotTokens'
  BY <1>1, <1>2, <1>4, <1>5 DEF GotTokens, Unshared, TokenInv, At
<1>10. RefreshTokenUsable'
  <2>1. SUFFICES ASSUME NEW a \in Accounts, Exists(a)'
                 PROVE \/ row'[a].refresh \in accepted' \cup lost' \cup {None}
                       \/ \E u \in Threads : At(u, "store")' /\ Own(u)' = a
    BY DEF RefreshTokenUsable
  <2>2. CASE a = Own(t)
    BY <1>1, <1>4, <1>5, <2>1, <2>2
  <2>3. CASE a # Own(t)
    BY <1>1, <1>2, <1>5, <2>1, <2>3 DEF TokenInv, RefreshTokenUsable, At, Own
  <2> QED
    BY <2>2, <2>3
<1> QED
  BY <1>6, <1>7, <1>8, <1>9, <1>10 DEF TokenInv

(* An import or a login brings a token that nobody has, or none, or keeps the one of the row. *)
LEMMA Connects ==
  ASSUME TypeInv, TokenInv, NEW a \in Accounts, NEW r, row' = [row EXCEPT ![a] = r],
         NEW token \in {None, issued + 1}, UNCHANGED <<rotates, lost>>,
         issued' = IF token = None THEN issued ELSE token,
         accepted' = accepted \cup ({token} \ {None}),
         r.refresh = token \/ r.refresh = None \/ (Exists(a) /\ r.refresh = row[a].refresh),
         \A u \in Threads : At(u, "store")' \/ At(u, "broker")' \/ At(u, "store") => thread'[u] = thread[u]
  PROVE  TokenInv'
<1>1. /\ issued \in Nat /\ issued' \in {issued, issued + 1} /\ None = 0 /\ 0 \notin accepted
      /\ accepted \subseteq accepted' /\ accepted \subseteq 1 .. issued
      /\ rotates' = rotates /\ lost' = lost
  BY AccountConstants DEF TypeInv, BrokerOK, None
<1>2. \A b \in Accounts : /\ b # a => row'[b] = row[b]
                          /\ b = a => row'[b] = r
  BY DEF TypeInv, RowsOK
<1>3. \A b \in Accounts : Exists(b)' =>
        \/ Exists(b) /\ row'[b].refresh = row[b].refresh
        \/ row'[b].refresh = None
        \/ /\ b = a /\ row'[b].refresh = issued + 1 /\ issued' = issued + 1
           /\ issued + 1 \in accepted'
  <2>1. token = None \/ (token = issued + 1 /\ token # None)
    BY <1>1
  <2> QED
    BY <1>1, <1>2, <2>1 DEF Exists
<1>4. RowTokens'
  <2>1. \A b \in Accounts : Exists(b) => row[b].refresh \in 0 .. issued /\ row[b].refresh # issued + 1
    BY <1>1 DEF TokenInv, RowTokens
  <2>2. \A b \in Accounts : Exists(b)' => row'[b].refresh \in 0 .. issued'
    BY <1>1, <1>3, <2>1
  <2>3. ASSUME rotates, NEW b \in Accounts, NEW c \in Accounts, b # c, Exists(b)', Exists(c)'
        PROVE  row'[b].refresh # row'[c].refresh \/ row'[b].refresh = None
    BY <1>1, <1>3, <2>1, <2>3 DEF TokenInv, RowTokens
  <2> QED
    BY <1>1, <2>2, <2>3 DEF RowTokens
<1>5. UsedTokens'
  BY <1>1 DEF UsedTokens, TokenInv, At, Own
<1>6. BrokerTokens'
  <2>1. SUFFICES ASSUME rotates, NEW t \in Threads, NEW b \in Accounts, At(t, "broker")', Exists(b)',
                        row'[b].refresh = thread'[t].used
                 PROVE  Own(t)' = b
    BY <1>1 DEF BrokerTokens
  <2>2. thread'[t] = thread[t] /\ At(t, "broker") /\ thread[t].used \in 1 .. issued
    BY <2>1 DEF TokenInv, UsedTokens, At
  <2>3. Exists(b) /\ row[b].refresh = thread[t].used
    BY <1>1, <1>3, <2>1, <2>2
  <2> QED
    BY <2>1, <2>2, <2>3 DEF TokenInv, BrokerTokens, Own
<1>7. GotTokens'
  <2>1. SUFFICES ASSUME NEW t \in Threads, At(t, "store")'
                 PROVE  IF rotates THEN Unshared(t)' ELSE thread'[t].got = None /\ thread'[t].used \in accepted'
    BY <1>1 DEF GotTokens
  <2>2. thread'[t] = thread[t] /\ At(t, "store")
    BY <2>1 DEF At
  <2>3. CASE rotates
    <3>1. Unshared(t) /\ thread[t].got \in 1 .. issued
      BY <1>1, <2>2, <2>3 DEF TokenInv, GotTokens, Unshared
    <3>2. \A b \in Accounts : Exists(b)' => row'[b].refresh # thread[t].got
      BY <1>1, <1>3, <3>1 DEF Unshared
    <3> QED
      BY <1>1, <2>2, <2>3, <3>1, <3>2 DEF Unshared, At
  <2>4. CASE ~rotates
    BY <1>1, <2>2, <2>4 DEF TokenInv, GotTokens
  <2> QED
    BY <2>3, <2>4
<1>8. RefreshTokenUsable'
  BY <1>1, <1>3 DEF TokenInv, RefreshTokenUsable, At, Own, Threads
<1> QED
  BY <1>4, <1>5, <1>6, <1>7, <1>8 DEF TokenInv

-----------------------------------------------------------------------------
(* The audit record follows from the local state of the request alone.     *)
Told(local) ==
  LET n == Len(local.calls) IN
    /\ n <= local.limit + 1
    /\ \A i \in 1 .. n : i < n => local.calls[i] = "listed"
    /\ local.retries = IF n = 0 THEN 0 ELSE n - 1
    /\ local.attempts = IF n > 1 THEN local.calls ELSE <<>>
Cause(local) ==
  local.refused \/ (local.calls # <<>> /\ local.calls[Len(local.calls)] = "auth")
AuditOK(local) ==
  /\ local.pc \in {"refresh", "broker", "store"} =>
       local.calls = <<>> /\ local.attempts = <<>> /\ local.retries = 0
  /\ local.pc = "call" =>
       /\ Len(local.calls) = local.retries /\ local.retries <= local.limit
       /\ local.attempts = local.calls
       /\ \A i \in 1 .. Len(local.calls) : local.calls[i] = "listed"
  /\ local.pc \in {"disable", "forward", "record"} => Told(local)
  /\ local.pc = "disable" => Cause(local)
AuditInv == \A q \in Requests : thread[q] = Idle \/ AuditOK(thread[q])

(* Before the first call there is nothing to tell. *)
LEMMA NothingToTell ==
  ASSUME NEW local \in RequestLocal, local.calls = <<>>, local.attempts = <<>>, local.retries = 0,
         local.pc = "disable" => local.refused
  PROVE  AuditOK(local)
<1>1. Len(local.calls) = 0 /\ local.limit \in Nat
  BY RetryConstants DEF RequestLocal
<1> QED
  BY <1>1 DEF AuditOK, Told, Cause, RequestLocal

(* Refresh touches nothing of the audit. *)
LEMMA RefreshAudit ==
  ASSUME TypeInv, AuditInv, NEW t \in Threads, thread[t].pc \in {"refresh", "broker", "store"},
         NEW pc, NEW used, NEW got, NEW refused,
         Moves(t, pc, used, got, refused), pc = "disable" => refused
  PROVE  AuditInv'
<1>1. /\ \A u \in Threads \ {t} : thread'[u] = thread[u]
      /\ thread'[t] \in LocalOf(t) /\ thread'[t].pc = pc /\ thread'[t].refused = refused
      /\ t \in Requests => /\ thread'[t].retries = thread[t].retries
                           /\ thread'[t].attempts = thread[t].attempts
                           /\ thread'[t].calls = thread[t].calls
  BY DEF Moves
<1>2. ASSUME t \in Requests PROVE AuditOK(thread'[t])
  <2>1. AuditOK(thread[t])
    BY <1>2 DEF AuditInv, Idle
  <2>2. thread[t].calls = <<>> /\ thread[t].attempts = <<>> /\ thread[t].retries = 0
    BY <2>1 DEF AuditOK
  <2> QED
    BY <1>1, <1>2, <2>2, NothingToTell DEF LocalOf
<1> QED
  BY <1>1, <1>2 DEF AuditInv, Threads

-----------------------------------------------------------------------------
(* Each step preserves the three parts.                                    *)
Inv == TypeInv /\ TokenInv /\ AuditInv

(* A step of a thread, not at the Store, that leaves the tokens alone. *)
LEMMA Leaves ==
  ASSUME Inv, NEW t \in Threads, UNCHANGED broker, RowsOK', failures' \in 0 .. MaxFailures,
         \A a \in Accounts : Exists(a)' => Exists(a) /\ row'[a].refresh = row[a].refresh,
         thread[t].pc # "store", thread'[t].pc \notin {"broker", "store"}, ThreadsOK',
         \A u \in Threads \ {t} : thread'[u] = thread[u]
  PROVE  TypeInv' /\ TokenInv'
<1>1. TypeInv'
  BY DEF Inv, TypeInv, BrokerOK, broker
<1>2. \A u \in Threads : \/ thread'[u] = thread[u]
                         \/ thread[u].pc # "store" /\ thread'[u].pc \notin {"broker", "store"}
  OBVIOUS
<1>3. TokenInv'
  BY <1>2, Quiet DEF Inv
<1> QED
  BY <1>1, <1>3

LEMMA OnlyMoves ==
  ASSUME Inv, NEW t \in Threads, UNCHANGED <<row, broker>>, failures' \in 0 .. MaxFailures,
         thread[t].pc # "store", NEW pc, NEW used, NEW got, NEW refused,
         Moves(t, pc, used, got, refused), pc \notin {"broker", "store"}
  PROVE  TypeInv' /\ TokenInv'
<1>1. /\ ThreadsOK' /\ thread'[t].pc \notin {"broker", "store"}
      /\ \A u \in Threads \ {t} : thread'[u] = thread[u]
  BY DEF Moves
<1>2. RowsOK' /\ \A a \in Accounts : Exists(a)' => Exists(a) /\ row'[a].refresh = row[a].refresh
  BY DEF Inv, TypeInv, RowsOK, Exists
<1> QED
  BY <1>1, <1>2, Leaves

(* A step that changes rows only. *)
LEMMA OnlyRows ==
  ASSUME Inv, UNCHANGED <<broker, thread, failures>>, RowsOK',
         \A a \in Accounts : Exists(a)' => Exists(a) /\ row'[a].refresh = row[a].refresh
  PROVE  Inv'
<1>1. TypeInv'
  BY DEF Inv, TypeInv, ThreadsOK, BrokerOK, broker
<1>2. TokenInv'
  BY Quiet DEF Inv
<1>3. AuditInv'
  BY DEF Inv, AuditInv
<1> QED
  BY <1>1, <1>2, <1>3 DEF Inv

LEMMA PointsFacts ==
  ASSUME NEW t \in Threads
  PROVE  /\ Using(t) \notin {"broker", "store", "disable"}
         /\ \A refused \in BOOLEAN :
              /\ FailPoint(t, refused) \notin {"broker", "store"}
              /\ FailPoint(t, refused) = "disable" => refused
BY DEF Using, FailPoint

LEMMA ReadTokenStep ==
  ASSUME Inv, NEW t \in Threads, ReadToken(t)
  PROVE  Inv'
<1>1. /\ At(t, "refresh") /\ thread[t].pc = "refresh" /\ UNCHANGED <<row, broker>> /\ failures' = failures
      /\ ThreadsOK /\ TypeInv /\ TokenInv /\ AuditInv
  BY DEF ReadToken, Inv, TypeInv, At
<1>2. failures' \in 0 .. MaxFailures /\ thread[t].refused \in BOOLEAN /\ Own(t) \in Accounts
      /\ thread[t].got \in 0 .. MaxTokens
  BY <1>1, Busy, Fields DEF TypeInv, BrokerOK, Own
<1>3. ASSUME NEW refused \in BOOLEAN, Go(t, Fails(t, refused))
      PROVE  Inv'
  <2>1. Moves(t, FailPoint(t, refused), None, None, refused)
    BY <1>1, <1>3, FailsMoves
  <2>2. TypeInv' /\ TokenInv'
    BY <1>1, <1>2, <2>1, OnlyMoves, PointsFacts
  <2>3. AuditInv'
    BY <1>1, <2>1, RefreshAudit, PointsFacts
  <2> QED
    BY <2>2, <2>3 DEF Inv
<1>4. ASSUME Proceed(t)
      PROVE  Inv'
  <2>1. Moves(t, Using(t), None, None, thread[t].refused)
    BY <1>1, <1>4, ProceedMoves
  <2>2. TypeInv' /\ TokenInv'
    BY <1>1, <1>2, <2>1, OnlyMoves, PointsFacts
  <2>3. AuditInv'
    BY <1>1, <2>1, RefreshAudit, PointsFacts
  <2> QED
    BY <2>2, <2>3 DEF Inv
<1>5. ASSUME Exists(Own(t)), row[Own(t)].refresh # None,
             Go(t, [thread[t] EXCEPT !.pc = "broker", !.used = row[Own(t)].refresh])
      PROVE  Inv'
  <2>1. row[Own(t)].refresh \in 0 .. MaxTokens
    BY <1>1, <1>2, <1>5 DEF TypeInv, RowsOK, Row, Exists
  <2>2. Moves(t, "broker", row[Own(t)].refresh, thread[t].got, thread[t].refused)
    BY <1>1, <1>5, <2>1, UsedMoves
  <2>3. TypeInv'
    BY <1>1, <2>2 DEF TypeInv, Moves, RowsOK, BrokerOK, broker
  <2>4. TokenInv'
    BY <1>1, <1>2, <1>5, <2>2, ReadsToken
  <2>5. AuditInv'
    BY <1>1, <2>2, RefreshAudit
  <2> QED
    BY <2>3, <2>4, <2>5 DEF Inv
<1> QED
  BY <1>3, <1>4, <1>5 DEF ReadToken

LEMMA GrantedStep ==
  ASSUME Inv, NEW t \in Threads, Granted(t)
  PROVE  Inv'
<1>1. /\ At(t, "broker") /\ thread[t].pc = "broker" /\ thread[t].used \in accepted
      /\ UNCHANGED <<row, rotates>> /\ lost' = lost /\ failures' = failures
      /\ ThreadsOK /\ TypeInv /\ TokenInv /\ AuditInv
  BY DEF Granted, Inv, TypeInv, At
<1>2. /\ MaxTokens \in Nat /\ None \in 0 .. MaxTokens /\ issued \in 0 .. MaxTokens
      /\ accepted \subseteq 1 .. issued /\ lost \subseteq 1 .. issued
  BY <1>1, AccountConstants DEF TypeInv, BrokerOK, None
<1>3. ASSUME Exchange(t), Go(t, [thread[t] EXCEPT !.pc = "store", !.got = issued + 1])
      PROVE  Inv'
  <2>1. issued + 1 \in 0 .. MaxTokens
    BY <1>2, <1>3 DEF Exchange
  <2>2. Moves(t, "store", thread[t].used, issued + 1, thread[t].refused)
    BY <1>1, <1>3, <2>1, GotMoves
  <2>3. TokenInv'
    BY <1>1, <1>3, <2>2, Exchanges
  <2>4. TypeInv'
    BY <1>1, <1>2, <1>3, <2>2 DEF TypeInv, Moves, RowsOK, BrokerOK, Exchange
  <2>5. AuditInv'
    BY <1>1, <2>2, RefreshAudit
  <2> QED
    BY <2>3, <2>4, <2>5 DEF Inv
<1>4. ASSUME ~rotates, Go(t, [thread[t] EXCEPT !.pc = "store", !.got = None]),
             UNCHANGED <<issued, accepted>>
      PROVE  Inv'
  <2>1. UNCHANGED <<row, broker>>
    BY <1>1, <1>4 DEF broker
  <2>2. Moves(t, "store", thread[t].used, None, thread[t].refused)
    BY <1>1, <1>2, <1>4, GotMoves
  <2>3. TokenInv'
    BY <1>1, <1>4, <2>1, <2>2, Keeps
  <2>4. TypeInv'
    BY <1>1, <2>1, <2>2 DEF TypeInv, Moves, RowsOK, BrokerOK, broker
  <2>5. AuditInv'
    BY <1>1, <2>2, RefreshAudit
  <2> QED
    BY <2>3, <2>4, <2>5 DEF Inv
<1> QED
  BY <1>3, <1>4 DEF Granted

LEMMA NotGrantedStep ==
  ASSUME Inv, NEW t \in Threads, NotGranted(t)
  PROVE  Inv'
<1>1. /\ thread[t].pc = "broker" /\ UNCHANGED <<row, broker>> /\ failures' = failures
      /\ failures' \in 0 .. MaxFailures /\ ThreadsOK /\ TypeInv /\ AuditInv
  BY DEF NotGranted, Inv, TypeInv, BrokerOK, At
<1>2. PICK refused \in BOOLEAN : Go(t, Fails(t, refused))
  BY DEF NotGranted
<1>3. Moves(t, FailPoint(t, refused), None, None, refused)
  BY <1>1, <1>2, FailsMoves
<1>4. TypeInv' /\ TokenInv'
  BY <1>1, <1>3, OnlyMoves, PointsFacts
<1>5. AuditInv'
  BY <1>1, <1>3, RefreshAudit, PointsFacts
<1> QED
  BY <1>4, <1>5 DEF Inv

LEMMA LoseAnswerStep ==
  ASSUME Inv, NEW t \in Threads, LoseAnswer(t)
  PROVE  Inv'
<1>1. /\ At(t, "broker") /\ thread[t].pc = "broker" /\ thread[t].used \in accepted
      /\ Exchange(t) /\ lost' = lost \cup {thread[t].used}
      /\ UNCHANGED <<row, rotates>> /\ failures' = failures
      /\ ThreadsOK /\ TypeInv /\ TokenInv /\ AuditInv
  BY DEF LoseAnswer, Inv, TypeInv, At
<1>2. /\ MaxTokens \in Nat /\ issued \in 0 .. MaxTokens
      /\ accepted \subseteq 1 .. issued /\ lost \subseteq 1 .. issued
  BY <1>1, AccountConstants DEF TypeInv, BrokerOK
<1>3. Moves(t, FailPoint(t, FALSE), None, None, FALSE)
  BY <1>1, FailsMoves DEF LoseAnswer
<1>4. FailPoint(t, FALSE) \notin {"broker", "store", "disable"}
  BY PointsFacts
<1>5. TokenInv'
  BY <1>1, <1>3, <1>4, Exchanges
<1>6. TypeInv'
  <2>1. accepted' \subseteq 1 .. issued' /\ lost' \subseteq 1 .. issued' /\ issued' \in 0 .. MaxTokens
    <3>1. \A x \in 1 .. issued : x \in 1 .. (issued + 1)
      BY <1>2
    <3>2. issued + 1 \in 1 .. (issued + 1) /\ issued' = issued + 1 /\ issued' \in 0 .. MaxTokens
      BY <1>1, <1>2 DEF Exchange
    <3>3. \A x \in lost' : x \in 1 .. issued
      BY <1>1, <1>2
    <3>4. \A x \in accepted' : x \in 1 .. issued \/ x = issued + 1
      BY <1>1, <1>2 DEF Exchange
    <3> QED
      BY <3>1, <3>2, <3>3, <3>4
  <2> QED
    BY <1>1, <1>3, <2>1 DEF TypeInv, Moves, RowsOK, BrokerOK
<1>7. AuditInv'
  BY <1>1, <1>3, <1>4, RefreshAudit
<1> QED
  BY <1>5, <1>6, <1>7 DEF Inv

LEMMA SavesOK ==
  ASSUME TypeInv, NEW ok \in BOOLEAN, Saves(ok)
  PROVE  failures' \in 0 .. MaxFailures
BY AccountConstants DEF Saves, TypeInv, BrokerOK

LEMMA StoreTokenStep ==
  ASSUME Inv, NEW t \in Threads, StoreToken(t)
  PROVE  Inv'
<1>1. /\ At(t, "store") /\ thread[t].pc = "store" /\ UNCHANGED broker
      /\ ThreadsOK /\ TypeInv /\ TokenInv /\ AuditInv
  BY DEF StoreToken, Inv, TypeInv, At
<1>2. /\ Own(t) \in Accounts /\ thread[t].refused \in BOOLEAN
      /\ thread[t].used \in 0 .. MaxTokens /\ thread[t].got \in 0 .. MaxTokens
  BY <1>1, Busy, Fields DEF Own
<1>3. \/ Exists(Own(t)) /\ Set(Own(t), [row[Own(t)] EXCEPT !.refresh = Kept(t), !.expiring = FALSE])
      \/ ~Exists(Own(t)) /\ row' = row
  BY DEF StoreToken
<1>4. RowsOK'
  <2>1. Kept(t) \in 0 .. MaxTokens
    BY <1>2 DEF Kept
  <2>2. Exists(Own(t)) => [row[Own(t)] EXCEPT !.refresh = Kept(t), !.expiring = FALSE] \in Row
    BY <1>1, <1>2, <2>1 DEF TypeInv, RowsOK, Row, Exists
  <2> QED
    BY <1>1, <1>2, <1>3, <2>2 DEF TypeInv, RowsOK, Set
<1>5. failures' \in 0 .. MaxFailures
  BY <1>1, SavesOK DEF StoreToken, TypeInv, BrokerOK
<1>6. ASSUME NEW pc, pc \notin {"broker", "store", "disable"}, NEW refused,
             Moves(t, pc, None, None, refused)
      PROVE  Inv'
  <2>1. TokenInv'
    BY <1>1, <1>3, <1>6, Stores
  <2>2. TypeInv'
    BY <1>1, <1>4, <1>5, <1>6 DEF TypeInv, Moves, BrokerOK, broker
  <2>3. AuditInv'
    BY <1>1, <1>6, RefreshAudit
  <2> QED
    BY <2>1, <2>2, <2>3 DEF Inv
<1>7. ASSUME Proceed(t)
      PROVE  Inv'
  BY <1>1, <1>6, <1>7, ProceedMoves, PointsFacts
<1>8. ASSUME Go(t, Fails(t, FALSE))
      PROVE  Inv'
  BY <1>1, <1>6, <1>8, FailsMoves, PointsFacts
<1> QED
  BY <1>7, <1>8 DEF StoreToken

LEMMA RefreshStepOK ==
  ASSUME Inv, NEW t \in Threads, RefreshStep(t)
  PROVE  Inv'
BY ReadTokenStep, GrantedStep, NotGrantedStep, LoseAnswerStep, StoreTokenStep DEF RefreshStep

-----------------------------------------------------------------------------
(* Setting some fields of a row keeps its refresh token. *)
LEMMA SetsRow ==
  ASSUME RowsOK, NEW a \in Accounts, NEW r \in Row, Set(a, r), Exists(a),
         r.refresh = row[a].refresh
  PROVE  /\ RowsOK'
         /\ \A b \in Accounts : Exists(b)' => Exists(b) /\ row'[b].refresh = row[b].refresh
BY DEF RowsOK, Set, Exists

LEMMA DropsRow ==
  ASSUME RowsOK, NEW a \in Accounts, Set(a, Deleted)
  PROVE  /\ RowsOK'
         /\ \A b \in Accounts : Exists(b)' => Exists(b) /\ row'[b].refresh = row[b].refresh
BY DEF RowsOK, Set, Exists

LEMMA AdminStepOK ==
  ASSUME Inv, NEW a \in Accounts,
         Expire(a) \/ (\E enabled \in BOOLEAN : HandleAccountUpdate(a, enabled)) \/ HandleAccountDelete(a)
  PROVE  Inv'
<1>1. RowsOK
  BY DEF Inv, TypeInv
<1>2. Exists(a) => row[a] \in Row
  BY <1>1 DEF RowsOK, Exists
<1>3. CASE Expire(a)
  <2>1. [row[a] EXCEPT !.expiring = TRUE] \in Row
        /\ [row[a] EXCEPT !.expiring = TRUE].refresh = row[a].refresh
    BY <1>2, <1>3 DEF Expire, Row
  <2> QED
    BY <1>1, <1>3, <2>1, SetsRow, OnlyRows DEF Expire
<1>4. CASE \E enabled \in BOOLEAN : HandleAccountUpdate(a, enabled)
  <2>1. PICK enabled \in BOOLEAN : HandleAccountUpdate(a, enabled)
    BY <1>4
  <2>2. PICK status \in {"active", "paused", "error", "syncing"} :
          Set(a, [row[a] EXCEPT !.enabled = enabled, !.status = status])
    <3>1. row[a].status \in {"active", "paused", "error", "syncing"}
      BY <1>2, <2>1 DEF HandleAccountUpdate, Row
    <3> DEFINE s == IF ~enabled THEN "paused"
                    ELSE IF row[a].status = "paused" THEN "active" ELSE row[a].status
    <3>2. Set(a, [row[a] EXCEPT !.enabled = enabled, !.status = s])
      BY <2>1 DEF HandleAccountUpdate
    <3>3. s \in {"active", "paused", "error", "syncing"}
      BY <3>1
    <3> QED
      BY <3>2, <3>3
  <2>3. /\ [row[a] EXCEPT !.enabled = enabled, !.status = status] \in Row
        /\ [row[a] EXCEPT !.enabled = enabled, !.status = status].refresh = row[a].refresh
    BY <1>2, <2>1 DEF HandleAccountUpdate, Row
  <2> QED
    BY <1>1, <2>1, <2>2, <2>3, SetsRow, OnlyRows DEF HandleAccountUpdate
<1>5. CASE HandleAccountDelete(a)
  BY <1>1, <1>5, DropsRow, OnlyRows DEF HandleAccountDelete
<1> QED
  BY <1>3, <1>4, <1>5

LEMMA DeleteErrorsOK ==
  ASSUME Inv, DeleteErrorAccounts
  PROVE  Inv'
<1>1. RowsOK' /\ \A b \in Accounts : Exists(b)' => Exists(b) /\ row'[b].refresh = row[b].refresh
  BY DEF Inv, TypeInv, RowsOK, DeleteErrorAccounts, Exists
<1> QED
  BY <1>1, OnlyRows DEF DeleteErrorAccounts

-----------------------------------------------------------------------------
(* Synchronisations, imports and logins. *)
LEMMA SyncersAreNotRequests ==
  ASSUME NEW t \in Syncs \cup Refreshers
  PROVE  t \in Threads /\ t \notin Requests /\ LocalOf(t) = SyncLocal
BY AccountConstants DEF Threads, LocalOf

LEMMA OthersAudit ==
  ASSUME Inv, NEW t \in Threads, t \notin Requests, \A u \in Threads \ {t} : thread'[u] = thread[u]
  PROVE  AuditInv'
BY DEF Inv, AuditInv, Threads

LEMMA StartedOK ==
  ASSUME NEW a \in Accounts
  PROVE  Started(a) \in SyncLocal /\ Started(a).pc = "refresh"
BY AccountConstants DEF Started, SyncLocal, None

LEMMA SyncStepOK ==
  ASSUME Inv, NEW t \in Syncs \cup Refreshers, NEW a \in Accounts, Sync(t, a)
  PROVE  Inv'
<1>1. t \in Threads /\ t \notin Requests /\ LocalOf(t) = SyncLocal
  BY SyncersAreNotRequests
<1>2. Started(a) \in LocalOf(t) /\ Go(t, Started(a)) /\ thread[t].pc = "idle"
  BY <1>1, StartedOK DEF Sync, At
<1>3. ThreadsOK' /\ thread'[t].pc = "refresh" /\ \A u \in Threads \ {t} : thread'[u] = thread[u]
  BY <1>1, <1>2, GoOK, StartedOK DEF Inv, TypeInv
<1>4. /\ UNCHANGED broker /\ RowsOK' /\ failures' \in 0 .. MaxFailures
      /\ \A b \in Accounts : Exists(b)' => Exists(b) /\ row'[b].refresh = row[b].refresh
  BY DEF Sync, Inv, TypeInv, RowsOK, BrokerOK, Exists
<1>5. TypeInv' /\ TokenInv'
  BY <1>1, <1>2, <1>3, <1>4, Leaves
<1> QED
  BY <1>1, <1>3, <1>5, OthersAudit DEF Inv

LEMMA ConnectOK ==
  ASSUME Inv, NEW t \in Syncs, NEW kind \in {"import", "login"}, NEW a \in Accounts,
         Connect(t, kind, a)
  PROVE  Inv'
<1>1. t \in Threads /\ t \notin Requests /\ LocalOf(t) = SyncLocal
  BY SyncersAreNotRequests
<1>2. PICK token \in {None, issued + 1}, enabled \in BOOLEAN, expiring \in BOOLEAN, ok \in BOOLEAN :
        /\ issued' = IF token = None THEN issued ELSE token
        /\ accepted' = accepted \cup ({token} \ {None})
        /\ Set(a, NewRow(kind, a, token, enabled, expiring))
        /\ Saves(ok)
        /\ \/ Go(t, Started(a))
           \/ Go(t, [Started(a) EXCEPT !.pc = "failed"])
           \/ UNCHANGED thread
  BY DEF Connect
<1>3. /\ thread[t].pc = "idle" /\ issued < MaxTokens /\ UNCHANGED <<rotates, lost>>
      /\ TypeInv /\ TokenInv /\ ThreadsOK
  BY DEF Connect, At, Inv, TypeInv
<1>4. /\ ThreadsOK' /\ thread'[t].pc \in {"idle", "refresh", "failed"}
      /\ \A u \in Threads \ {t} : thread'[u] = thread[u]
  <2>1. CASE Go(t, Started(a))
    BY <1>1, <1>3, <2>1, GoOK, StartedOK
  <2>2. CASE Go(t, [Started(a) EXCEPT !.pc = "failed"])
    <3>1. /\ [Started(a) EXCEPT !.pc = "failed"] \in LocalOf(t)
          /\ [Started(a) EXCEPT !.pc = "failed"].pc = "failed"
      BY <1>1, StartedOK DEF SyncLocal
    <3>2. PICK local : local = [Started(a) EXCEPT !.pc = "failed"]
      OBVIOUS
    <3> QED
      BY <1>1, <1>3, <2>2, <3>1, <3>2, GoOK
  <2>3. CASE UNCHANGED thread
    BY <1>3, <2>3 DEF ThreadsOK
  <2> QED
    BY <1>2, <2>1, <2>2, <2>3
<1>5. /\ issued \in Nat /\ issued + 1 \in 0 .. MaxTokens /\ None = 0 /\ MaxTokens \in Nat
      /\ accepted \subseteq 1 .. issued /\ lost \subseteq 1 .. issued
  BY <1>3, AccountConstants DEF TypeInv, BrokerOK, None
<1>6. PICK r : r = NewRow(kind, a, token, enabled, expiring)
  OBVIOUS
<1>7. /\ r \in Row
      /\ r.refresh = token \/ r.refresh = None \/ (Exists(a) /\ r.refresh = row[a].refresh)
  <2>1. Exists(a) => row[a].refresh \in 0 .. MaxTokens
    BY <1>3 DEF TypeInv, RowsOK, Exists, Row
  <2>2. PICK refresh : /\ refresh = IF token = None /\ kind = "import" /\ Exists(a)
                                    THEN row[a].refresh ELSE token
                       /\ r = [enabled |-> enabled, status |-> "syncing", expiring |-> expiring,
                               refresh |-> refresh]
    BY <1>6 DEF NewRow
  <2>3. refresh \in 0 .. MaxTokens
    BY <1>5, <2>1, <2>2
  <2> QED
    BY <2>2, <2>3 DEF Row
<1>8. RowsOK' /\ row' = [row EXCEPT ![a] = r]
  BY <1>2, <1>3, <1>6, <1>7 DEF TypeInv, RowsOK, Set
<1>9. BrokerOK'
  <2>1. failures' \in 0 .. MaxFailures
    BY <1>2, <1>3, SavesOK
  <2>2. issued' \in 0 .. MaxTokens /\ \A x \in 1 .. issued : x \in 1 .. issued'
    BY <1>2, <1>3, <1>5 DEF TypeInv, BrokerOK
  <2>3. accepted' \subseteq 1 .. issued'
    BY <1>2, <1>5, <2>2
  <2> QED
    BY <1>3, <1>5, <2>1, <2>2, <2>3 DEF TypeInv, BrokerOK
<1>10. TokenInv'
  <2>1. \A u \in Threads : At(u, "store")' \/ At(u, "broker")' \/ At(u, "store") =>
                             thread'[u] = thread[u]
    BY <1>3, <1>4 DEF At
  <2> QED
    BY <1>2, <1>3, <1>7, <1>8, <2>1, Connects
<1> QED
  BY <1>1, <1>4, <1>8, <1>9, <1>10, OthersAudit DEF Inv, TypeInv

(* Marking a row, as Sync, its failure and a request do. *)
LEMMA MarksRow ==
  ASSUME TypeInv, NEW a \in Accounts, Exists(a),
         NEW status \in {"active", "paused", "error", "syncing"},
         \/ Set(a, [row[a] EXCEPT !.status = status])
         \/ Set(a, [row[a] EXCEPT !.enabled = FALSE, !.status = status])
  PROVE  /\ RowsOK'
         /\ \A b \in Accounts : Exists(b)' => Exists(b) /\ row'[b].refresh = row[b].refresh
<1>1. row[a] \in Row
  BY DEF TypeInv, RowsOK, Exists
<1>2. /\ [row[a] EXCEPT !.status = status] \in Row
      /\ [row[a] EXCEPT !.status = status].refresh = row[a].refresh
  BY <1>1 DEF Row
<1>3. /\ [row[a] EXCEPT !.enabled = FALSE, !.status = status] \in Row
      /\ [row[a] EXCEPT !.enabled = FALSE, !.status = status].refresh = row[a].refresh
  BY <1>1 DEF Row
<1> QED
  BY <1>2, <1>3, SetsRow DEF TypeInv

LEMMA SameRows ==
  ASSUME TypeInv, UNCHANGED row
  PROVE  /\ RowsOK'
         /\ \A b \in Accounts : Exists(b)' => Exists(b) /\ row'[b].refresh = row[b].refresh
BY DEF TypeInv, RowsOK, Exists

LEMMA IdleOK ==
  ASSUME ThreadsOK, NEW t \in Threads, Go(t, Idle)
  PROVE  /\ ThreadsOK' /\ thread'[t] = Idle /\ thread'[t].pc = "idle"
         /\ \A u \in Threads \ {t} : thread'[u] = thread[u]
BY GoOK DEF Idle

LEMMA FetchOK ==
  ASSUME Inv, NEW t \in Syncs \cup Refreshers, Fetch(t) \/ FetchFails(t)
  PROVE  Inv'
<1>1. t \in Threads /\ t \notin Requests /\ LocalOf(t) = SyncLocal
  BY SyncersAreNotRequests
<1>2. /\ thread[t].pc = "fetch" /\ UNCHANGED broker /\ TypeInv /\ ThreadsOK
      /\ "failed" \in Points(t)
  BY <1>1 DEF Fetch, FetchFails, At, Inv, TypeInv, Points
<1>3. Own(t) \in Accounts
  BY <1>1, <1>2, Busy, Fields DEF Own
<1>4. failures' \in 0 .. MaxFailures
  BY <1>2, SavesOK DEF Fetch, FetchFails, TypeInv, BrokerOK
<1>5. RowsOK' /\ \A b \in Accounts : Exists(b)' => Exists(b) /\ row'[b].refresh = row[b].refresh
  BY <1>2, <1>3, MarksRow, SameRows DEF Fetch, FetchFails
<1>6. Go(t, Idle) \/ Go(t, [thread[t] EXCEPT !.pc = "failed"])
  BY DEF Fetch, FetchFails
<1>7. /\ ThreadsOK' /\ thread'[t].pc \notin {"broker", "store"}
      /\ \A u \in Threads \ {t} : thread'[u] = thread[u]
  <2>1. CASE Go(t, Idle)
    BY <1>1, <1>2, <2>1, IdleOK
  <2>2. CASE Go(t, [thread[t] EXCEPT !.pc = "failed"])
    <3>1. Moves(t, "failed", thread[t].used, thread[t].got, thread[t].refused)
      BY <1>1, <1>2, <2>2, PcMoves
    <3> QED
      BY <3>1 DEF Moves
  <2> QED
    BY <1>6, <2>1, <2>2
<1>8. TypeInv' /\ TokenInv'
  BY <1>1, <1>2, <1>4, <1>5, <1>7, Leaves
<1> QED
  BY <1>1, <1>7, <1>8, OthersAudit DEF Inv

LEMMA SyncFailedOK ==
  ASSUME Inv, NEW t \in Syncs \cup Refreshers, SyncFailed(t)
  PROVE  Inv'
<1>1. t \in Threads /\ t \notin Requests
  BY SyncersAreNotRequests
<1>2. /\ thread[t].pc = "failed" /\ UNCHANGED broker /\ TypeInv /\ ThreadsOK
      /\ failures' \in 0 .. MaxFailures
  BY DEF SyncFailed, At, Inv, TypeInv, BrokerOK
<1>3. Own(t) \in Accounts
  BY <1>1, <1>2, Busy, Fields DEF Own
<1>4. RowsOK' /\ \A b \in Accounts : Exists(b)' => Exists(b) /\ row'[b].refresh = row[b].refresh
  BY <1>2, <1>3, MarksRow, SameRows DEF SyncFailed
<1>5. /\ ThreadsOK' /\ thread'[t].pc \notin {"broker", "store"}
      /\ \A u \in Threads \ {t} : thread'[u] = thread[u]
  BY <1>1, <1>2, IdleOK DEF SyncFailed
<1>6. TypeInv' /\ TokenInv'
  BY <1>1, <1>2, <1>4, <1>5, Leaves
<1> QED
  BY <1>1, <1>5, <1>6, OthersAudit DEF Inv

-----------------------------------------------------------------------------
(* Requests. *)
(* A step of a request that leaves rows and tokens alone, given its new local state. *)
LEMMA RequestGoes ==
  ASSUME Inv, NEW q \in Requests, UNCHANGED broker, RowsOK', failures' \in 0 .. MaxFailures,
         \A a \in Accounts : Exists(a)' => Exists(a) /\ row'[a].refresh = row[a].refresh,
         thread[q].pc # "store", NEW local \in RequestLocal \cup {Idle}, Go(q, local),
         local.pc \notin {"broker", "store"}, local = Idle \/ AuditOK(local)
  PROVE  Inv'
<1>1. q \in Threads /\ LocalOf(q) = RequestLocal /\ ThreadsOK
  BY DEF Threads, LocalOf, Inv, TypeInv
<1>2. ThreadsOK' /\ thread'[q] = local /\ \A u \in Threads \ {q} : thread'[u] = thread[u]
  BY <1>1, GoOK
<1>3. TypeInv' /\ TokenInv'
  BY <1>1, <1>2, Leaves
<1>4. AuditInv'
  BY <1>2 DEF Inv, AuditInv, Threads
<1> QED
  BY <1>3, <1>4 DEF Inv

LEMMA ArriveOK ==
  ASSUME Inv, NEW q \in Requests, Arrive(q)
  PROVE  Inv'
<1>1. /\ thread[q].pc = "idle" /\ UNCHANGED <<row, broker>> /\ TypeInv
      /\ failures' \in 0 .. MaxFailures
  BY DEF Arrive, At, Inv, TypeInv, BrokerOK
<1>2. PICK a \in Accounts, limit \in 0 .. MaxRetries :
        Go(q, [pc |-> "refresh", account |-> a, used |-> None, got |-> None, refused |-> FALSE,
               limit |-> limit, retries |-> 0, attempts |-> <<>>, calls |-> <<>>])
  BY DEF Arrive
<1>3. None \in 0 .. MaxTokens /\ <<>> \in Seq(Outcomes)
  BY AccountConstants DEF None
<1>4. PICK local :
        /\ local = [pc |-> "refresh", account |-> a, used |-> None, got |-> None, refused |-> FALSE,
                    limit |-> limit, retries |-> 0, attempts |-> <<>>, calls |-> <<>>]
        /\ Go(q, local)
  BY <1>2
<1>5. /\ local \in RequestLocal /\ local.pc = "refresh" /\ local.calls = <<>>
      /\ local.attempts = <<>> /\ local.retries = 0
  BY <1>2, <1>4, <1>3 DEF RequestLocal
<1>6. AuditOK(local)
  BY <1>5, NothingToTell
<1> QED
  BY <1>1, <1>5, <1>6, <1>4, RequestGoes, SameRows

(* A request that gives up before its first call *)
LEMMA RefuseOK ==
  ASSUME Inv, NEW q \in Requests, Refuse(q)
  PROVE  Inv'
<1>1. /\ thread[q].pc = "call" /\ UNCHANGED <<row, broker>> /\ TypeInv
      /\ failures' \in 0 .. MaxFailures /\ thread[q].calls = <<>> /\ ThreadsOK
  BY DEF Refuse, At, Inv, TypeInv, BrokerOK
<1>2. thread[q] \in RequestLocal
  BY <1>1, Busy DEF Threads, LocalOf
<1>3. thread[q].attempts = <<>> /\ thread[q].retries = 0
  <2>1. AuditOK(thread[q])
    BY <1>1 DEF Inv, AuditInv, Idle
  <2> QED
    BY <1>1, <2>1 DEF AuditOK
<1>4. PICK local : local = [thread[q] EXCEPT !.pc = "record"]
  OBVIOUS
<1>5. /\ local \in RequestLocal /\ local.pc = "record" /\ local.calls = <<>>
      /\ local.attempts = <<>> /\ local.retries = 0
  BY <1>1, <1>2, <1>3, <1>4 DEF RequestLocal
<1>6. AuditOK(local)
  BY <1>5, NothingToTell
<1>7. Go(q, local)
  BY <1>4 DEF Refuse
<1> QED
  BY <1>1, <1>5, <1>6, <1>7, RequestGoes, SameRows

LEMMA EndOK ==
  ASSUME Inv, NEW q \in Requests, Record(q) \/ Forward(q)
  PROVE  Inv'
<1>1. /\ thread[q].pc \in {"record", "forward"} /\ UNCHANGED <<row, broker>> /\ TypeInv
      /\ failures' \in 0 .. MaxFailures /\ Go(q, Idle) /\ Idle.pc = "idle"
  BY DEF Record, Forward, At, Inv, TypeInv, BrokerOK, Idle
<1> QED
  BY <1>1, RequestGoes, SameRows

LEMMA DisableOK ==
  ASSUME Inv, NEW q \in Requests, Disable(q)
  PROVE  Inv'
<1>1. /\ thread[q].pc = "disable" /\ UNCHANGED broker /\ TypeInv
      /\ failures' \in 0 .. MaxFailures /\ ThreadsOK
  BY DEF Disable, At, Inv, TypeInv, BrokerOK
<1>2. thread[q] \in RequestLocal /\ Own(q) \in Accounts
  BY <1>1, Busy DEF Threads, LocalOf, RequestLocal, Own
<1>3. RowsOK' /\ \A b \in Accounts : Exists(b)' => Exists(b) /\ row'[b].refresh = row[b].refresh
  BY <1>1, <1>2, MarksRow, SameRows DEF Disable
<1>4. PICK pc \in {"record", "forward"} :
        Go(q, [thread[q] EXCEPT !.refused = FALSE, !.pc = pc])
  BY DEF Disable
<1>5. PICK local : /\ local = [thread[q] EXCEPT !.refused = FALSE, !.pc = pc]
                   /\ Go(q, local)
  BY <1>4
<1>6. /\ local \in RequestLocal /\ local.pc = pc /\ local.calls = thread[q].calls
      /\ local.attempts = thread[q].attempts /\ local.retries = thread[q].retries
      /\ local.limit = thread[q].limit
  BY <1>2, <1>5 DEF RequestLocal
<1>7. Told(thread[q])
  BY <1>1 DEF Inv, AuditInv, AuditOK, Idle
<1>8. Told(local)
  BY <1>6, <1>7 DEF Told
<1>9. AuditOK(local)
  BY <1>6, <1>8 DEF AuditOK
<1> QED
  BY <1>1, <1>3, <1>5, <1>6, <1>9, RequestGoes

(* One more call.  Told holds of the last call, and the loop goes on after a listed status *)
(* only, with one retry more. *)
LEMMA CallOK ==
  ASSUME Inv, NEW q \in Requests, Call(q)
  PROVE  Inv'
<1> DEFINE old == thread[q]
<1>1. /\ old.pc = "call" /\ UNCHANGED <<row, broker>> /\ TypeInv /\ ThreadsOK
      /\ failures' \in 0 .. MaxFailures
  BY DEF Call, At, Inv, TypeInv, BrokerOK
<1>2. old \in RequestLocal
  BY <1>1, Busy DEF Threads, LocalOf
<1>3. /\ Len(old.calls) = old.retries /\ old.retries <= old.limit /\ old.attempts = old.calls
      /\ \A i \in 1 .. Len(old.calls) : old.calls[i] = "listed"
  BY <1>1 DEF Inv, AuditInv, AuditOK, Idle
<1>4. /\ old.calls \in Seq(Outcomes) /\ old.attempts \in Seq(Outcomes)
      /\ old.retries \in Nat /\ old.limit \in Nat
  BY <1>2, RetryConstants DEF RequestLocal
<1>5. PICK outcome, calls, attempts, called :
        /\ outcome \in Outcomes
        /\ calls = Append(old.calls, outcome)
        /\ attempts = Attempts(q, outcome)
        /\ called = [old EXCEPT !.calls = calls, !.attempts = attempts]
        /\ \/ /\ outcome = "error" \/ Final(q, outcome)
              /\ Go(q, [called EXCEPT !.pc = After(outcome)])
           \/ /\ outcome # "error" /\ ~Final(q, outcome)
              /\ Go(q, [called EXCEPT !.retries = @ + 1])
  BY DEF Call
<1>6. /\ calls \in Seq(Outcomes) /\ Len(calls) = old.retries + 1
      /\ calls[old.retries + 1] = outcome
      /\ \A i \in 1 .. old.retries : calls[i] = "listed"
  <2>1. /\ Len(calls) = Len(old.calls) + 1 /\ calls \in Seq(Outcomes)
        /\ calls[Len(old.calls) + 1] = outcome
        /\ \A i \in 1 .. Len(old.calls) : calls[i] = old.calls[i]
    BY <1>4, <1>5, AppendProperties
  <2> QED
    BY <1>3, <2>1
<1>7. attempts = IF (outcome = "error" \/ Final(q, outcome)) /\ old.retries = 0 THEN <<>> ELSE calls
  BY <1>3, <1>5 DEF Attempts
<1>8. attempts \in Seq(Outcomes)
  BY <1>6, <1>7
<1>9. /\ called \in RequestLocal /\ called.pc = "call" /\ called.calls = calls
      /\ called.attempts = attempts /\ called.retries = old.retries /\ called.limit = old.limit
      /\ called.refused = old.refused
  BY <1>1, <1>2, <1>5, <1>6, <1>8 DEF RequestLocal
<1>10. ASSUME outcome = "error" \/ Final(q, outcome), Go(q, [called EXCEPT !.pc = After(outcome)])
       PROVE  Inv'
  <2>1. /\ After(outcome) \in {"disable", "forward", "record"}
        /\ After(outcome) = "disable" => outcome = "auth"
    BY DEF After
  <2>2. PICK local : local = [called EXCEPT !.pc = After(outcome)]
    OBVIOUS
  <2>3. /\ local \in RequestLocal /\ local.pc = After(outcome) /\ local.calls = calls
        /\ local.attempts = attempts /\ local.retries = old.retries /\ local.limit = old.limit
    BY <1>9, <2>1, <2>2 DEF RequestLocal
  <2>4. attempts = IF Len(calls) > 1 THEN calls ELSE <<>>
    BY <1>4, <1>6, <1>7, <1>10
  <2>5. Told(local)
    <3>1. /\ Len(local.calls) = old.retries + 1
          /\ local.attempts = IF Len(local.calls) > 1 THEN local.calls ELSE <<>>
          /\ \A i \in 1 .. Len(local.calls) : i < Len(local.calls) => local.calls[i] = "listed"
      BY <1>4, <1>6, <2>3, <2>4
    <3>2. Len(local.calls) <= local.limit + 1
      BY <1>3, <1>4, <2>3, <3>1
    <3>3. local.retries = IF Len(local.calls) = 0 THEN 0 ELSE Len(local.calls) - 1
      BY <1>4, <2>3, <3>1
    <3> QED
      BY <3>1, <3>2, <3>3 DEF Told
  <2>6. local.pc = "disable" => Cause(local)
    <3>1. calls # <<>>
      BY <1>4, <1>6
    <3> QED
      BY <1>6, <2>1, <2>3, <3>1 DEF Cause
  <2>7. AuditOK(local)
    BY <2>1, <2>3, <2>5, <2>6 DEF AuditOK
  <2>8. Go(q, local) /\ local.pc \notin {"broker", "store"}
    BY <1>10, <2>1, <2>2, <2>3
  <2> QED
    BY <1>1, <2>3, <2>7, <2>8, RequestGoes, SameRows
<1>11. ASSUME outcome # "error", ~Final(q, outcome), Go(q, [called EXCEPT !.retries = @ + 1])
       PROVE  Inv'
  <2>1. outcome = "listed" /\ old.retries + 1 <= old.limit
    BY <1>4, <1>5, <1>11 DEF Final, Outcomes
  <2>2. PICK local : local = [called EXCEPT !.retries = @ + 1]
    OBVIOUS
  <2>3. /\ local \in RequestLocal /\ local.pc = "call" /\ local.calls = calls
        /\ local.attempts = calls /\ local.retries = old.retries + 1 /\ local.limit = old.limit
    BY <1>4, <1>7, <1>9, <1>11, <2>2 DEF RequestLocal
  <2>4. /\ Len(local.calls) = local.retries /\ local.retries <= local.limit
        /\ \A i \in 1 .. Len(local.calls) : local.calls[i] = "listed"
    BY <1>4, <1>6, <2>1, <2>3
  <2>5. AuditOK(local)
    BY <2>3, <2>4 DEF AuditOK
  <2>6. Go(q, local)
    BY <1>11, <2>2
  <2> QED
    BY <1>1, <2>3, <2>5, <2>6, RequestGoes, SameRows
<1> QED
  BY <1>5, <1>10, <1>11

-----------------------------------------------------------------------------
LEMMA InitOK == Init => Inv
<1> SUFFICES ASSUME Init PROVE Inv
  OBVIOUS
<1>1. \A t \in Threads : thread[t] = Idle /\ thread[t].pc = "idle"
  BY DEF Init, Idle
<1>2. ThreadsOK /\ RowsOK /\ BrokerOK
  <2>1. ThreadsOK
    BY <1>1 DEF Init, ThreadsOK
  <2>2. RowsOK
    <3>1. [enabled : {TRUE}, status : {"active"}, refresh : 0 .. MaxTokens, expiring : BOOLEAN]
            \subseteq Row
      BY DEF Row
    <3> QED
      BY <3>1 DEF Init, RowsOK
  <2>3. BrokerOK
    BY AccountConstants DEF Init, BrokerOK
  <2> QED
    BY <2>1, <2>2, <2>3
<1>3. \A a \in Accounts : Exists(a) => row[a].refresh \in accepted \cup {None}
  BY DEF Init
<1>4. RowTokens
  BY <1>2, <1>3 DEF Init, RowTokens, BrokerOK, None
<1>5. TokenInv
  BY <1>1, <1>3, <1>4
     DEF TokenInv, UsedTokens, BrokerTokens, GotTokens, RefreshTokenUsable, At
<1> QED
  BY <1>1, <1>2, <1>5 DEF Inv, TypeInv, AuditInv, Threads

LEMMA NextOK == Inv /\ [Next]_vars => Inv'
<1> SUFFICES ASSUME Inv, [Next]_vars PROVE Inv'
  OBVIOUS
<1>1. CASE AccountStep
  <2>1. ASSUME NEW t \in Syncs \cup Refreshers, SyncStep(t)
        PROVE  Inv'
    BY <2>1, RefreshStepOK, FetchOK, SyncFailedOK, SyncersAreNotRequests DEF SyncStep
  <2> QED
    BY <1>1, <2>1, AdminStepOK, DeleteErrorsOK, SyncStepOK, ConnectOK DEF AccountStep
<1>2. CASE \E q \in Requests : RequestStep(q)
  <2>1. PICK q \in Requests : RequestStep(q)
    BY <1>2
  <2>2. q \in Threads
    BY DEF Threads
  <2> QED
    BY <2>1, <2>2, ArriveOK, RefreshStepOK, RefuseOK, CallOK, DisableOK, EndOK DEF RequestStep
<1>3. CASE UNCHANGED vars
  BY <1>3, SameRows, OnlyRows DEF vars, broker, Inv
<1> QED
  BY <1>1, <1>2, <1>3 DEF Next

LEMMA Invariance == Spec => []Inv
BY InitOK, NextOK, PTL DEF Spec

(* Rows, tokens and threads keep their types. *)
THEOREM TypeCorrect == Spec => []TypeOK
<1>1. Inv => TypeOK
  <2> SUFFICES ASSUME Inv PROVE TypeOK
    OBVIOUS
  <2>1. DOMAIN thread = Threads
    BY DEF Inv, TypeInv, ThreadsOK
  <2>2. ASSUME NEW t \in Threads, thread[t] # Idle
        PROVE  thread[t].pc \in Points(t) /\ Common(thread[t]) \in Local
    <3>1. /\ thread[t].account \in Accounts /\ thread[t].used \in 0 .. MaxTokens
          /\ thread[t].got \in 0 .. MaxTokens /\ thread[t].refused \in BOOLEAN
          /\ thread[t].pc \in Points(t)
      BY <2>2, Fields DEF Inv, TypeInv, ThreadsOK
    <3>2. Common(thread[t]) = [account |-> thread[t].account, used |-> thread[t].used,
                               got |-> thread[t].got, refused |-> thread[t].refused]
      BY DEF Common
    <3> QED
      BY <3>1, <3>2 DEF Local
  <2> QED
    BY <2>1, <2>2 DEF Inv, TypeInv, RowsOK, BrokerOK, TypeOK
<1> QED
  BY <1>1, Invariance, PTL

(* The refresh token of a row can be used unless its replacement is on its way or lost, *)
(* however many requests, synchronisations, imports and logins share the account. *)
THEOREM TokensStayUsable == Spec => []RefreshTokenUsable
<1>1. Inv => RefreshTokenUsable
  BY DEF Inv, TokenInv
<1> QED
  BY <1>1, Invariance, PTL

(* The audit record tells every call for every retry count. *)
THEOREM AuditIsComplete == Spec => []AuditTellsEveryCall
<1>1. Inv => AuditTellsEveryCall
  BY DEF Inv, AuditInv, AuditOK, Told, AuditTellsEveryCall, At, Idle
<1> QED
  BY <1>1, Invariance, PTL

(* What a step does to a row that was enabled. *)
DisabledBy(a, q) == At(q, "disable") /\ Own(q) = a /\ Refused(q)
LeftOut(a) == /\ Exists(a) /\ row[a].enabled
              /\ Exists(a)' /\ ~row'[a].enabled /\ row'[a].status = "error"

(* Setting a row that was enabled leaves it out only if the new row is disabled for an error. *)
LEMMA LeftOutRow ==
  ASSUME RowsOK, NEW a \in Accounts, NEW b \in Accounts, NEW r, Set(b, r), LeftOut(a)
  PROVE  a = b /\ ~r.enabled /\ r.status = "error" /\ row[a] \in Row /\ row[a].enabled
BY DEF RowsOK, Set, LeftOut, Exists

LEMMA KeptRow ==
  ASSUME NEW a, UNCHANGED row
  PROVE  ~LeftOut(a)
BY DEF LeftOut

LEMMA RefreshLeavesIn ==
  ASSUME Inv, NEW t \in Threads, RefreshStep(t), NEW a \in Accounts
  PROVE  ~LeftOut(a)
<1> SUFFICES ASSUME LeftOut(a) PROVE FALSE
  OBVIOUS
<1>1. RowsOK /\ ThreadsOK
  BY DEF Inv, TypeInv
<1>2. CASE row' = row
  BY <1>2, KeptRow
<1>3. CASE StoreToken(t) /\ Exists(Own(t))
           /\ Set(Own(t), [row[Own(t)] EXCEPT !.refresh = Kept(t), !.expiring = FALSE])
  <2>1. thread[t].pc = "store"
    BY <1>3 DEF StoreToken, At
  <2>2. Own(t) \in Accounts
    BY <1>1, <2>1, Busy, Fields DEF Own
  <2>3. PICK r : r = [row[Own(t)] EXCEPT !.refresh = Kept(t), !.expiring = FALSE] /\ Set(Own(t), r)
    BY <1>3
  <2>4. a = Own(t) /\ ~r.enabled /\ row[a] \in Row /\ row[a].enabled
    BY <1>1, <2>2, <2>3, LeftOutRow
  <2>5. r.enabled = row[a].enabled
    BY <2>3, <2>4 DEF Row
  <2> QED
    BY <2>4, <2>5
<1> QED
  BY <1>2, <1>3 DEF RefreshStep, ReadToken, Granted, NotGranted, LoseAnswer, StoreToken

LEMMA AccountsLeaveIn ==
  ASSUME Inv, AccountStep, NEW a \in Accounts
  PROVE  ~LeftOut(a)
<1> SUFFICES ASSUME LeftOut(a) PROVE FALSE
  OBVIOUS
<1>1. RowsOK /\ ThreadsOK
  BY DEF Inv, TypeInv
<1>2. \A b \in Accounts : Exists(b) => row[b] \in Row
  BY <1>1 DEF RowsOK, Exists
<1>3. ASSUME NEW b \in Accounts, Expire(b)
      PROVE  FALSE
  <2>1. PICK r : r = [row[b] EXCEPT !.expiring = TRUE] /\ Set(b, r)
    BY <1>3 DEF Expire
  <2>2. a = b /\ ~r.enabled /\ row[a] \in Row /\ row[a].enabled
    BY <1>1, <2>1, LeftOutRow
  <2> QED
    BY <2>1, <2>2 DEF Row
<1>4. ASSUME NEW b \in Accounts, NEW enabled \in BOOLEAN, HandleAccountUpdate(b, enabled)
      PROVE  FALSE
  <2> DEFINE s == IF ~enabled THEN "paused"
                  ELSE IF row[b].status = "paused" THEN "active" ELSE row[b].status
  <2>1. PICK r, status : /\ status = s
                         /\ r = [row[b] EXCEPT !.enabled = enabled, !.status = status]
                         /\ Set(b, r)
    BY <1>4 DEF HandleAccountUpdate
  <2>2. a = b /\ ~r.enabled /\ r.status = "error" /\ row[a] \in Row
    BY <1>1, <2>1, LeftOutRow
  <2>3. r.enabled = enabled /\ r.status = status
    BY <2>1, <2>2 DEF Row
  <2>4. ~enabled => status = "paused"
    BY <2>1
  <2> QED
    BY <2>2, <2>3, <2>4
<1>5. ASSUME NEW b \in Accounts, HandleAccountDelete(b)
      PROVE  FALSE
  BY <1>1, <1>5 DEF HandleAccountDelete, LeftOut, RowsOK, Set, Exists
<1>6. ASSUME DeleteErrorAccounts
      PROVE  FALSE
  BY <1>1, <1>6 DEF DeleteErrorAccounts, LeftOut, RowsOK, Exists
<1>7. ASSUME NEW t \in Syncs \cup Refreshers, SyncStep(t)
      PROVE  FALSE
  <2>1. t \in Threads
    BY SyncersAreNotRequests
  <2>2. CASE RefreshStep(t)
    BY <2>1, <2>2, RefreshLeavesIn
  <2>3. ASSUME NEW status, Set(Own(t), [row[Own(t)] EXCEPT !.status = status]),
               thread[t].pc \in {"fetch", "failed"}
        PROVE  FALSE
    <3>1. Own(t) \in Accounts
      BY <1>1, <2>1, <2>3, Busy, Fields DEF Own
    <3>2. PICK r : r = [row[Own(t)] EXCEPT !.status = status] /\ Set(Own(t), r)
      BY <2>3
    <3>3. a = Own(t) /\ ~r.enabled /\ row[a] \in Row /\ row[a].enabled
      BY <1>1, <3>1, <3>2, LeftOutRow
    <3> QED
      BY <3>2, <3>3 DEF Row
  <2>4. CASE Fetch(t) \/ FetchFails(t)
    BY <2>3, <2>4, KeptRow DEF Fetch, FetchFails, At
  <2>5. CASE SyncFailed(t)
    BY <2>3, <2>5, KeptRow DEF SyncFailed, At
  <2> QED
    BY <1>7, <2>2, <2>4, <2>5 DEF SyncStep
<1>8. ASSUME NEW t, NEW b, Sync(t, b)
      PROVE  FALSE
  BY <1>8, KeptRow DEF Sync
<1>9. ASSUME NEW t, NEW kind, NEW b \in Accounts, Connect(t, kind, b)
      PROVE  FALSE
  <2>1. PICK token, enabled, expiring, r :
          r = NewRow(kind, b, token, enabled, expiring) /\ Set(b, r)
    BY <1>9 DEF Connect
  <2>2. r.status = "error"
    BY <1>1, <2>1, LeftOutRow
  <2>3. r.status = "syncing"
    BY <2>1 DEF NewRow
  <2> QED
    BY <2>2, <2>3
<1> QED
  BY <1>3, <1>4, <1>5, <1>6, <1>7, <1>8, <1>9 DEF AccountStep

(* No request disables an account for a failure that may pass, and nothing else disables one *)
(* with an error. *)
THEOREM OnlyRefusalsDisable == Spec => DisabledForCause
<1>1. ASSUME Inv, [Next]_vars, NEW a \in Accounts, LeftOut(a)
      PROVE  \E q \in Requests : DisabledBy(a, q)
  <2>1. row' # row
    BY <1>1, KeptRow
  <2>2. PICK q \in Requests : RequestStep(q)
    BY <1>1, <2>1, AccountsLeaveIn DEF Next, vars
  <2>3. q \in Threads /\ ~RefreshStep(q)
    BY <1>1, <2>2, RefreshLeavesIn DEF Threads
  <2>4. Disable(q)
    BY <2>1, <2>2, <2>3 DEF RequestStep, Arrive, Refuse, Call, Forward, Record
  <2>5. At(q, "disable") /\ thread[q].pc = "disable" /\ ThreadsOK /\ RowsOK /\ AuditInv
    BY <1>1, <2>4 DEF Disable, At, Inv, TypeInv
  <2>6. Refused(q)
    BY <2>5 DEF AuditInv, AuditOK, Cause, Refused, Idle
  <2>7. Own(q) \in Accounts
    BY <2>3, <2>5, Busy, Fields DEF Own
  <2>8. PICK r : Set(Own(q), r)
    BY <2>1, <2>4 DEF Disable
  <2>9. a = Own(q)
    BY <1>1, <2>5, <2>7, <2>8, LeftOutRow
  <2> QED
    BY <2>5, <2>6, <2>9 DEF DisabledBy
<1>2. Inv /\ [Next]_vars => [\A a \in Accounts :
         /\ Exists(a) /\ row[a].enabled
         /\ Exists(a)' /\ ~row'[a].enabled /\ row'[a].status = "error"
         => \E q \in Requests : At(q, "disable") /\ Own(q) = a /\ Refused(q)]_vars
  BY <1>1 DEF LeftOut, DisabledBy
<1> QED
  BY <1>2, Invariance, PTL DEF Spec, DisabledForCause
=============================================================================
