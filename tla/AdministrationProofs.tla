------------------------ MODULE AdministrationProofs ------------------------
(***************************************************************************)
(* Proofs about the names of models (ModelCatalog) and about the           *)
(* administrator's logins and sessions (AdminAuth), for any number of      *)
(* overlapping requests, about the records of requests (UsageStore), for   *)
(* any cap, any retention and any number of failures and restarts, about   *)
(* the order of versions and the cached answer on releases (ReleaseCheck), *)
(* for numbers of any size and any number of callers, about what the audit *)
(* list and the dashboard show of records that change (AuditViews), and    *)
(* about the types of all of them beside each other.                       *)
(***************************************************************************)
EXTENDS MCAdministration, ConfigStoreProofs,
        FiniteSetTheorems, SequenceTheorems, WellFoundedInduction, TLAPS

-----------------------------------------------------------------------------
(* The names of models.                                                      *)

SettingType == [alias : Names, manual : BOOLEAN]
EditorType == [pc : {"idle", "keep manual", "store", "delete"},
               upstream : Upstreams \cup {NoSetting}, alias : Names \cup {NoSetting},
               manual : BOOLEAN, fresh : BOOLEAN]

(* A request under way names a model and an alias.                           *)
EditorsInv ==
  /\ offered \subseteq Upstreams
  /\ setting \in [Upstreams -> SettingType \cup {NoSetting}]
  /\ editor \in [Editors -> EditorType]
  /\ \A e \in Editors : editor[e].pc # "idle" => /\ editor[e].upstream \in Upstreams
                                                 /\ editor[e].alias \in Names

(* Storing alias n for model u brings no other model a name it does not      *)
(* share with u already.                                                     *)
Harmless(u, n) ==
  \A v \in Catalog \ {u} : /\ u \in Catalog \/ u \notin NamesOf(v)
                           /\ n = u \/ n \notin NamesOf(v)

(* What a request compared still holds while the catalog is the same.        *)
FreshInv ==
  \A e \in Editors, u \in Upstreams, n \in Names :
    /\ editor[e].fresh /\ editor[e].pc \in {"keep manual", "store"}
    /\ editor[e].upstream = u /\ editor[e].alias = n
    => Harmless(u, n)

LEMMA CatalogTypes ==
  ASSUME EditorsInv
  PROVE  Catalog \subseteq Upstreams /\ \A u \in Catalog : Alias(u) \in Names
<1>1. Catalog \subseteq Upstreams
  BY DEF EditorsInv, Catalog
<1>2. ASSUME NEW u \in Upstreams PROVE Alias(u) \in Names
  <2>1. setting[u] = NoSetting \/ setting[u].alias \in Names
    BY DEF EditorsInv, SettingType
  <2> QED
    BY <2>1 DEF Alias, Names
<1> QED
  BY <1>1, <1>2

LEMMA SameView ==
  ASSUME View' = View
  PROVE  Catalog' = Catalog /\ \A u \in Catalog : NamesOf(u)' = NamesOf(u)
<1>1. Catalog' = Catalog
  <2>1. DOMAIN View = Catalog /\ DOMAIN View' = Catalog'
    BY DEF View
  <2> QED
    BY <2>1
<1>2. ASSUME NEW u \in Catalog PROVE Alias(u)' = Alias(u)
  <2>1. View[u] = Alias(u) /\ View'[u] = Alias(u)'
    BY <1>1 DEF View
  <2> QED
    BY <2>1
<1> QED
  BY <1>1, <1>2 DEF NamesOf

LEMMA StaysHarmless ==
  ASSUME View' = View, NEW u, NEW n, Harmless(u, n)
  PROVE  Harmless(u, n)'
  BY SameView DEF Harmless

LEMMA Freshened ==
  ASSUME NEW r \in EditorType, NEW same \in BOOLEAN
  PROVE  LET q == [r EXCEPT !.fresh = @ /\ same] IN
           /\ q \in EditorType /\ q.pc = r.pc /\ q.upstream = r.upstream /\ q.alias = r.alias
           /\ q.fresh => r.fresh /\ same
<1>1. r.fresh \in BOOLEAN
  BY DEF EditorType
<1>2. CASE r.fresh /\ same
  BY <1>2 DEF EditorType
<1>3. CASE ~(r.fresh /\ same)
  BY <1>3 DEF EditorType
<1> QED
  BY <1>2, <1>3

(* The other requests go on as they were, or are no longer fresh.            *)
LEMMA OthersLater ==
  ASSUME EditorsInv, NEW x \in Editors,
         editor'[x] = [editor[x] EXCEPT !.fresh = @ /\ View' = View]
  PROVE  /\ editor'[x] \in EditorType /\ editor'[x].pc = editor[x].pc
         /\ editor'[x].upstream = editor[x].upstream /\ editor'[x].alias = editor[x].alias
         /\ editor'[x].fresh => editor[x].fresh /\ View' = View
<1>1. editor[x] \in EditorType
  BY DEF EditorsInv
<1>2. PICK same \in BOOLEAN : same <=> (View' = View)
  OBVIOUS
<1>3. editor'[x] = [editor[x] EXCEPT !.fresh = @ /\ same]
  BY <1>2
<1> QED
  BY <1>1, <1>2, <1>3, Freshened

LEMMA ProceedEffect ==
  ASSUME EditorsInv, NEW e \in Editors, NEW r \in EditorType, Proceed(e, r),
         offered' \subseteq Upstreams, setting' \in [Upstreams -> SettingType \cup {NoSetting}],
         r.pc # "idle" => r.upstream \in Upstreams /\ r.alias \in Names,
         r.fresh /\ r.pc \in {"keep manual", "store"} =>
           \A u \in Upstreams, n \in Names :
             r.upstream = u /\ r.alias = n => Harmless(u, n)',
         FreshInv
  PROVE  EditorsInv' /\ FreshInv'
<1>1. editor'[e] = r
  BY DEF Proceed
<1>2. ASSUME NEW x \in Editors, x # e
      PROVE  /\ editor'[x] \in EditorType /\ editor'[x].pc = editor[x].pc
             /\ editor'[x].upstream = editor[x].upstream /\ editor'[x].alias = editor[x].alias
             /\ editor'[x].fresh => editor[x].fresh /\ View' = View
  <2>1. editor'[x] = [editor[x] EXCEPT !.fresh = @ /\ View' = View]
    BY <1>2 DEF Proceed
  <2> QED
    BY <2>1, OthersLater
<1>3. editor' \in [Editors -> EditorType]
  <2>1. \A x \in Editors : editor'[x] \in EditorType
    BY <1>1, <1>2
  <2>2. editor' = [x \in Editors |-> editor'[x]]
    BY DEF Proceed
  <2> QED
    BY <2>1, <2>2
<1>4. \A x \in Editors : editor'[x].pc # "idle" =>
        editor'[x].upstream \in Upstreams /\ editor'[x].alias \in Names
  BY <1>1, <1>2 DEF EditorsInv
<1>5. ASSUME NEW x \in Editors, NEW u \in Upstreams, NEW n \in Names,
             editor'[x].fresh, editor'[x].pc \in {"keep manual", "store"},
             editor'[x].upstream = u, editor'[x].alias = n
      PROVE  Harmless(u, n)'
  <2>1. CASE x = e
    BY <1>1, <1>5, <2>1
  <2>2. CASE x # e
    <3>1. Harmless(u, n) /\ View' = View
      BY <1>2, <1>5, <2>2 DEF FreshInv
    <3> QED
      BY <3>1, StaysHarmless
  <2> QED
    BY <2>1, <2>2
<1>6. FreshInv'
  BY <1>5 DEF FreshInv
<1> QED
  BY <1>3, <1>4, <1>6 DEF EditorsInv

LEMMA NothingChanged ==
  ASSUME UNCHANGED <<offered, setting>>
  PROVE  Catalog' = Catalog /\ View' = View /\ \A u, n : Harmless(u, n)' <=> Harmless(u, n)
<1>1. Catalog' = Catalog
  BY DEF Catalog
<1>2. ASSUME NEW u PROVE Alias(u)' = Alias(u)
  BY DEF Alias
<1> QED
  BY <1>1, <1>2 DEF View, Harmless, NamesOf

LEMMA NoRequestType == NoRequest \in EditorType /\ NoRequest.pc = "idle"
BY DEF EditorType, NoRequest

LEMMA CatalogStart == ASSUME CatalogInit PROVE EditorsInv /\ FreshInv
<1>1. NoRequest \in EditorType /\ NoRequest.pc = "idle"
  BY NoRequestType
<1> QED
  BY <1>1 DEF CatalogInit, EditorsInv, FreshInv, SettingType

LEMMA CreatePreserves ==
  ASSUME EditorsInv, FreshInv, NEW e \in Editors, CheckCreate(e)
  PROVE  EditorsInv' /\ FreshInv'
<1>1. PICK u \in Upstreams, n \in Names :
        ~Taken(u, n) /\ Proceed(e, Request("store", u, n, TRUE))
  BY DEF CheckCreate
<1>2. UNCHANGED <<offered, setting>>
  BY DEF CheckCreate
<1>3. Harmless(u, n)'
  BY <1>1, <1>2, NothingChanged DEF Taken, Harmless
<1>4. PICK r : r = Request("store", u, n, TRUE)
  OBVIOUS
<1>5. r \in EditorType /\ r.pc = "store" /\ r.upstream = u /\ r.alias = n
  BY <1>4 DEF Request, EditorType
<1> QED
  BY <1>1, <1>2, <1>3, <1>4, <1>5, ProceedEffect DEF EditorsInv

LEMMA SettingPreserves ==
  ASSUME EditorsInv, FreshInv, NEW e \in Editors, CheckSetting(e)
  PROVE  EditorsInv' /\ FreshInv'
<1>1. PICK u \in Catalog, n \in Names, missing \in BOOLEAN, m \in BOOLEAN :
        /\ IF missing THEN n = u ELSE ~TakenByOther(u, n)
        /\ Proceed(e, Request("keep manual", u, n, m))
  BY DEF CheckSetting
<1>2. UNCHANGED <<offered, setting>>
  BY DEF CheckSetting
<1>3. Harmless(u, n)
  BY <1>1 DEF TakenByOther, Harmless
<1>4. Harmless(u, n)'
  BY <1>2, <1>3, NothingChanged
<1>5. PICK r : r = Request("keep manual", u, n, m)
  OBVIOUS
<1>6. u \in Upstreams
  BY CatalogTypes
<1>7. r \in EditorType /\ r.pc = "keep manual" /\ r.upstream = u /\ r.alias = n
  BY <1>5, <1>6 DEF Request, EditorType
<1>8. Proceed(e, r)
  BY <1>1, <1>5
<1> QED
  BY <1>2, <1>4, <1>6, <1>7, <1>8, ProceedEffect DEF EditorsInv

LEMMA KeepPreserves ==
  ASSUME EditorsInv, FreshInv, NEW e \in Editors, KeepManual(e)
  PROVE  EditorsInv' /\ FreshInv'
<1>1. UNCHANGED <<offered, setting>> /\ editor[e].pc = "keep manual"
  BY DEF KeepManual
<1>2. PICK m : /\ m = IF setting[editor[e].upstream] = NoSetting THEN editor[e].manual
                     ELSE setting[editor[e].upstream].manual
               /\ Proceed(e, [editor[e] EXCEPT !.pc = "store", !.manual = m])
  BY DEF KeepManual
<1>3. editor[e] \in EditorType /\ editor[e].upstream \in Upstreams /\ editor[e].alias \in Names
  BY <1>1 DEF EditorsInv
<1>4. m \in BOOLEAN
  BY <1>2, <1>3 DEF EditorsInv, EditorType, SettingType
<1>5. PICK r : r = [editor[e] EXCEPT !.pc = "store", !.manual = m]
  OBVIOUS
<1>6. /\ r \in EditorType /\ r.pc = "store" /\ r.upstream = editor[e].upstream
      /\ r.alias = editor[e].alias /\ r.fresh = editor[e].fresh
  BY <1>3, <1>4, <1>5 DEF EditorType
<1>7. ASSUME NEW u \in Upstreams, NEW n \in Names, r.fresh, r.upstream = u, r.alias = n
      PROVE  Harmless(u, n)'
  <2>1. Harmless(u, n)
    BY <1>1, <1>6, <1>7 DEF FreshInv
  <2> QED
    BY <1>1, <2>1, NothingChanged
<1>8. Proceed(e, r)
  BY <1>2, <1>5
<1> QED
  BY <1>1, <1>3, <1>6, <1>7, <1>8, ProceedEffect DEF EditorsInv

LEMMA StorePreserves ==
  ASSUME EditorsInv, FreshInv, NEW e \in Editors, SetModelSetting(e) \/ DeleteModelSetting(e)
  PROVE  EditorsInv' /\ FreshInv'
<1>1. offered' \subseteq Upstreams /\ Proceed(e, NoRequest)
  BY DEF SetModelSetting, DeleteModelSetting, EditorsInv
<1>2. CASE SetModelSetting(e)
  <2>1. editor[e].alias \in Names /\ editor[e].manual \in BOOLEAN
    BY <1>2 DEF SetModelSetting, EditorsInv, EditorType
  <2>2. [alias |-> editor[e].alias, manual |-> editor[e].manual] \in SettingType
    BY <2>1 DEF SettingType
  <2>3. setting' \in [Upstreams -> SettingType \cup {NoSetting}]
    BY <1>2, <2>2 DEF SetModelSetting, EditorsInv
  <2> QED
    BY <1>1, <2>3, NoRequestType, ProceedEffect
<1>3. CASE DeleteModelSetting(e)
  <2>1. setting' \in [Upstreams -> SettingType \cup {NoSetting}]
    BY <1>3 DEF DeleteModelSetting, EditorsInv
  <2> QED
    BY <1>1, <2>1, NoRequestType, ProceedEffect
<1> QED
  BY <1>2, <1>3

LEMMA DeletePreserves ==
  ASSUME EditorsInv, FreshInv, NEW e \in Editors, CheckDelete(e)
  PROVE  EditorsInv' /\ FreshInv'
<1>1. PICK u \in Upstreams : Proceed(e, Request("delete", u, u, FALSE))
  BY DEF CheckDelete
<1>2. UNCHANGED <<offered, setting>>
  BY DEF CheckDelete
<1>3. PICK r : r = Request("delete", u, u, FALSE)
  OBVIOUS
<1>4. u \in Names
  BY DEF Names
<1>5. r \in EditorType /\ r.pc = "delete" /\ r.upstream = u /\ r.alias = u
  BY <1>3, <1>4 DEF Request, EditorType
<1> QED
  BY <1>1, <1>2, <1>3, <1>4, <1>5, ProceedEffect DEF EditorsInv

LEMMA OfferPreserves ==
  ASSUME EditorsInv, FreshInv, Offer
  PROVE  EditorsInv' /\ FreshInv'
<1>1. ASSUME NEW x \in Editors
      PROVE  /\ editor'[x] \in EditorType /\ editor'[x].pc = editor[x].pc
             /\ editor'[x].upstream = editor[x].upstream /\ editor'[x].alias = editor[x].alias
             /\ editor'[x].fresh => editor[x].fresh /\ View' = View
  <2>1. editor'[x] = [editor[x] EXCEPT !.fresh = @ /\ View' = View]
    BY DEF Offer
  <2> QED
    BY <2>1, OthersLater
<1>2. editor' \in [Editors -> EditorType]
  <2>1. editor' = [x \in Editors |-> editor'[x]]
    BY DEF Offer
  <2> QED
    BY <1>1, <2>1
<1>3. EditorsInv'
  BY <1>1, <1>2 DEF EditorsInv, Offer
<1>4. ASSUME NEW x \in Editors, NEW u \in Upstreams, NEW n \in Names,
             editor'[x].fresh, editor'[x].pc \in {"keep manual", "store"},
             editor'[x].upstream = u, editor'[x].alias = n
      PROVE  Harmless(u, n)'
  <2>1. Harmless(u, n) /\ View' = View
    BY <1>1, <1>4 DEF FreshInv
  <2> QED
    BY <2>1, StaysHarmless
<1> QED
  BY <1>3, <1>4 DEF FreshInv

LEMMA CatalogStep ==
  ASSUME EditorsInv, FreshInv, [CatalogNext]_catalogVars
  PROVE  EditorsInv' /\ FreshInv'
<1>1. CASE UNCHANGED catalogVars
  <2>1. UNCHANGED <<offered, setting, editor>>
    BY <1>1 DEF catalogVars
  <2>2. EditorsInv'
    BY <2>1 DEF EditorsInv
  <2> QED
    BY <2>1, <2>2, NothingChanged DEF FreshInv
<1>2. CASE CatalogNext
  BY <1>2, CreatePreserves, SettingPreserves, KeepPreserves, StorePreserves, DeletePreserves,
     OfferPreserves DEF CatalogNext
<1> QED
  BY <1>1, <1>2

(* ModelCatalog: every request in flight is at a known step of its handler,  *)
(* and every stored setting is complete.                                     *)
THEOREM CatalogTypeCorrect == CatalogSpec => []CatalogTypeOK
<1>1. CatalogInit => EditorsInv /\ FreshInv
  BY CatalogStart
<1>2. EditorsInv /\ FreshInv /\ [CatalogNext]_catalogVars => EditorsInv' /\ FreshInv'
  BY CatalogStep
<1>3. EditorsInv => CatalogTypeOK
  BY DEF EditorsInv, CatalogTypeOK, EditorType, SettingType
<1> QED
  BY <1>1, <1>2, <1>3, PTL DEF CatalogSpec

(* Storing a setting that is harmless makes no name ambiguous.               *)
LEMMA StoreIsUnique ==
  ASSUME EditorsInv, NEW e \in Editors, SetModelSetting(e),
         Harmless(editor[e].upstream, editor[e].alias)
  PROVE  Ambiguous' \subseteq Ambiguous
<1>1. PICK u, n : u = editor[e].upstream /\ n = editor[e].alias
  OBVIOUS
<1>2. u \in Upstreams /\ n \in Names
  BY <1>1 DEF SetModelSetting, EditorsInv
<1>3. /\ offered' = offered /\ setting'[u].alias = n /\ setting'[u] # NoSetting
      /\ \A v \in Upstreams \ {u} : setting'[v] = setting[v]
  <2>1. editor[e].manual \in BOOLEAN
    BY DEF EditorsInv, EditorType
  <2> QED
    BY <1>1, <1>2, <2>1, CatalogConstants DEF SetModelSetting, EditorsInv, Names
<1>4. Catalog' \subseteq Catalog \cup {u}
  BY <1>3 DEF Catalog
<1>5. NamesOf(u)' = {u, n}
  BY <1>3 DEF NamesOf, Alias
<1>6. \A v \in Catalog \ {u} : NamesOf(v)' = NamesOf(v)
  BY <1>3, CatalogTypes DEF NamesOf, Alias
<1>7. \A v \in Catalog \ {u} : {u, n} \cap NamesOf(v) # {} =>
        u \in Catalog /\ NamesOf(u) \cap NamesOf(v) # {}
  BY <1>1 DEF Harmless, NamesOf
<1>8. ASSUME NEW v \in Catalog', NEW w \in Catalog', v # w, (NamesOf(v) \cap NamesOf(w) # {})'
      PROVE  v \in Catalog /\ w \in Catalog /\ NamesOf(v) \cap NamesOf(w) # {}
  <2>1. CASE v = u
    BY <1>4, <1>5, <1>6, <1>7, <1>8, <2>1
  <2>2. CASE w = u
    BY <1>4, <1>5, <1>6, <1>7, <1>8, <2>2
  <2>3. CASE v # u /\ w # u
    BY <1>4, <1>6, <1>8, <2>3
  <2> QED
    BY <2>1, <2>2, <2>3
<1> QED
  BY <1>8 DEF Ambiguous

LEMMA DeleteIsUnique ==
  ASSUME EditorsInv, NEW e \in Editors, DeleteModelSetting(e)
  PROVE  Ambiguous' \subseteq Ambiguous
<1>1. PICK u : u = editor[e].upstream
  OBVIOUS
<1>2. u \in Upstreams
  BY <1>1 DEF DeleteModelSetting, EditorsInv
<1>3. /\ offered' = offered /\ setting'[u] = NoSetting
      /\ \A v \in Upstreams \ {u} : setting'[v] = setting[v]
  BY <1>1, <1>2 DEF DeleteModelSetting, EditorsInv
<1>4. Catalog' \subseteq Catalog
  BY <1>3 DEF Catalog
<1>5. \A v \in Upstreams : NamesOf(v)' \subseteq NamesOf(v)
  BY <1>3 DEF NamesOf, Alias
<1>6. \A v \in Catalog' : NamesOf(v)' \subseteq NamesOf(v)
  BY <1>4, <1>5, CatalogTypes
<1> QED
  BY <1>4, <1>6 DEF Ambiguous

(* A request leaves another request's step as it was.                        *)
LEMMA OnlyItsOwn ==
  ASSUME EditorsInv, NEW e \in Editors, NEW f \in Editors, f # e, NEW r, Proceed(f, r)
  PROVE  editor'[e].pc = editor[e].pc
<1>1. editor'[e] = [editor[e] EXCEPT !.fresh = @ /\ View' = View]
  BY DEF Proceed
<1> QED
  BY <1>1, OthersLater

LEMMA WhoFinishes ==
  ASSUME EditorsInv, NEW e \in Editors, CatalogNext,
         editor[e].pc \in {"store", "delete"}, editor'[e].pc = "idle"
  PROVE  SetModelSetting(e) \/ DeleteModelSetting(e)
<1>1. CASE Offer
  <2>1. editor'[e] = [editor[e] EXCEPT !.fresh = @ /\ View' = View]
    BY <1>1 DEF Offer
  <2> QED
    BY <2>1, OthersLater
<1>2. ASSUME NEW f \in Editors,
             CheckCreate(f) \/ CheckSetting(f) \/ KeepManual(f) \/ SetModelSetting(f)
               \/ CheckDelete(f) \/ DeleteModelSetting(f)
      PROVE  SetModelSetting(e) \/ DeleteModelSetting(e)
  <2>1. PICK r : Proceed(f, r)
    BY <1>2 DEF CheckCreate, CheckSetting, KeepManual, SetModelSetting, CheckDelete,
                DeleteModelSetting
  <2>2. f = e
    BY <2>1, OnlyItsOwn
  <2> QED
    BY <1>2, <2>2 DEF CheckCreate, CheckSetting, KeepManual, CheckDelete
<1> QED
  BY <1>1, <1>2 DEF CatalogNext

(* HandleCreateModel, HandleModelSetting and HandleDeleteModel: comparing    *)
(* a name with the catalog and storing it later is enough as long as the     *)
(* catalog has not changed in between.                                       *)
THEOREM NamesStayUniqueHolds == CatalogSpec => NamesStayUnique
<1>1. CatalogInit => EditorsInv /\ FreshInv
  BY CatalogStart
<1>2. EditorsInv /\ FreshInv /\ [CatalogNext]_catalogVars => EditorsInv' /\ FreshInv'
  BY CatalogStep
<1>3. ASSUME EditorsInv, FreshInv, CatalogNext, NEW e \in Editors,
             editor[e].pc \in {"store", "delete"}, editor[e].fresh, editor'[e].pc = "idle"
      PROVE  Ambiguous' \subseteq Ambiguous
  <2>1. CASE SetModelSetting(e)
    <3>1. editor[e].upstream \in Upstreams /\ editor[e].alias \in Names
          /\ editor[e].pc = "store"
      BY <1>3, <2>1 DEF SetModelSetting, EditorsInv
    <3>2. Harmless(editor[e].upstream, editor[e].alias)
      BY <1>3, <3>1 DEF FreshInv
    <3> QED
      BY <1>3, <2>1, <3>2, StoreIsUnique
  <2>2. CASE DeleteModelSetting(e)
    BY <1>3, <2>2, DeleteIsUnique
  <2> QED
    BY <1>3, <2>1, <2>2, WhoFinishes
<1>4. EditorsInv /\ FreshInv /\ [CatalogNext]_catalogVars =>
        [\A e \in Editors :
           editor[e].pc \in {"store", "delete"} /\ editor[e].fresh /\ editor'[e].pc = "idle"
             => Ambiguous' \subseteq Ambiguous]_catalogVars
  BY <1>3
<1> QED
  BY <1>1, <1>2, <1>4, PTL DEF CatalogSpec, NamesStayUnique

-----------------------------------------------------------------------------
(* The administrator's sessions.                                             *)

(* Whether token k of m is good at time t                                    *)
Good(m, k, t) == k \in DOMAIN m /\ t <= m[k]

Agreeing ==
  \A k \in Tokens : /\ Good(sessions, k, clock) <=> Good(issued, k, clock)
                    /\ Good(issued, k, clock) => sessions[k] = issued[k]

SessionsInv ==
  /\ clock \in Nat
  /\ DOMAIN sessions \subseteq Tokens /\ \A k \in DOMAIN sessions : sessions[k] \in Int
  /\ DOMAIN issued \subseteq Tokens /\ \A k \in DOMAIN issued : issued[k] \in Int
  /\ Agreeing

LEMMA WithoutFact ==
  ASSUME NEW m, NEW k
  PROVE  /\ DOMAIN Without(m, k) = DOMAIN m \ {k}
         /\ \A x \in DOMAIN m \ {k} : Without(m, k)[x] = m[x]
BY DEF Without

LEMMA PrunedFact ==
  /\ DOMAIN Pruned = {k \in DOMAIN sessions : clock <= sessions[k]}
  /\ \A k \in DOMAIN Pruned : Pruned[k] = sessions[k]
BY DEF Pruned, Alive

LEMMA OpenKeeps ==
  ASSUME SessionsInv, NEW t \in Logins, OpenSession(t)
  PROVE  SessionsInv'
<1>1. PICK k \in Tokens \ (DOMAIN sessions \cup Alive(issued)) :
        /\ sessions' = With(Pruned, k, clock + Lifetime)
        /\ issued' = With(issued, k, clock + Lifetime)
  BY DEF OpenSession
<1>2. clock' = clock /\ clock + Lifetime \in Int
  BY AuthConstants DEF OpenSession, SessionsInv
<1>3. /\ DOMAIN sessions' = DOMAIN Pruned \cup {k} /\ sessions'[k] = clock + Lifetime
      /\ \A x \in DOMAIN Pruned \ {k} : sessions'[x] = sessions[x]
  BY <1>1, PrunedFact DEF With
<1>4. /\ DOMAIN issued' = DOMAIN issued \cup {k} /\ issued'[k] = clock + Lifetime
      /\ \A x \in DOMAIN issued \ {k} : issued'[x] = issued[x]
  BY <1>1 DEF With
<1>5. DOMAIN Pruned = {x \in DOMAIN sessions : clock <= sessions[x]}
  BY PrunedFact
<1>6. /\ DOMAIN sessions' \subseteq Tokens /\ \A x \in DOMAIN sessions' : sessions'[x] \in Int
      /\ DOMAIN issued' \subseteq Tokens /\ \A x \in DOMAIN issued' : issued'[x] \in Int
  BY <1>1, <1>2, <1>3, <1>4, <1>5 DEF SessionsInv
<1>7. ASSUME NEW x \in Tokens, x # k
      PROVE  /\ Good(sessions', x, clock) <=> Good(sessions, x, clock)
             /\ Good(issued', x, clock) <=> Good(issued, x, clock)
             /\ Good(sessions, x, clock) => sessions'[x] = sessions[x]
             /\ Good(issued, x, clock) => issued'[x] = issued[x]
  BY <1>3, <1>4, <1>5, <1>7 DEF Good
<1>8. \A x \in Tokens : /\ Good(sessions', x, clock') <=> Good(issued', x, clock')
                        /\ Good(issued', x, clock') => sessions'[x] = issued'[x]
  BY <1>2, <1>3, <1>4, <1>7 DEF SessionsInv, Agreeing, Good
<1>9. clock' \in Nat
  BY <1>2 DEF SessionsInv
<1>10. Agreeing'
  BY <1>8 DEF Agreeing, Good
<1> QED
  BY <1>6, <1>9, <1>10 DEF SessionsInv

LEMMA RemoveKeeps ==
  ASSUME SessionsInv, NEW k \in Tokens, RefuseRequest(k) \/ Logout(k)
  PROVE  SessionsInv'
<1>1. clock' = clock /\ sessions' = Without(sessions, k)
  BY DEF RefuseRequest, Logout
<1>2. /\ DOMAIN sessions' = DOMAIN sessions \ {k}
      /\ \A x \in DOMAIN sessions \ {k} : sessions'[x] = sessions[x]
  BY <1>1, WithoutFact
<1>3. CASE RefuseRequest(k)
  <2>1. issued' = issued /\ ~Good(sessions, k, clock)
    BY <1>3 DEF RefuseRequest, Authenticated, Good
  <2> QED
    BY <1>1, <1>2, <2>1 DEF SessionsInv, Agreeing, Good
<1>4. CASE Logout(k)
  <2>1. issued' = Without(issued, k)
    BY <1>4 DEF Logout
  <2>2. /\ DOMAIN issued' = DOMAIN issued \ {k}
        /\ \A x \in DOMAIN issued \ {k} : issued'[x] = issued[x]
    BY <2>1, WithoutFact
  <2> QED
    BY <1>1, <1>2, <2>2 DEF SessionsInv, Agreeing, Good
<1> QED
  BY <1>3, <1>4

LEMMA SessionsStep ==
  ASSUME SessionsInv, [AuthNext]_authVars
  PROVE  SessionsInv'
<1>1. CASE AuthTick
  <2>1. clock' = clock + 1 /\ sessions' = sessions /\ issued' = issued
    BY <1>1 DEF AuthTick
  <2>2. \A k \in Tokens : /\ Good(sessions, k, clock') <=> Good(issued, k, clock')
                          /\ Good(issued, k, clock') => sessions[k] = issued[k]
    BY <2>1 DEF SessionsInv, Agreeing, Good
  <2> QED
    BY <2>1, <2>2 DEF SessionsInv, Agreeing, Good
<1>2. CASE UNCHANGED <<clock, sessions, issued>>
  BY <1>2 DEF SessionsInv, Agreeing, Good
<1>3. ASSUME NEW t \in Logins, LoginStep(t) PROVE SessionsInv'
  <2>1. CASE OpenSession(t)
    BY <2>1, OpenKeeps
  <2>2. CASE AllowAttempt(t) \/ BadBody(t) \/ ComparePassword(t) \/ RecordFailure(t)
               \/ ClearFailures(t)
    BY <1>2, <2>2 DEF AllowAttempt, BadBody, ComparePassword, RecordFailure, ClearFailures
  <2> QED
    BY <1>3, <2>1, <2>2 DEF LoginStep
<1> QED
  BY <1>1, <1>2, <1>3, RemoveKeeps DEF AuthNext, authVars

(* SessionFromRequest: a token is good from its login until it expires or is *)
(* logged out, and at no other time, whatever other logins prune and other   *)
(* requests remove.                                                          *)
THEOREM SessionsHonouredHolds == AuthSpec => []SessionsHonoured
<1>1. AuthInit => SessionsInv
  BY DEF AuthInit, SessionsInv, Agreeing, Good
<1>2. SessionsInv /\ [AuthNext]_authVars => SessionsInv'
  BY SessionsStep
<1>3. SessionsInv => SessionsHonoured
  BY DEF SessionsInv, Agreeing, SessionsHonoured, Authenticated, Alive, Good
<1> QED
  BY <1>1, <1>2, <1>3, PTL DEF AuthSpec

-----------------------------------------------------------------------------
(* The limit of wrong passwords.                                             *)

(* The failures of m recorded at time t or later                             *)
Since(m, t) == {i \in DOMAIN m : m[i] >= t}

(* The count of a window is covered by failures recorded within it.          *)
AttemptsInv ==
  /\ clock \in 0 .. MaxClock
  /\ attempts \in [count : Nat, start : -Window - 1 .. MaxClock]
  /\ attempts.start <= clock
  /\ misses \in Seq(0 .. MaxClock)
  /\ login \in [Logins -> {"idle", "check", "wrong", "right", "open"}]
  /\ attempts.count <= Cardinality(Since(misses, attempts.start))

LEMMA SinceFinite ==
  ASSUME NEW m \in Seq(0 .. MaxClock), NEW t
  PROVE  IsFiniteSet(Since(m, t)) /\ Cardinality(Since(m, t)) \in Nat
<1>1. Len(m) \in Nat /\ DOMAIN m = 1 .. Len(m)
  OBVIOUS
<1>2. IsFiniteSet(1 .. Len(m))
  BY <1>1, FS_Interval
<1>3. Since(m, t) \subseteq 1 .. Len(m)
  BY <1>1 DEF Since
<1> QED
  BY <1>2, <1>3, FS_Subset, FS_CardinalityType

LEMMA OneMoreMiss ==
  ASSUME NEW m \in Seq(0 .. MaxClock), NEW c \in 0 .. MaxClock, NEW t \in Int, t <= c
  PROVE  /\ Append(m, c) \in Seq(0 .. MaxClock)
         /\ Cardinality(Since(Append(m, c), t)) = Cardinality(Since(m, t)) + 1
<1>1. /\ Append(m, c) \in Seq(0 .. MaxClock) /\ Len(m) \in Nat
      /\ DOMAIN m = 1 .. Len(m) /\ DOMAIN Append(m, c) = 1 .. Len(m) + 1
      /\ \A i \in 1 .. Len(m) : Append(m, c)[i] = m[i]
      /\ Append(m, c)[Len(m) + 1] = c
  OBVIOUS
<1>2. Since(Append(m, c), t) = Since(m, t) \cup {Len(m) + 1}
  BY <1>1 DEF Since
<1>3. Len(m) + 1 \notin Since(m, t)
  BY <1>1 DEF Since
<1> QED
  BY <1>1, <1>2, <1>3, SinceFinite, FS_AddElement

LEMMA AttemptsStart == ASSUME AuthInit PROVE AttemptsInv
<1>1. misses = << >> /\ Since(misses, attempts.start) = {}
  BY DEF AuthInit, Since
<1>2. misses \in Seq(0 .. MaxClock) /\ Cardinality(Since(misses, attempts.start)) = 0
  BY <1>1, FS_EmptySet
<1> QED
  BY <1>2, AuthConstants DEF AuthInit, AttemptsInv, NoWindow

(* No window is counted, or none has been touched.                           *)
LEMMA Forgotten ==
  ASSUME AttemptsInv, attempts' = NoWindow, misses' \in Seq(0 .. MaxClock), clock' = clock,
         login' \in [Logins -> {"idle", "check", "wrong", "right", "open"}]
  PROVE  AttemptsInv'
<1>1. Cardinality(Since(misses, attempts.start))' \in Nat
  BY SinceFinite
<1>2. attempts'.count = 0 /\ attempts' \in [count : Nat, start : -Window - 1 .. MaxClock]
      /\ attempts'.start <= clock'
  BY AuthConstants DEF AttemptsInv, NoWindow
<1> QED
  BY <1>1, <1>2 DEF AttemptsInv

LEMMA MissKeeps ==
  ASSUME AttemptsInv, NEW t \in Logins, RecordFailure(t)
  PROVE  AttemptsInv'
<1>1. /\ misses' = Append(misses, clock) /\ clock' = clock
      /\ login' = [login EXCEPT ![t] = "idle"]
      /\ attempts' = IF Expired THEN [count |-> 1, start |-> clock]
                     ELSE [attempts EXCEPT !.count = @ + 1]
  BY DEF RecordFailure
<1>2. login' \in [Logins -> {"idle", "check", "wrong", "right", "open"}]
  BY <1>1 DEF AttemptsInv
<1>3. PICK c, s, n, m : c = clock /\ s = attempts.start /\ n = attempts.count /\ m = misses
  OBVIOUS
<1>4. /\ c \in 0 .. MaxClock /\ s \in -Window - 1 .. MaxClock /\ s <= c /\ n \in Nat
      /\ m \in Seq(0 .. MaxClock) /\ n <= Cardinality(Since(m, s))
  BY <1>3 DEF AttemptsInv
<1>5. Cardinality(Since(m, s)) \in Nat /\ Cardinality(Since(m, c)) \in Nat
  BY <1>4, SinceFinite
<1>6. /\ misses' \in Seq(0 .. MaxClock)
      /\ Cardinality(Since(misses', s)) = Cardinality(Since(m, s)) + 1
      /\ Cardinality(Since(misses', c)) = Cardinality(Since(m, c)) + 1
  BY <1>1, <1>3, <1>4, AuthConstants, OneMoreMiss
<1>7. CASE Expired
  <2>1. attempts' = [count |-> 1, start |-> c]
    BY <1>1, <1>3, <1>7
  <2>2. attempts' \in [count : Nat, start : -Window - 1 .. MaxClock]
    BY <1>4, <2>1, AuthConstants
  <2>3. attempts'.count <= Cardinality(Since(misses', attempts'.start))
    BY <1>5, <1>6, <2>1
  <2> QED
    BY <1>1, <1>2, <1>3, <1>4, <1>6, <2>1, <2>2, <2>3 DEF AttemptsInv
<1>8. CASE ~Expired
  <2>1. /\ attempts' \in [count : Nat, start : -Window - 1 .. MaxClock]
        /\ attempts'.count = n + 1 /\ attempts'.start = s
    BY <1>1, <1>3, <1>8 DEF AttemptsInv
  <2>2. attempts'.count <= Cardinality(Since(misses', attempts'.start))
    BY <1>4, <1>5, <1>6, <2>1
  <2> QED
    BY <1>1, <1>2, <1>3, <1>4, <1>6, <2>1, <2>2 DEF AttemptsInv
<1> QED
  BY <1>7, <1>8

LEMMA AttemptsStep ==
  ASSUME AttemptsInv, [AuthNext]_authVars
  PROVE  AttemptsInv'
<1>1. CASE UNCHANGED <<attempts, misses>> /\ clock' \in {clock, clock + 1}
           /\ clock' \in 0 .. MaxClock
           /\ login' \in [Logins -> {"idle", "check", "wrong", "right", "open"}]
  BY <1>1 DEF AttemptsInv
<1>2. CASE AuthTick
  <2>1. clock' \in 0 .. MaxClock
    BY <1>2, AuthConstants DEF AuthTick, AttemptsInv
  <2> QED
    BY <1>1, <1>2, <2>1 DEF AuthTick, AttemptsInv
<1>3. CASE UNCHANGED <<clock, attempts, login, misses>>
  BY <1>1, <1>3 DEF AttemptsInv
<1>4. ASSUME NEW t \in Logins, LoginStep(t) PROVE AttemptsInv'
  <2>1. CASE RecordFailure(t)
    BY <2>1, MissKeeps
  <2>2. CASE ClearFailures(t)
    <3>1. misses' = << >> /\ attempts' = NoWindow /\ clock' = clock
          /\ login' \in [Logins -> {"idle", "check", "wrong", "right", "open"}]
      BY <2>2 DEF ClearFailures, AttemptsInv
    <3>2. misses' \in Seq(0 .. MaxClock)
      BY <3>1
    <3> QED
      BY <3>1, <3>2, Forgotten
  <2>3. CASE AllowAttempt(t)
    <3>1. misses' = misses /\ clock' = clock /\ attempts' \in {NoWindow, attempts}
          /\ login' \in [Logins -> {"idle", "check", "wrong", "right", "open"}]
      BY <2>3 DEF AllowAttempt, AttemptsInv
    <3>2. CASE attempts' = NoWindow
      BY <3>1, <3>2, Forgotten DEF AttemptsInv
    <3>3. CASE attempts' = attempts
      BY <1>1, <3>1, <3>3 DEF AttemptsInv
    <3> QED
      BY <3>1, <3>2, <3>3
  <2>4. CASE BadBody(t) \/ ComparePassword(t) \/ OpenSession(t)
    <3>1. UNCHANGED <<clock, attempts, misses>>
          /\ login' \in [Logins -> {"idle", "check", "wrong", "right", "open"}]
      BY <2>4 DEF BadBody, ComparePassword, OpenSession, AttemptsInv
    <3> QED
      BY <1>1, <3>1 DEF AttemptsInv
  <2> QED
    BY <1>4, <2>1, <2>2, <2>3, <2>4 DEF LoginStep
<1> QED
  BY <1>2, <1>3, <1>4 DEF AuthNext, authVars, RefuseRequest, Logout

(* allowAttempt and recordFailure: an administrator is refused only after    *)
(* Limit wrong passwords within the last window, none followed by a right    *)
(* one.                                                                      *)
THEOREM RefusalsEarnedHolds == AuthSpec => []RefusalsEarned
<1>1. AuthInit => AttemptsInv
  BY AttemptsStart
<1>2. AttemptsInv /\ [AuthNext]_authVars => AttemptsInv'
  BY AttemptsStep
<1>3. ASSUME AttemptsInv PROVE RefusalsEarned
  <2>1. PICK c, s, n, m : c = clock /\ s = attempts.start /\ n = attempts.count /\ m = misses
    OBVIOUS
  <2>2. /\ c \in 0 .. MaxClock /\ s \in -Window - 1 .. MaxClock /\ n \in Nat
        /\ m \in Seq(0 .. MaxClock) /\ n <= Cardinality(Since(m, s))
    BY <1>3, <2>1 DEF AttemptsInv
  <2>3. SUFFICES ASSUME c - s <= Window, n >= Limit
                 PROVE  Cardinality(Since(m, c - Window)) >= Limit
    BY <2>1, <2>2, AuthConstants DEF RefusalsEarned, Expired, BelowLimit, Since
  <2>4. Since(m, s) \subseteq Since(m, c - Window)
    BY <2>2, <2>3, AuthConstants DEF Since
  <2>5. IsFiniteSet(Since(m, c - Window)) /\ Cardinality(Since(m, s)) \in Nat
    BY <2>2, SinceFinite
  <2>6. Cardinality(Since(m, s)) <= Cardinality(Since(m, c - Window))
    BY <2>4, <2>5, FS_Subset
  <2>7. Cardinality(Since(m, c - Window)) \in Nat
    BY <2>2, SinceFinite
  <2> QED
    BY <2>2, <2>3, <2>5, <2>6, <2>7, AuthConstants
<1> QED
  BY <1>1, <1>2, <1>3, PTL DEF AuthSpec

(* How many wrong passwords one window can count: the logins in flight       *)
(* together may all pass the check before the count of any one of them.      *)
Most == Limit - 1 + Cardinality(Logins)

(* The logins that passed the check and may still be counted                 *)
Pending(l) == {t \in Logins : l[t] \in {"check", "wrong"}}

(* The failures of m recorded from time x to time y                          *)
Within(m, x, y) == {i \in DOMAIN m : m[i] \in x .. y}

(* What the counter knows of the failures m at time k.  A running window     *)
(* begins with a failure and counts all that followed; what was recorded     *)
(* before it, or before an expired one, is less than a full window in any    *)
(* span as long as a window, because such a span leaves out the failure that *)
(* began the window.                                                         *)
WindowRuns(n, start, m) ==
  /\ Cardinality(Since(m, start)) <= n
  /\ \E i \in DOMAIN m : m[i] = start
  /\ \A x \in Int : x >= start - Window => Cardinality(Within(m, x, start - 1)) < Most

Over(k, m) ==
  /\ \A i \in DOMAIN m : m[i] < k
  /\ \A x \in Int : x >= k - Window => Cardinality(Since(m, x)) < Most

Covered(n, start, k, m) ==
  /\ \A i \in DOMAIN m : m[i] <= k
  /\ IF k - start > Window THEN Over(k, m) ELSE WindowRuns(n, start, m)
  /\ \A x \in Int : Cardinality(Within(m, x, x + Window)) < 2 * Most

LimitInv ==
  /\ AttemptsInv
  /\ attempts.count + Cardinality(Pending(login)) <= Most
  /\ Covered(attempts.count, attempts.start, clock, misses)

LEMMA MissTimes ==
  ASSUME NEW m \in Seq(0 .. MaxClock)
  PROVE  \A i \in DOMAIN m : m[i] \in Int /\ m[i] \in Nat
<1>1. Len(m) \in Nat /\ DOMAIN m = 1 .. Len(m)
  OBVIOUS
<1>2. \A i \in 1 .. Len(m) : m[i] \in 0 .. MaxClock
  BY ElementOfSeq
<1> QED
  BY <1>1, <1>2, AuthConstants

LEMMA WithinFinite ==
  ASSUME NEW m \in Seq(0 .. MaxClock), NEW x \in Int, NEW y
  PROVE  /\ IsFiniteSet(Within(m, x, y)) /\ Cardinality(Within(m, x, y)) \in Nat
         /\ Within(m, x, y) \subseteq Since(m, x)
         /\ Cardinality(Within(m, x, y)) <= Cardinality(Since(m, x))
<1>1. \A i \in DOMAIN m : m[i] \in Int
  BY MissTimes
<1>2. Within(m, x, y) \subseteq Since(m, x)
  <2>1. CASE y \in Int
    BY <1>1, <2>1 DEF Within, Since
  <2>2. \A i \in DOMAIN m : m[i] \in x .. y => m[i] >= x
    BY <1>1
  <2> QED
    BY <2>2 DEF Within, Since
<1>3. IsFiniteSet(Since(m, x))
  BY SinceFinite
<1> QED
  BY <1>2, <1>3, FS_Subset, FS_CardinalityType

(* One more failure, recorded at time c                                      *)
LEMMA AppendedMiss ==
  ASSUME NEW m \in Seq(0 .. MaxClock), NEW c \in 0 .. MaxClock
  PROVE  /\ Append(m, c) \in Seq(0 .. MaxClock)
         /\ DOMAIN m \subseteq DOMAIN Append(m, c)
         /\ \A i \in DOMAIN m : Append(m, c)[i] = m[i]
         /\ \A i \in DOMAIN Append(m, c) \ DOMAIN m : Append(m, c)[i] = c
         /\ \E i \in DOMAIN Append(m, c) : Append(m, c)[i] = c
<1>1. /\ Append(m, c) \in Seq(0 .. MaxClock) /\ Len(m) \in Nat
      /\ DOMAIN m = 1 .. Len(m) /\ DOMAIN Append(m, c) = 1 .. Len(m) + 1
      /\ \A i \in 1 .. Len(m) : Append(m, c)[i] = m[i]
      /\ Append(m, c)[Len(m) + 1] = c
  OBVIOUS
<1> QED
  BY <1>1

(* Time passes.                                                              *)
LEMMA CoveredLater ==
  ASSUME NEW n \in Nat, NEW s \in Int, NEW k \in 0 .. MaxClock, NEW m \in Seq(0 .. MaxClock),
         NEW l \in Nat, l = k + 1,
         Most \in Nat \ {0}, n <= Most, Covered(n, s, k, m)
  PROVE  Covered(n, s, l, m)
<1>0. /\ \A i \in DOMAIN m : m[i] <= k
      /\ \A x \in Int : Cardinality(Within(m, x, x + Window)) < 2 * Most
  BY DEF Covered
<1>1. /\ \A i \in DOMAIN m : m[i] \in Nat /\ m[i] <= k
      /\ \A x \in Int : Cardinality(Within(m, x, x + Window)) < 2 * Most
      /\ k \in Nat /\ Window \in Nat
  BY <1>0, MissTimes, AuthConstants
<1>2. ASSUME NEW i \in DOMAIN m PROVE m[i] <= l /\ m[i] < l
  <2>1. PICK v \in Nat : v = m[i] /\ v <= k
    BY <1>1
  <2>2. k \in Nat
    OBVIOUS
  <2>3. v <= l /\ v < l
    BY <2>1, <2>2
  <2> QED
    BY <2>1, <2>3
<1>3. CASE k - s > Window
  <2>1. \A x \in Int : x >= k - Window => Cardinality(Since(m, x)) < Most
    BY <1>3 DEF Covered, Over
  <2>2. ASSUME NEW x \in Int, x >= l - Window PROVE Cardinality(Since(m, x)) < Most
    <3>1. x >= k - Window
      BY <1>1, <2>2
    <3> QED
      BY <2>1, <3>1
  <2>3. Over(l, m)
    BY <1>2, <2>2 DEF Over
  <2>4. l - s > Window
    BY <1>1, <1>3
  <2> QED
    BY <1>1, <1>2, <2>3, <2>4 DEF Covered
<1>4. CASE ~(k - s > Window)
  <2>1. WindowRuns(n, s, m)
    BY <1>4 DEF Covered
  <2>2. CASE l - s > Window
    <3>1. ASSUME NEW x \in Int, x >= l - Window PROVE Cardinality(Since(m, x)) < Most
      <4>1. PICK i \in DOMAIN m : m[i] = s
        BY <2>1 DEF WindowRuns
      <4>2. s < x /\ s >= s
        BY <1>1, <1>4, <2>2, <3>1
      <4>3. Since(m, x) \subseteq Since(m, s) \ {i} /\ i \in Since(m, s)
        <5>1. ASSUME NEW v \in Nat PROVE v >= x => v >= s /\ v # s
          BY <4>2
        <5>2. \A j \in DOMAIN m : m[j] >= x => m[j] >= s /\ m[j] # s
          BY <1>1, <5>1
        <5> QED
          BY <4>1, <4>2, <5>2 DEF Since
      <4>4. /\ IsFiniteSet(Since(m, s)) /\ Cardinality(Since(m, s)) \in Nat
            /\ Cardinality(Since(m, x)) \in Nat
        BY SinceFinite
      <4>5. /\ Cardinality(Since(m, s) \ {i}) = Cardinality(Since(m, s)) - 1
            /\ IsFiniteSet(Since(m, s) \ {i})
        BY <4>3, <4>4, FS_RemoveElement
      <4>6. Cardinality(Since(m, x)) <= Cardinality(Since(m, s) \ {i})
        BY <4>3, <4>5, FS_Subset
      <4>7. Cardinality(Since(m, s)) <= n
        BY <2>1 DEF WindowRuns
      <4> QED
        BY <4>4, <4>5, <4>6, <4>7
    <3>2. Over(l, m)
      BY <1>2, <3>1 DEF Over
    <3> QED
      BY <1>1, <1>2, <2>2, <3>2 DEF Covered
  <2>3. CASE ~(l - s > Window)
    BY <1>1, <1>2, <2>1, <2>3 DEF Covered
  <2> QED
    BY <2>2, <2>3
<1> QED
  BY <1>3, <1>4

(* An expired window is as good as none.                                     *)
LEMMA CoveredForgotten ==
  ASSUME NEW n, NEW n2, NEW s \in Int, NEW k \in 0 .. MaxClock, NEW m,
         k - s > Window, Covered(n, s, k, m)
  PROVE  Covered(n2, -Window - 1, k, m)
<1>1. k - (-Window - 1) > Window
  BY AuthConstants
<1> QED
  BY <1>1 DEF Covered

LEMMA CoveredNothing ==
  ASSUME NEW n, NEW k \in 0 .. MaxClock, Most \in Nat \ {0}
  PROVE  Covered(n, -Window - 1, k, << >>)
<1>1. k - (-Window - 1) > Window
  BY AuthConstants
<1>2. \A x, y : Since(<< >>, x) = {} /\ Within(<< >>, x, y) = {}
  BY DEF Since, Within
<1>3. Cardinality({}) = 0
  BY FS_EmptySet
<1>4. 0 < Most /\ 0 < 2 * Most
  OBVIOUS
<1>5. Over(k, << >>)
  <2>1. DOMAIN << >> = {}
    OBVIOUS
  <2>2. \A x : Cardinality(Since(<< >>, x)) < Most
    BY <1>2, <1>3, <1>4
  <2> QED
    BY <2>1, <2>2 DEF Over
<1>6. \A x \in Int : Cardinality(Within(<< >>, x, x + Window)) < 2 * Most
  BY <1>2, <1>3, <1>4
<1> QED
  BY <1>1, <1>5, <1>6 DEF Covered

(* A failure outside of any window begins one.                               *)
LEMMA CoveredOpened ==
  ASSUME NEW n, NEW s \in Int, NEW k \in 0 .. MaxClock, NEW m \in Seq(0 .. MaxClock),
         Most \in Nat \ {0}, k - s > Window, Covered(n, s, k, m)
  PROVE  Covered(1, k, k, Append(m, k))
<1>0. /\ \A i \in DOMAIN m : m[i] < k
      /\ \A x \in Int : x >= k - Window => Cardinality(Since(m, x)) < Most
      /\ \A x \in Int : Cardinality(Within(m, x, x + Window)) < 2 * Most
  BY DEF Covered, Over
<1>1. /\ \A i \in DOMAIN m : m[i] \in Nat /\ m[i] < k
      /\ \A x \in Int : x >= k - Window => Cardinality(Since(m, x)) < Most
      /\ \A x \in Int : Cardinality(Within(m, x, x + Window)) < 2 * Most
      /\ k \in Nat /\ Window \in Nat
  BY <1>0, MissTimes, AuthConstants
<1> DEFINE a == Append(m, k)
<1>2. /\ a \in Seq(0 .. MaxClock) /\ DOMAIN m \subseteq DOMAIN a
      /\ \A i \in DOMAIN m : a[i] = m[i]
      /\ \A i \in DOMAIN a \ DOMAIN m : a[i] = k
      /\ \E i \in DOMAIN a : a[i] = k
  BY AppendedMiss
<1>3. \A x \in Int : x <= k => Cardinality(Since(a, x)) = Cardinality(Since(m, x)) + 1
  BY OneMoreMiss
<1> HIDE DEF a
<1>4. \A i \in DOMAIN a : a[i] <= k
  <2>1. k <= k /\ \A i \in DOMAIN m : m[i] <= k
    BY SMTT(30), <1>1
  <2> QED
    BY <1>2, <2>1
<1>5. WindowRuns(1, k, a)
  <2>1. Since(m, k) = {} /\ Cardinality({}) = 0 /\ k \in Int
    BY SMTT(30), <1>1, FS_EmptySet DEF Since
  <2>2. Cardinality(Since(a, k)) <= 1
    <3>1. k <= k /\ 0 + 1 <= 1
      BY <1>1
    <3> QED
      BY <1>3, <2>1, <3>1
  <2>3. ASSUME NEW x \in Int, x >= k - Window PROVE Cardinality(Within(a, x, k - 1)) < Most
    <3>1. Within(a, x, k - 1) = Within(m, x, k - 1)
      BY <1>1, <1>2 DEF Within
    <3>2. Cardinality(Within(m, x, k - 1)) \in Nat /\ Cardinality(Since(m, x)) \in Nat
          /\ Cardinality(Within(m, x, k - 1)) <= Cardinality(Since(m, x))
      BY WithinFinite, SinceFinite
    <3> QED
      BY SMTT(30), <1>1, <2>3, <3>1, <3>2
  <2> QED
    BY <1>2, <2>2, <2>3 DEF WindowRuns
<1>6. ASSUME NEW x \in Int PROVE Cardinality(Within(a, x, x + Window)) < 2 * Most
  <2>1. CASE x <= k /\ k <= x + Window
    <3>1. /\ Cardinality(Within(a, x, x + Window)) \in Nat
          /\ Cardinality(Since(m, x)) \in Nat
          /\ Cardinality(Within(a, x, x + Window)) <= Cardinality(Since(a, x))
      BY <1>2, WithinFinite, SinceFinite
    <3>2. x >= k - Window
      BY <1>1, <2>1
    <3>3. Cardinality(Since(m, x)) < Most /\ Cardinality(Since(a, x)) = Cardinality(Since(m, x)) + 1
      BY <1>1, <1>3, <2>1, <3>2
    <3> QED
      BY <3>1, <3>3
  <2>2. CASE ~(x <= k /\ k <= x + Window)
    <3>1. k \notin x .. x + Window
      BY <1>1, <2>2
    <3>2. Within(a, x, x + Window) = Within(m, x, x + Window)
      BY <1>2, <3>1 DEF Within
    <3> QED
      BY <1>1, <3>2
  <2> QED
    BY <2>1, <2>2
<1>7. ~(k - k > Window)
  BY <1>1
<1>8. Covered(1, k, k, a)
  BY <1>4, <1>5, <1>6, <1>7 DEF Covered
<1> QED
  BY <1>8 DEF a

(* A failure within a window is counted.                                     *)
LEMMA CoveredCounted ==
  ASSUME NEW n \in Nat, NEW s \in Int, NEW k \in 0 .. MaxClock, NEW m \in Seq(0 .. MaxClock),
         Most \in Nat \ {0}, n + 1 <= Most, s <= k, ~(k - s > Window), Covered(n, s, k, m)
  PROVE  Covered(n + 1, s, k, Append(m, k))
<1>0. /\ \A i \in DOMAIN m : m[i] <= k
      /\ \A x \in Int : Cardinality(Within(m, x, x + Window)) < 2 * Most
      /\ WindowRuns(n, s, m)
  BY DEF Covered
<1>1. /\ \A i \in DOMAIN m : m[i] \in Nat /\ m[i] <= k
      /\ \A x \in Int : Cardinality(Within(m, x, x + Window)) < 2 * Most
      /\ WindowRuns(n, s, m)
      /\ k \in Nat /\ Window \in Nat
  BY <1>0, MissTimes, AuthConstants
<1> DEFINE a == Append(m, k)
<1>2. /\ a \in Seq(0 .. MaxClock) /\ DOMAIN m \subseteq DOMAIN a
      /\ \A i \in DOMAIN m : a[i] = m[i]
      /\ \A i \in DOMAIN a \ DOMAIN m : a[i] = k
  BY AppendedMiss
<1>3. Cardinality(Since(a, s)) = Cardinality(Since(m, s)) + 1
  BY OneMoreMiss
<1> HIDE DEF a
<1>4. \A i \in DOMAIN a : a[i] <= k
  <2>1. k <= k
    BY <1>1
  <2> QED
    BY <1>1, <1>2, <2>1
<1>5. Cardinality(Since(m, s)) <= n /\ Cardinality(Since(m, s)) \in Nat
  BY <1>1, SinceFinite DEF WindowRuns
<1>6. Cardinality(Since(a, s)) <= n + 1 /\ Cardinality(Since(a, s)) \in Nat
      /\ IsFiniteSet(Since(a, s))
  BY <1>2, <1>3, <1>5, SinceFinite
<1>7. ASSUME NEW x \in Int, x >= s - Window
      PROVE  /\ Cardinality(Within(a, x, s - 1)) < Most
             /\ Cardinality(Within(m, x, s - 1)) < Most
  <2>1. k \notin x .. s - 1
    BY <1>1
  <2>2. Within(a, x, s - 1) = Within(m, x, s - 1)
    BY <1>2, <2>1 DEF Within
  <2> QED
    BY <1>1, <1>7, <2>2 DEF WindowRuns
<1>8. WindowRuns(n + 1, s, a)
  <2>1. \E i \in DOMAIN a : a[i] = s
    BY <1>1, <1>2 DEF WindowRuns
  <2> QED
    BY <1>6, <1>7, <2>1 DEF WindowRuns
<1>9. ASSUME NEW x \in Int PROVE Cardinality(Within(a, x, x + Window)) < 2 * Most
  <2>1. CASE ~(x <= k /\ k <= x + Window)
    <3>1. k \notin x .. x + Window
      BY <1>1, <2>1
    <3>2. Within(a, x, x + Window) = Within(m, x, x + Window)
      BY <1>2, <3>1 DEF Within
    <3> QED
      BY <1>1, <3>2
  <2>2. CASE x <= k /\ k <= x + Window
    <3>1. x >= s - Window
      BY <1>1, <2>2
    <3>2. Within(a, x, x + Window) \subseteq Within(m, x, s - 1) \cup Since(a, s)
      <4>1. ASSUME NEW i \in Within(a, x, x + Window), i \notin Since(a, s)
            PROVE  i \in Within(m, x, s - 1)
        <5>1. i \in DOMAIN a /\ a[i] \in x .. x + Window /\ ~(a[i] >= s)
          BY <4>1 DEF Within, Since
        <5>2. i \in DOMAIN m /\ a[i] = m[i]
          BY <1>1, <1>2, <5>1
        <5>3. m[i] \in x .. s - 1
          BY SMTT(30), <1>1, <5>1, <5>2
        <5> QED
          BY <5>2, <5>3 DEF Within
      <4> QED
        BY <4>1
    <3>3. /\ IsFiniteSet(Within(m, x, s - 1)) /\ Cardinality(Within(m, x, s - 1)) \in Nat
          /\ Cardinality(Within(a, x, x + Window)) \in Nat
      BY <1>2, WithinFinite
    <3>4. /\ IsFiniteSet(Within(m, x, s - 1) \cup Since(a, s))
          /\ Cardinality(Within(m, x, s - 1) \cup Since(a, s)) =
               Cardinality(Within(m, x, s - 1)) + Cardinality(Since(a, s))
                 - Cardinality(Within(m, x, s - 1) \cap Since(a, s))
          /\ Cardinality(Within(m, x, s - 1) \cap Since(a, s)) \in Nat
      <4>1. IsFiniteSet(Within(m, x, s - 1) \cap Since(a, s))
        BY <3>3, FS_Intersection
      <4> QED
        BY <1>6, <3>3, <4>1, FS_Union, FS_CardinalityType
    <3>5. Cardinality(Within(a, x, x + Window)) <= Cardinality(Within(m, x, s - 1) \cup Since(a, s))
      BY <3>2, <3>4, FS_Subset
    <3>6. Cardinality(Within(m, x, s - 1)) < Most
      BY <1>7, <3>1
    <3> QED
      BY SMTT(30), <1>6, <3>3, <3>4, <3>5, <3>6
  <2> QED
    BY <2>1, <2>2
<1>10. Covered(n + 1, s, k, a)
  BY <1>4, <1>8, <1>9 DEF Covered
<1> QED
  BY <1>10 DEF a

LEMMA PendingFinite ==
  ASSUME IsFiniteSet(Logins), NEW l
  PROVE  /\ IsFiniteSet(Pending(l)) /\ Cardinality(Pending(l)) \in 0 .. Cardinality(Logins)
         /\ Cardinality(Logins) \in Nat
<1>1. Pending(l) \subseteq Logins
  BY DEF Pending
<1> QED
  BY <1>1, FS_Subset, FS_CardinalityType

(* A login that ends or that proves right is no longer pending.              *)
LEMMA PendingFewer ==
  ASSUME IsFiniteSet(Logins), NEW l, NEW l2, Pending(l2) \subseteq Pending(l)
  PROVE  Cardinality(Pending(l2)) <= Cardinality(Pending(l))
BY PendingFinite, FS_Subset

LEMMA PendingMoves ==
  ASSUME IsFiniteSet(Logins), NEW l \in [Logins -> {"idle", "check", "wrong", "right", "open"}],
         NEW t \in Logins, NEW to
  PROVE  LET l2 == [l EXCEPT ![t] = to]
         IN  /\ to \notin {"check", "wrong"} \/ l[t] \in {"check", "wrong"} =>
                  Cardinality(Pending(l2)) <= Cardinality(Pending(l))
             /\ l[t] \in {"check", "wrong"} /\ to \notin {"check", "wrong"} =>
                  Cardinality(Pending(l2)) = Cardinality(Pending(l)) - 1
             /\ l[t] \notin {"check", "wrong"} /\ to \in {"check", "wrong"} =>
                  /\ Cardinality(Pending(l2)) = Cardinality(Pending(l)) + 1
<1> DEFINE l2 == [l EXCEPT ![t] = to]
<1>1. l2[t] = to /\ \A u \in Logins \ {t} : l2[u] = l[u]
  OBVIOUS
<1>2. IsFiniteSet(Pending(l)) /\ Cardinality(Pending(l)) \in Nat
      /\ IsFiniteSet(Pending(l2)) /\ Cardinality(Pending(l2)) \in Nat
  BY PendingFinite
<1> HIDE DEF l2
<1>3. ASSUME to \notin {"check", "wrong"} \/ l[t] \in {"check", "wrong"}
      PROVE  Cardinality(Pending(l2)) <= Cardinality(Pending(l))
  <2>1. Pending(l2) \subseteq Pending(l)
    BY <1>1, <1>3 DEF Pending
  <2> QED
    BY <2>1, PendingFewer
<1>4. ASSUME l[t] \in {"check", "wrong"}, to \notin {"check", "wrong"}
      PROVE  Cardinality(Pending(l2)) = Cardinality(Pending(l)) - 1
  <2>1. Pending(l2) = Pending(l) \ {t} /\ t \in Pending(l)
    BY <1>1, <1>4 DEF Pending
  <2> QED
    BY <1>2, <2>1, FS_RemoveElement
<1>5. ASSUME l[t] \notin {"check", "wrong"}, to \in {"check", "wrong"}
      PROVE  Cardinality(Pending(l2)) = Cardinality(Pending(l)) + 1
  <2>1. Pending(l2) = Pending(l) \cup {t} /\ t \notin Pending(l)
    BY <1>1, <1>5 DEF Pending
  <2> QED
    BY <1>2, <2>1, FS_AddElement
<1> QED
  BY <1>3, <1>4, <1>5 DEF l2

LEMMA MostCounts ==
  ASSUME IsFiniteSet(Logins), Logins # {}
  PROVE  Most \in Nat \ {0} /\ Cardinality(Logins) <= Most
<1>1. Cardinality(Logins) \in Nat /\ Cardinality(Logins) # 0
  BY FS_CardinalityType, FS_EmptySet
<1> QED
  BY <1>1, AuthConstants DEF Most

LEMMA LimitStart ==
  ASSUME IsFiniteSet(Logins), Logins # {}, AuthInit
  PROVE  LimitInv
<1>1. Pending(login) = {} /\ Cardinality({}) = 0
  BY FS_EmptySet DEF AuthInit, Pending
<1>2. AttemptsInv /\ Most \in Nat \ {0}
  BY AttemptsStart, MostCounts
<1>3. attempts.count = 0 /\ attempts.start = -Window - 1 /\ misses = << >>
  BY DEF AuthInit, NoWindow
<1>4. clock \in 0 .. MaxClock
  BY <1>2 DEF AttemptsInv
<1>5. Covered(attempts.count, attempts.start, clock, misses)
  BY <1>2, <1>3, <1>4, CoveredNothing
<1> QED
  BY <1>1, <1>2, <1>3, <1>5 DEF LimitInv

(* A step of one login                                                       *)
LEMMA LimitLogin ==
  ASSUME IsFiniteSet(Logins), Logins # {}, LimitInv, AttemptsInv', NEW t \in Logins, LoginStep(t)
  PROVE  LimitInv'
<1>1. /\ clock \in 0 .. MaxClock /\ clock \in Nat /\ misses \in Seq(0 .. MaxClock)
      /\ attempts.count \in Nat /\ attempts.start \in Int /\ attempts.start <= clock
      /\ login \in [Logins -> {"idle", "check", "wrong", "right", "open"}]
      /\ Window \in Nat /\ Limit \in Nat
  BY AuthConstants DEF LimitInv, AttemptsInv
<1>2. /\ attempts.count + Cardinality(Pending(login)) <= Most
      /\ Covered(attempts.count, attempts.start, clock, misses)
  BY DEF LimitInv
<1>3. /\ Cardinality(Pending(login)) \in 0 .. Cardinality(Logins)
      /\ Cardinality(Pending(login')) \in 0 .. Cardinality(Logins)
      /\ Cardinality(Logins) \in Nat /\ Cardinality(Logins) <= Most /\ Most \in Nat \ {0}
  BY PendingFinite, MostCounts
<1>4. SUFFICES /\ attempts'.count + Cardinality(Pending(login')) <= Most
               /\ Covered(attempts'.count, attempts'.start, clock', misses')
  BY DEF LimitInv
<1>5. ASSUME attempts' = NoWindow
      PROVE  /\ attempts'.count + Cardinality(Pending(login')) <= Most
             /\ attempts'.start = -Window - 1
  BY <1>3, <1>5 DEF NoWindow
<1>6. CASE AllowAttempt(t)
  <2>1. /\ login[t] = "idle" /\ login' = [login EXCEPT ![t] = "check"]
        /\ clock' = clock /\ misses' = misses
        /\ attempts' = IF Expired THEN NoWindow ELSE attempts
        /\ Expired \/ BelowLimit
    BY <1>6 DEF AllowAttempt
  <2>2. CASE Expired
    BY <1>1, <1>2, <1>5, <2>1, <2>2, CoveredForgotten DEF Expired
  <2>3. CASE ~Expired
    <3>1. attempts' = attempts /\ attempts.count < Limit
      BY <2>1, <2>3 DEF BelowLimit
    <3>2. attempts.count + Cardinality(Pending(login')) <= Most
      BY SMTT(30), <1>1, <1>3, <3>1 DEF Most
    <3> QED
      BY <1>2, <2>1, <3>1, <3>2
  <2> QED
    BY <2>2, <2>3
<1>7. CASE BadBody(t) \/ ComparePassword(t) \/ OpenSession(t)
  <2>1. PICK to : /\ login' = [login EXCEPT ![t] = to]
                  /\ to \notin {"check", "wrong"} \/ login[t] \in {"check", "wrong"}
    BY <1>7 DEF BadBody, ComparePassword, OpenSession
  <2>2. Cardinality(Pending(login')) <= Cardinality(Pending(login))
    BY <1>1, <2>1, PendingMoves
  <2>3. UNCHANGED <<attempts, clock, misses>>
    BY <1>7 DEF BadBody, ComparePassword, OpenSession
  <2>4. attempts.count + Cardinality(Pending(login')) <= Most
    BY <1>1, <1>2, <1>3, <2>2
  <2> QED
    BY <1>2, <2>3, <2>4
<1>8. CASE RecordFailure(t)
  <2>1. /\ login[t] = "wrong" /\ login' = [login EXCEPT ![t] = "idle"]
        /\ attempts' = IF Expired THEN [count |-> 1, start |-> clock]
                       ELSE [attempts EXCEPT !.count = @ + 1]
        /\ clock' = clock /\ misses' = Append(misses, clock)
    BY <1>8 DEF RecordFailure
  <2>2. Cardinality(Pending(login')) = Cardinality(Pending(login)) - 1
    BY <1>1, <2>1, PendingMoves
  <2>3. CASE Expired
    <3>1. attempts'.count = 1 /\ attempts'.start = clock
      BY <2>1, <2>3
    <3>2. Covered(1, clock, clock, Append(misses, clock))
      BY <1>1, <1>2, <1>3, <2>3, CoveredOpened DEF Expired
    <3>3. 1 + Cardinality(Pending(login')) <= Most
      BY <1>3, <2>2
    <3> QED
      BY <2>1, <3>1, <3>2, <3>3
  <2>4. CASE ~Expired
    <3>1. attempts'.count = attempts.count + 1 /\ attempts'.start = attempts.start
      BY <2>1, <2>4 DEF LimitInv, AttemptsInv
    <3>2. attempts.count + 1 + Cardinality(Pending(login')) <= Most
      BY <1>1, <1>2, <1>3, <2>2
    <3>3. attempts.count + 1 <= Most
      BY <1>1, <1>3, <3>2
    <3>4. Covered(attempts.count + 1, attempts.start, clock, Append(misses, clock))
      BY <1>1, <1>2, <1>3, <2>4, <3>3, CoveredCounted DEF Expired
    <3> QED
      BY <2>1, <3>1, <3>2, <3>4
  <2> QED
    BY <2>3, <2>4
<1>9. CASE ClearFailures(t)
  <2>1. attempts' = NoWindow /\ clock' = clock /\ misses' = << >>
    BY <1>9 DEF ClearFailures
  <2> QED
    BY <1>1, <1>3, <1>5, <2>1, CoveredNothing
<1> QED
  BY <1>6, <1>7, <1>8, <1>9 DEF LoginStep

LEMMA LimitStep ==
  ASSUME IsFiniteSet(Logins), Logins # {}, LimitInv, [AuthNext]_authVars
  PROVE  LimitInv'
<1>1. AttemptsInv'
  BY AttemptsStep DEF LimitInv
<1>2. CASE AuthTick
  <2>1. clock' = clock + 1 /\ UNCHANGED <<attempts, misses, login>>
    BY <1>2 DEF AuthTick
  <2>2. /\ clock \in 0 .. MaxClock /\ misses \in Seq(0 .. MaxClock)
        /\ attempts.count \in Nat /\ attempts.start \in Int
        /\ Cardinality(Pending(login)) \in Nat /\ Most \in Nat \ {0}
        /\ attempts.count + Cardinality(Pending(login)) <= Most
    BY PendingFinite, MostCounts, AuthConstants DEF LimitInv, AttemptsInv
  <2>3. attempts.count <= Most
    BY <2>2
  <2>4. Covered(attempts.count, attempts.start, clock + 1, misses)
    <3>1. clock + 1 \in Nat
      BY <2>2
    <3> QED
      BY <2>2, <2>3, <3>1, CoveredLater DEF LimitInv
  <2> QED
    BY <1>1, <2>1, <2>2, <2>4 DEF LimitInv
<1>3. CASE UNCHANGED <<clock, attempts, login, misses>>
  BY <1>1, <1>3 DEF LimitInv
<1>4. ASSUME NEW t \in Logins, LoginStep(t) PROVE LimitInv'
  BY <1>1, <1>4, LimitLogin
<1> QED
  BY <1>2, <1>3, <1>4 DEF AuthNext, authVars, RefuseRequest, Logout

(* Without logins nothing is ever recorded.                                  *)
LEMMA NoLogins ==
  ASSUME Logins = {}
  PROVE  AuthSpec => [](misses = << >>)
<1>1. AuthInit => misses = << >>
  BY DEF AuthInit
<1>2. misses = << >> /\ [AuthNext]_authVars => (misses = << >>)'
  BY DEF AuthNext, AuthTick, RefuseRequest, Logout, authVars
<1> QED
  BY <1>1, <1>2, PTL DEF AuthSpec

(* allowAttempt and recordFailure are two critical sections: however the     *)
(* logins in flight overlap and the windows expire, the limit refuses only   *)
(* who has earned it, and no span as long as a window holds twice as many    *)
(* wrong passwords as one window can count.                                  *)
THEOREM LoginsLimitedHolds ==
  ASSUME IsFiniteSet(Logins)
  PROVE  AuthSpec => []LoginsLimited
<1>1. CASE Logins # {}
  <2>1. AuthInit => LimitInv
    BY <1>1, LimitStart
  <2>2. LimitInv /\ [AuthNext]_authVars => LimitInv'
    BY <1>1, LimitStep
  <2>3. ASSUME LimitInv PROVE FailuresBounded
    <3>1. misses \in Seq(0 .. MaxClock)
      BY <2>3 DEF LimitInv, AttemptsInv
    <3>2. \A i \in DOMAIN misses : misses[i] \in Int
      BY <3>1, MissTimes
    <3>3. \A x \in Int : Cardinality(Within(misses, x, x + Window)) < 2 * Most
      BY <2>3 DEF LimitInv, Covered
    <3> QED
      BY <3>2, <3>3 DEF FailuresBounded, Within, Most
  <2> QED
    BY <2>1, <2>2, <2>3, RefusalsEarnedHolds, PTL DEF AuthSpec, LoginsLimited
<1>2. CASE Logins = {}
  <2>1. misses = << >> => FailuresBounded
    BY DEF FailuresBounded
  <2> QED
    BY <1>2, <2>1, NoLogins, RefusalsEarnedHolds, PTL DEF LoginsLimited
<1> QED
  BY <1>1, <1>2

(* AdminAuth: every login in flight is at a known step, and the counter and  *)
(* the sessions stay within the types they are read with.                    *)
THEOREM AuthTypeCorrect == AuthSpec => []AuthTypeOK
<1>1. AuthInit => SessionsInv /\ AttemptsInv
  BY AttemptsStart DEF AuthInit, SessionsInv, Agreeing, Good
<1>2. SessionsInv /\ AttemptsInv /\ [AuthNext]_authVars => SessionsInv' /\ AttemptsInv'
  BY SessionsStep, AttemptsStep
<1>3. SessionsInv /\ AttemptsInv => AuthTypeOK
  BY DEF SessionsInv, AttemptsInv, AuthTypeOK
<1> QED
  BY <1>1, <1>2, <1>3, PTL DEF AuthSpec

-----------------------------------------------------------------------------
(* The records of requests, in memory and on disk.                           *)

(* Times in whole units of the first digit are ordered on disk as they are in memory. *)
Whole(t) == t % Base = 0

LEMMA WholeIsMultiple ==
  ASSUME NEW t \in Int
  PROVE  Whole(t) <=> \E k \in Int : t = Base * k
<1>1. Base \in Nat /\ Base > 1
  BY UsageConstants
<1>2. t = Base * (t \div Base) + (t % Base) /\ t \div Base \in Int /\ t % Base \in 0 .. Base - 1
  BY <1>1
<1>3. ASSUME NEW k \in Int, t = Base * k PROVE t % Base = 0
  <2>1. PICK m \in Int, z \in Int : m = t % Base /\ z = k - (t \div Base)
    BY <1>2
  <2>2. m = Base * z /\ 0 <= m /\ m < Base
    BY <1>1, <1>2, <1>3, <2>1
  <2>3. z <= 0
    BY <1>1, <2>2
  <2>4. z >= 0
    BY <1>1, <2>2
  <2> QED
    BY <1>1, <2>1, <2>2, <2>3, <2>4
<1>4. ASSUME t % Base = 0 PROVE \E k \in Int : t = Base * k
  <2>1. PICK k \in Int : k = t \div Base
    BY <1>2
  <2>2. t = Base * k
    BY <1>1, <1>2, <1>4, <2>1
  <2> QED
    BY <2>2
<1> QED
  BY <1>3, <1>4 DEF Whole

LEMMA WholeSums ==
  ASSUME NEW t \in Int, NEW u \in Int, Whole(t), Whole(u)
  PROVE  Whole(t + u) /\ Whole(t - u)
<1>1. Base \in Nat
  BY UsageConstants
<1>2. PICK k \in Int : t = Base * k
  BY WholeIsMultiple
<1>3. PICK l \in Int : u = Base * l
  BY WholeIsMultiple
<1>4. t + u = Base * (k + l) /\ t - u = Base * (k - l)
  BY <1>1, <1>2, <1>3
<1> QED
  BY <1>4, WholeIsMultiple

LEMMA WholeText ==
  ASSUME NEW t \in Nat, NEW u \in Nat, Whole(t), Whole(u)
  PROVE  TextBefore(t, u) <=> t < u
<1>1. Base \in Nat /\ Base > 1
  BY UsageConstants
<1>2. Text(t) = <<t \div Base, Base>> /\ Text(u) = <<u \div Base, Base>>
  BY DEF Text, Whole
<1>3. TextBefore(t, u) <=> t \div Base < u \div Base
  <2>1. DOMAIN Text(t) = 1 .. 2 /\ DOMAIN Text(u) = 1 .. 2
    BY <1>2
  <2>2. ASSUME NEW i \in 1 .. 2, Text(t)[i] < Text(u)[i] PROVE i = 1
    BY <1>1, <1>2, <2>2
  <2> QED
    BY <1>2, <2>1, <2>2 DEF TextBefore
<1>4. PICK k \in Int, l \in Int : k = t \div Base /\ l = u \div Base
  BY <1>1
<1>5. t = Base * k /\ u = Base * l
  BY <1>1, <1>4 DEF Whole
<1>6. k < l <=> t < u
  <2>1. ASSUME k < l PROVE t < u
    <3>1. Base * (l - k) > 0
      BY <1>1, <2>1
    <3> QED
      BY <1>1, <1>5, <3>1
  <2>2. ASSUME k >= l PROVE t >= u
    <3>1. Base * (k - l) >= 0
      BY <1>1, <2>2
    <3> QED
      BY <1>1, <1>5, <3>1
  <2> QED
    BY <2>1, <2>2
<1> QED
  BY <1>3, <1>4, <1>6

LEMMA WholeMultiples ==
  ASSUME Step % Base = 0, NEW t \in Int, t % Step = 0
  PROVE  Whole(t)
<1>1. Base \in Nat /\ Base > 1 /\ Step \in Nat /\ Step > 0
  BY UsageConstants
<1>2. PICK k \in Int : Step = Base * k
  BY <1>1, WholeIsMultiple DEF Whole
<1>3. PICK l \in Int : l = t \div Step
  BY <1>1
<1>4. t = Step * l
  BY <1>1, <1>3
<1>5. t = Base * (k * l)
  BY <1>1, <1>2, <1>4
<1> QED
  BY <1>5, WholeIsMultiple

-----------------------------------------------------------------------------
(* Records in the order of their numbers.                                    *)
Numbered(S) == IsFiniteSet(S) /\ S \subseteq Record /\ \A r, s \in S : r.id = s.id => r = s

LEMMA RecordParts ==
  \A r \in Record : r.id \in Nat /\ r.id \in 1 .. MaxRecords /\ r.time \in Start .. MaxTime
                     /\ r.time \in Nat /\ r.details \in BOOLEAN
BY UsageConstants DEF Record

LEMMA PartsNumbered ==
  ASSUME NEW S, Numbered(S), NEW T \in SUBSET S
  PROVE  Numbered(T) /\ Cardinality(T) \in Nat /\ Cardinality(T) <= Cardinality(S)
<1>1. IsFiniteSet(S) /\ IsFiniteSet(T) /\ Cardinality(T) <= Cardinality(S)
  BY FS_Subset DEF Numbered
<1> QED
  BY <1>1, FS_CardinalityType DEF Numbered

(* The newest records are at most Cap: counting the newer ones numbers them.  *)
LEMMA NewestBounded ==
  ASSUME NEW S, Numbered(S)
  PROVE  /\ Newest(S) \subseteq S /\ Numbered(Newest(S))
         /\ Cardinality(Newest(S)) \in 0 .. Cap
<1> DEFINE N == Newest(S)
           f == [r \in N |-> Cardinality(Newer(r, S))]
<1>1. N \subseteq S
  BY DEF Newest
<1>2. ASSUME NEW r \in S
      PROVE  Newer(r, S) \subseteq S /\ Cardinality(Newer(r, S)) \in Nat
  <2>1. Newer(r, S) \subseteq S
    BY DEF Newer
  <2> QED
    BY <2>1, PartsNumbered
<1>3. ASSUME NEW r \in S, NEW s \in S, r.id < s.id
      PROVE  Cardinality(Newer(r, S)) # Cardinality(Newer(s, S))
  <2>1. Newer(s, S) \subseteq Newer(r, S) /\ s \in Newer(r, S) /\ s \notin Newer(s, S)
    BY <1>3, RecordParts DEF Newer, Numbered
  <2>2. IsFiniteSet(Newer(r, S))
    BY <1>2, PartsNumbered DEF Numbered
  <2> QED
    BY <2>1, <2>2, FS_Subset
<1>4. \A r, s \in S : r # s => r.id < s.id \/ s.id < r.id
  BY RecordParts DEF Numbered
<1>5. f \in [N -> 0 .. Cap - 1]
  BY <1>1, <1>2, UsageConstants DEF Newest
<1>6. \A r, s \in N : f[r] = f[s] => r = s
  BY <1>1, <1>3, <1>4
<1> HIDE DEF f, N
<1>7. f \in Injection(N, 0 .. Cap - 1)
  BY <1>5, <1>6 DEF Injection, IsInjective
<1>8. IsFiniteSet(0 .. Cap - 1) /\ Cardinality(0 .. Cap - 1) = Cap
  BY FS_Interval, UsageConstants
<1>9. Cardinality(N) <= Cap
  BY <1>7, <1>8, FS_Injection
<1>10. Numbered(N) /\ Cardinality(N) \in Nat
  BY <1>1, PartsNumbered
<1> QED
  BY <1>1, <1>9, <1>10, UsageConstants DEF N

LEMMA NewestOfFew ==
  ASSUME NEW S, Numbered(S), Cardinality(S) <= Cap
  PROVE  Newest(S) = S
<1>1. ASSUME NEW r \in S PROVE Cardinality(Newer(r, S)) < Cap
  <2>1. Newer(r, S) \subseteq S /\ r \notin Newer(r, S)
    BY RecordParts DEF Newer, Numbered
  <2>2. IsFiniteSet(S) /\ Cardinality(S) \in Nat
    BY FS_CardinalityType DEF Numbered
  <2>3. Cardinality(Newer(r, S)) <= Cardinality(S) /\ Cardinality(Newer(r, S)) # Cardinality(S)
        /\ Cardinality(Newer(r, S)) \in Nat
    BY <2>1, <2>2, FS_Subset, FS_CardinalityType
  <2> QED
    BY <2>2, <2>3, UsageConstants
<1> QED
  BY <1>1 DEF Newest

(* Among fewer records, fewer are newer.                                      *)
LEMMA FewerAreNewer ==
  ASSUME NEW S, Numbered(S), NEW R, Numbered(R), \A r \in R : \E s \in S : s.id = r.id,
         NEW r \in R, NEW s \in S, r.id = s.id
  PROVE  Cardinality(Newer(r, R)) <= Cardinality(Newer(s, S))
<1> DEFINE f == [x \in Newer(r, R) |-> CHOOSE y \in S : y.id = x.id]
<1>1. ASSUME NEW x \in Newer(r, R) PROVE f[x] \in S /\ f[x].id = x.id /\ x \in R /\ f[x].id > s.id
  BY DEF Newer
<1>2. f \in [Newer(r, R) -> Newer(s, S)]
  BY <1>1 DEF Newer
<1>3. \A x, y \in Newer(r, R) : f[x] = f[y] => x = y
  BY <1>1 DEF Numbered
<1> HIDE DEF f
<1>4. f \in Injection(Newer(r, R), Newer(s, S))
  BY <1>2, <1>3 DEF Injection, IsInjective
<1>5. IsFiniteSet(Newer(s, S))
  BY FS_Subset DEF Newer, Numbered
<1> QED
  BY <1>4, <1>5, FS_Injection

(* Clearing details keeps the numbers and the times.                          *)
LEMMA ClearedNumbered ==
  ASSUME NEW S, Numbered(S), NEW which
  PROVE  LET C == Cleared(S, which) IN
           /\ Numbered(C) /\ Cardinality(C) <= Cardinality(S)
           /\ \A c \in C : \E r \in S : r.id = c.id /\ r.time = c.time
           /\ \A r \in S : \E c \in C : r.id = c.id /\ r.time = c.time
<1> DEFINE C == Cleared(S, which)
           f == [r \in S |-> IF r.id \in which THEN [r EXCEPT !.details = FALSE] ELSE r]
<1>1. ASSUME NEW r \in S PROVE f[r] \in Record /\ f[r].id = r.id /\ f[r].time = r.time
  <2>1. r \in Record
    BY DEF Numbered
  <2>2. [r EXCEPT !.details = FALSE] \in Record /\ [r EXCEPT !.details = FALSE].id = r.id
        /\ [r EXCEPT !.details = FALSE].time = r.time
    BY <2>1 DEF Record
  <2> QED
    BY <2>1, <2>2
<1>2. C = {f[r] : r \in S}
  BY DEF Cleared
<1>3. DOMAIN f = S
  OBVIOUS
<1>4. f \in [S -> C]
  BY <1>2
<1> HIDE DEF f, C
<1>5. f \in Surjection(S, C)
  BY <1>2, <1>4 DEF Surjection
<1>6. IsFiniteSet(C) /\ Cardinality(C) <= Cardinality(S)
  BY <1>5, FS_Surjection DEF Numbered
<1>7. C \subseteq Record /\ \A c, d \in C : c.id = d.id => c = d
  BY <1>1, <1>2 DEF Numbered
<1>8. /\ \A c \in C : \E r \in S : r.id = c.id /\ r.time = c.time
      /\ \A r \in S : \E c \in C : r.id = c.id /\ r.time = c.time
  BY <1>1, <1>2
<1>9. Numbered(C)
  BY <1>6, <1>7 DEF Numbered
<1> QED
  BY <1>6, <1>8, <1>9 DEF C

-----------------------------------------------------------------------------
(***************************************************************************)
(* The request records.  The memory, the table and the history are         *)
(* numbered, a row is a record whose RecordUsage succeeded, and the stored *)
(* counter counts every row.                                               *)
(***************************************************************************)
UsageInv ==
  /\ TypeOK
  /\ Numbered(usage) /\ Numbered(disk.rows) /\ Numbered(saved)
  /\ \A r \in usage \cup disk.rows \cup saved : r.id <= recorded
  /\ \A row \in disk.rows : \E r \in saved : r.id = row.id /\ r.time = row.time
  /\ Cardinality(disk.rows) <= disk.count

LEMMA DiskParts ==
  ASSUME TypeOK
  PROVE  /\ disk.rows \subseteq Record /\ disk.count \in 0 .. count
         /\ \A rows : /\ [disk EXCEPT !.rows = rows].rows = rows
                      /\ [disk EXCEPT !.rows = rows].count = disk.count
         /\ \A n : /\ [disk EXCEPT !.count = n].rows = disk.rows
                   /\ [disk EXCEPT !.count = n].count = n
BY DEF TypeOK

(* What an operation makes of the disk keeps the invariant, if the rows that *)
(* it leaves are numbered, were saved and are counted.                       *)
LEMMA UsageKept ==
  ASSUME TypeOK', Numbered(usage'), Numbered(disk'.rows), Numbered(saved'),
         \A r \in usage' \cup disk'.rows \cup saved' : r.id <= recorded',
         \A row \in disk'.rows : \E r \in saved' : r.id = row.id /\ r.time = row.time,
         Cardinality(disk'.rows) <= disk'.count
  PROVE  UsageInv'
BY DEF UsageInv, Numbered

(* A new record.                                                             *)
LEMMA RecordSays ==
  ASSUME UsageInv, RecordUsage
  PROVE  \E r \in Record :
           /\ r.id = recorded + 1 /\ r.time \in {now, now - Step}
           /\ usage' = Newest(usage \cup {r}) /\ count' = count + 1
           /\ recorded' = recorded + 1 /\ recorded' \in 1 .. MaxRecords
           /\ \/ /\ disk' = [rows |-> Compacted(disk.rows \cup {r}, Cardinality(usage) = Cap),
                             count |-> count + 1]
                 /\ saved' = saved \cup {r} /\ failures' = failures
              \/ /\ disk' = disk /\ saved' = saved
                 /\ failures < MaxFailures /\ failures' = failures + 1
           /\ UNCHANGED <<now, cutoff, misread, restarts>>
<1>1. PICK t \in {now, now - Step} \cap (Start .. MaxTime), details \in BOOLEAN :
        LET r == [id |-> recorded + 1, time |-> t, details |-> details]
        IN  /\ usage' = Newest(usage \cup {r}) /\ count' = count + 1
            /\ \/ /\ disk' = [rows |-> Compacted(disk.rows \cup {r}, Cardinality(usage) = Cap),
                              count |-> count + 1]
                  /\ saved' = saved \cup {r} /\ failures' = failures
               \/ /\ disk' = disk /\ saved' = saved
                  /\ failures < MaxFailures /\ failures' = failures + 1
  BY DEF RecordUsage, RolledBack
<1> DEFINE r == [id |-> recorded + 1, time |-> t, details |-> details]
<1>2. recorded \in 0 .. MaxRecords /\ recorded < MaxRecords /\ recorded' = recorded + 1
  BY DEF UsageInv, TypeOK, RecordUsage
<1>3. recorded' \in 1 .. MaxRecords
  BY <1>2, UsageConstants
<1>4. r \in Record /\ r.id = recorded + 1 /\ r.time = t
  BY <1>2, <1>3 DEF Record
<1>5. UNCHANGED <<now, cutoff, misread, restarts>>
  BY DEF RecordUsage
<1> HIDE DEF r
<1>6. /\ usage' = Newest(usage \cup {r}) /\ count' = count + 1
      /\ \/ /\ disk' = [rows |-> Compacted(disk.rows \cup {r}, Cardinality(usage) = Cap),
                        count |-> count + 1]
            /\ saved' = saved \cup {r} /\ failures' = failures
         \/ /\ disk' = disk /\ saved' = saved
            /\ failures < MaxFailures /\ failures' = failures + 1
  BY <1>1 DEF r
<1> QED
  BY <1>2, <1>3, <1>4, <1>5, <1>6

LEMMA Appended ==
  ASSUME UsageInv, NEW r \in Record, r.id = recorded + 1,
         NEW S, Numbered(S), \A s \in S : s.id <= recorded
  PROVE  /\ Numbered(S \cup {r}) /\ \A s \in S \cup {r} : s.id <= recorded + 1
         /\ Cardinality(S \cup {r}) = Cardinality(S) + 1 /\ Cardinality(S) \in Nat
<1>1. recorded \in Nat
  BY UsageConstants DEF UsageInv, TypeOK
<1>2. \A s \in S : s.id \in Nat /\ s.id # r.id
  BY <1>1, RecordParts DEF Numbered
<1>3. r \notin S
  BY <1>2
<1>4. IsFiniteSet(S \cup {r}) /\ Cardinality(S \cup {r}) = Cardinality(S) + 1 /\ Cardinality(S) \in Nat
  BY <1>3, FS_AddElement, FS_CardinalityType DEF Numbered
<1>5. \A x, y \in S \cup {r} : x.id = y.id => x = y
  BY <1>2 DEF Numbered
<1>6. S \cup {r} \subseteq Record
  BY DEF Numbered
<1> QED
  BY <1>1, <1>2, <1>4, <1>5, <1>6 DEF Numbered

LEMMA RecordKeeps == ASSUME UsageInv, RecordUsage PROVE UsageInv'
<1>1. PICK r \in Record :
           /\ r.id = recorded + 1 /\ r.time \in {now, now - Step}
           /\ usage' = Newest(usage \cup {r}) /\ count' = count + 1
           /\ recorded' = recorded + 1 /\ recorded' \in 1 .. MaxRecords
           /\ \/ /\ disk' = [rows |-> Compacted(disk.rows \cup {r}, Cardinality(usage) = Cap),
                             count |-> count + 1]
                 /\ saved' = saved \cup {r} /\ failures' = failures
              \/ /\ disk' = disk /\ saved' = saved
                 /\ failures < MaxFailures /\ failures' = failures + 1
           /\ UNCHANGED <<now, cutoff, misread, restarts>>
  BY RecordSays
<1>2. /\ TypeOK /\ Numbered(usage) /\ Numbered(disk.rows) /\ Numbered(saved)
      /\ \A x \in usage \cup disk.rows \cup saved : x.id <= recorded
      /\ \A row \in disk.rows : \E x \in saved : x.id = row.id /\ x.time = row.time
      /\ Cardinality(disk.rows) <= disk.count
  BY DEF UsageInv
<1>3. recorded \in Nat /\ count \in 0 .. recorded /\ disk.count \in 0 .. count
  BY <1>2, UsageConstants, DiskParts DEF TypeOK
<1>4. /\ Numbered(usage') /\ Cardinality(usage') \in 0 .. Cap
      /\ \A x \in usage' : x.id <= recorded'
  <2>1. Numbered(usage \cup {r}) /\ \A x \in usage \cup {r} : x.id <= recorded + 1
    BY <1>1, <1>2, Appended
  <2> QED
    BY <1>1, <2>1, NewestBounded
<1>5. /\ Numbered(saved') /\ \A x \in saved' : x.id <= recorded'
  <2>1. CASE saved' = saved \cup {r}
    BY <1>1, <1>2, <2>1, Appended
  <2>2. CASE saved' = saved
    BY <1>1, <1>2, <1>3, <2>2, RecordParts DEF Numbered
  <2> QED
    BY <1>1, <2>1, <2>2
<1>6. /\ Numbered(disk'.rows) /\ \A x \in disk'.rows : x.id <= recorded'
      /\ disk' \in [rows : SUBSET Record, count : 0 .. count']
      /\ \A row \in disk'.rows : \E x \in saved' : x.id = row.id /\ x.time = row.time
      /\ Cardinality(disk'.rows) <= disk'.count
  <2>1. CASE disk' = disk /\ saved' = saved
    <3>1. \A x \in disk.rows : x.id <= recorded + 1
      BY <1>2, <1>3, RecordParts DEF Numbered
    <3>2. disk \in [rows : SUBSET Record, count : 0 .. count + 1]
      BY <1>2, <1>3 DEF TypeOK
    <3> QED
      BY <1>1, <1>2, <2>1, <3>1, <3>2
  <2>2. CASE /\ disk' = [rows |-> Compacted(disk.rows \cup {r}, Cardinality(usage) = Cap),
                         count |-> count + 1]
             /\ saved' = saved \cup {r}
    <3>1. PICK rows : rows = Compacted(disk.rows \cup {r}, Cardinality(usage) = Cap)
      OBVIOUS
    <3>2. Numbered(disk.rows \cup {r}) /\ (\A x \in disk.rows \cup {r} : x.id <= recorded + 1)
          /\ Cardinality(disk.rows \cup {r}) = Cardinality(disk.rows) + 1
          /\ Cardinality(disk.rows) \in Nat
      BY <1>1, <1>2, Appended
    <3>3. rows \subseteq disk.rows \cup {r}
      BY <3>1, <3>2, NewestBounded DEF Compacted
    <3>4. Numbered(rows) /\ Cardinality(rows) \in Nat
          /\ Cardinality(rows) <= Cardinality(disk.rows \cup {r})
      BY <3>2, <3>3, PartsNumbered
    <3>5. Cardinality(rows) <= count + 1
      BY <1>2, <1>3, <3>2, <3>4
    <3>6. rows \subseteq Record /\ count + 1 \in 0 .. count + 1
      BY <1>3, <3>4 DEF Numbered
    <3>7. disk' = [rows |-> rows, count |-> count + 1]
      BY <2>2, <3>1
    <3>8. \A row \in rows : \E x \in saved' : x.id = row.id /\ x.time = row.time
      BY <1>2, <2>2, <3>3
    <3> QED
      BY <1>1, <3>2, <3>3, <3>4, <3>5, <3>6, <3>7, <3>8
  <2> QED
    BY <1>1, <2>1, <2>2
<1>7. TypeOK'
  <2>1. usage' \subseteq Record /\ saved' \subseteq Record
    BY <1>4, <1>5 DEF Numbered
  <2>2. Cardinality(usage') <= Cap
    BY <1>4, UsageConstants
  <2>3. count' \in 0 .. recorded' /\ recorded' \in 0 .. MaxRecords
    BY <1>1, <1>3
  <2>4. failures' \in 0 .. MaxFailures
    BY <1>1, <1>2, UsageConstants DEF TypeOK
  <2>5. misread' \subseteq 1 .. recorded'
    BY <1>1, <1>2, <1>3 DEF TypeOK
  <2> QED
    BY <1>1, <1>2, <1>6, <2>1, <2>2, <2>3, <2>4, <2>5 DEF TypeOK
<1>8. \A x \in usage' \cup disk'.rows \cup saved' : x.id <= recorded'
  BY <1>4, <1>5, <1>6
<1> QED
  BY <1>4, <1>5, <1>6, <1>7, <1>8, UsageKept

(* A clean-up changes no counter and leaves the records that it does not     *)
(* remove with their numbers and times.                                      *)
LEMMA CleanUpKeeps ==
  ASSUME UsageInv, NEW rows, Numbered(rows), NEW kept, Numbered(kept),
         Cardinality(rows) <= Cardinality(disk.rows), Cardinality(kept) <= Cap,
         \A x \in rows : \E y \in disk.rows : y.id = x.id /\ y.time = x.time,
         \A x \in kept : \E y \in usage : y.id = x.id,
         disk' = [disk EXCEPT !.rows = rows], usage' = kept,
         cutoff' \in 0 .. MaxTime, misread' \subseteq 1 .. recorded,
         UNCHANGED <<failures, now, count, recorded, saved, restarts>>
  PROVE  UsageInv'
<1>1. /\ TypeOK /\ Numbered(usage) /\ Numbered(disk.rows) /\ Numbered(saved)
      /\ \A x \in usage \cup disk.rows \cup saved : x.id <= recorded
      /\ \A row \in disk.rows : \E x \in saved : x.id = row.id /\ x.time = row.time
      /\ Cardinality(disk.rows) <= disk.count
  BY DEF UsageInv
<1>2. disk'.rows = rows /\ disk'.count = disk.count
  BY <1>1, DiskParts
<1>3. rows \subseteq Record /\ kept \subseteq Record
  BY DEF Numbered
<1>4. disk' \in [rows : SUBSET Record, count : 0 .. count]
  BY <1>1, <1>3 DEF TypeOK
<1>5. TypeOK'
  BY <1>1, <1>3, <1>4 DEF TypeOK
<1>6. \A x \in kept \cup rows \cup saved : x.id <= recorded
  BY <1>1
<1>7. \A row \in rows : \E x \in saved : x.id = row.id /\ x.time = row.time
  BY <1>1
<1>8. Cardinality(rows) <= disk.count
  <2>1. disk.count \in Nat /\ Cardinality(rows) \in Nat /\ Cardinality(disk.rows) \in Nat
    BY <1>1, DiskParts, PartsNumbered DEF TypeOK
  <2> QED
    BY <1>1, <2>1
<1> QED
  BY <1>1, <1>2, <1>5, <1>6, <1>7, <1>8, UsageKept

(* A clean-up misjudges rows that exist; the others it judges by the clock.   *)
LEMMA MisjudgedExist ==
  ASSUME UsageInv, NEW c
  PROVE  Misjudged(c) \subseteq 1 .. recorded
<1>1. \A r \in disk.rows : r.id \in 1 .. recorded
  BY RecordParts DEF UsageInv, Numbered
<1> QED
  BY <1>1 DEF Misjudged

LEMMA Judged ==
  ASSUME NEW c, NEW r \in disk.rows, r.id \notin Misjudged(c)
  PROVE  TextBefore(r.time, c) <=> r.time < c
<1>1. ~(TextBefore(r.time, c) # (r.time < c))
  BY Zenon DEF Misjudged
<1> QED
  BY <1>1, Zenon

LEMMA UsageStep == UsageInv /\ [Next]_vars => UsageInv'
<1> SUFFICES ASSUME UsageInv, [Next]_vars PROVE UsageInv'
  OBVIOUS
<1>1. /\ TypeOK /\ Numbered(usage) /\ Numbered(disk.rows) /\ Numbered(saved)
      /\ \A x \in usage \cup disk.rows \cup saved : x.id <= recorded
      /\ \A row \in disk.rows : \E x \in saved : x.id = row.id /\ x.time = row.time
      /\ Cardinality(disk.rows) <= disk.count
  BY DEF UsageInv
<1>2. CASE Tick
  <2>1. now' \in Start .. MaxTime
    BY <1>1, <1>2, UsageConstants DEF Tick, TypeOK
  <2> QED
    BY <1>1, <1>2, <2>1 DEF Tick, history, UsageInv, TypeOK
<1>3. CASE RecordUsage
  BY <1>3, RecordKeeps
<1>4. ASSUME UNCHANGED <<now, usage, count, disk, recorded, saved, cutoff, misread, restarts>>,
             failures' \in 0 .. MaxFailures
      PROVE  UsageInv'
  BY <1>1, <1>4 DEF UsageInv, TypeOK
<1>5. ASSUME Fails PROVE failures' \in 0 .. MaxFailures
  BY <1>1, <1>5, UsageConstants DEF Fails, TypeOK
<1>6. /\ Cardinality(usage) <= Cap /\ cutoff \in 0 .. MaxTime /\ now \in Start .. MaxTime
      /\ misread \subseteq 1 .. recorded
  BY <1>1 DEF TypeOK
<1>7. ASSUME NEW c \in Start .. now - Retention, DeleteUsageRecordsBefore(c) PROVE UsageInv'
  <2> DEFINE kept == {r \in usage : r.time >= c}
  <2>1. CASE UNCHANGED vars
    BY <1>1, <1>4, <2>1 DEF vars, history, TypeOK
  <2>2. CASE /\ disk' = [disk EXCEPT !.rows = RowsKept(c)] /\ usage' = kept
             /\ cutoff' = IF c > cutoff THEN c ELSE cutoff
             /\ misread' = misread \cup Misjudged(c)
             /\ UNCHANGED <<failures, now, count, recorded, saved, restarts>>
    <3>1. RowsKept(c) \subseteq disk.rows /\ kept \subseteq usage
      BY DEF RowsKept
    <3>2. /\ Numbered(RowsKept(c)) /\ Cardinality(RowsKept(c)) <= Cardinality(disk.rows)
          /\ Numbered(kept) /\ Cardinality(kept) <= Cap
      <4>1. Cardinality(kept) <= Cardinality(usage) /\ Cardinality(kept) \in Nat
            /\ Cardinality(usage) \in Nat /\ Numbered(kept)
        BY <1>1, <3>1, PartsNumbered
      <4> QED
        BY <1>1, <1>6, <3>1, <4>1, PartsNumbered, UsageConstants
    <3>3. cutoff' \in 0 .. MaxTime
      BY <1>6, <2>2, UsageConstants
    <3>4. misread' \subseteq 1 .. recorded
      BY <1>1, <1>6, <2>2, MisjudgedExist
    <3> QED
      BY <2>2, <3>1, <3>2, <3>3, <3>4, CleanUpKeeps
  <2>3. CASE Fails /\ UNCHANGED <<usage, cutoff, misread, now, count, recorded, saved, restarts>>
    BY <1>4, <1>5, <2>3 DEF Fails
  <2> QED
    BY <1>7, <2>1, <2>2, <2>3 DEF DeleteUsageRecordsBefore
<1>8. ASSUME NEW c, ClearUsageDetailsBefore(c) PROVE UsageInv'
  <2> DEFINE changed == {r.id : r \in {s \in usage : s.time < c /\ s.details}}
  <2> HIDE DEF changed
  <2>1. CASE UNCHANGED vars
    BY <1>1, <1>4, <2>1 DEF vars, history, TypeOK
  <2>2. CASE /\ disk' = [disk EXCEPT !.rows = RowsCleared(changed)]
             /\ usage' = Cleared(usage, changed)
             /\ UNCHANGED <<failures, now, count, recorded, saved, cutoff, misread, restarts>>
    <3>1. PICK rows, kept : rows = Cleared(disk.rows, changed) /\ kept = Cleared(usage, changed)
      OBVIOUS
    <3>2. /\ Numbered(rows) /\ Cardinality(rows) <= Cardinality(disk.rows)
          /\ \A x \in rows : \E y \in disk.rows : y.id = x.id /\ y.time = x.time
          /\ Numbered(kept) /\ Cardinality(kept) <= Cardinality(usage)
          /\ \A x \in kept : \E y \in usage : y.id = x.id
      BY <1>1, <3>1, ClearedNumbered
    <3>3. Cardinality(kept) <= Cap
      <4>1. Cardinality(kept) \in Nat /\ Cardinality(usage) \in Nat
        BY <1>1, <3>2, PartsNumbered
      <4> QED
        BY <1>6, <3>2, <4>1, UsageConstants
    <3>4. /\ disk' = [disk EXCEPT !.rows = rows] /\ usage' = kept /\ cutoff' \in 0 .. MaxTime
          /\ misread' \subseteq 1 .. recorded
      BY <1>6, <2>2, <3>1 DEF RowsCleared
    <3> QED
      BY <2>2, <3>2, <3>3, <3>4, CleanUpKeeps
  <2>3. CASE Fails /\ UNCHANGED <<usage, now, count, recorded, saved, cutoff, misread, restarts>>
    BY <1>4, <1>5, <2>3 DEF Fails
  <2> QED
    BY <1>8, <2>1, <2>2, <2>3 DEF ClearUsageDetailsBefore, history, changed
<1>9. CASE CleanUp
  <2>1. PICK c \in Start .. now - Retention : DeleteUsageRecordsBefore(c) \/ ClearUsageDetailsBefore(c)
    BY <1>9 DEF CleanUp
  <2> QED
    BY <1>7, <1>8, <2>1
<1>10. CASE SaveElsewhere
  <2>1. disk'.rows = disk.rows /\ disk'.count = count
    BY <1>1, <1>10, DiskParts DEF SaveElsewhere
  <2>2. count \in Nat /\ disk.count \in 0 .. count /\ Cardinality(disk.rows) \in Nat
    BY <1>1, DiskParts, PartsNumbered, UsageConstants DEF TypeOK
  <2>3. disk' \in [rows : SUBSET Record, count : 0 .. count]
    BY <1>1, <1>10, <2>2 DEF SaveElsewhere, TypeOK
  <2>4. TypeOK'
    BY <1>1, <1>10, <2>3 DEF SaveElsewhere, history, TypeOK
  <2>5. Cardinality(disk.rows) <= count
    BY <1>1, <2>2
  <2> QED
    BY <1>1, <1>10, <2>1, <2>4, <2>5, UsageKept DEF SaveElsewhere, history
<1>11. CASE Restart
  <2>1. /\ usage' = Newest(disk.rows) /\ count' = disk.count /\ restarts' = restarts + 1
        /\ UNCHANGED <<now, disk, recorded, saved, cutoff, misread, failures>>
        /\ restarts < MaxRestarts
    BY <1>11 DEF Restart, history
  <2>2. Newest(disk.rows) \subseteq disk.rows /\ Numbered(Newest(disk.rows))
        /\ Cardinality(Newest(disk.rows)) \in 0 .. Cap
    BY <1>1, NewestBounded
  <2>3. disk \in [rows : SUBSET Record, count : 0 .. disk.count] /\ disk.count \in 0 .. recorded
    <3>1. disk.count \in 0 .. count /\ count \in 0 .. recorded
      BY <1>1, DiskParts DEF TypeOK
    <3> QED
      BY <1>1, <3>1 DEF TypeOK
  <2>4. restarts' \in 0 .. MaxRestarts
    BY <1>1, <2>1, UsageConstants DEF TypeOK
  <2>5. usage' \subseteq Record /\ Cardinality(usage') <= Cap
    BY <2>1, <2>2, UsageConstants DEF Numbered
  <2>6. TypeOK'
    BY <1>1, <2>1, <2>3, <2>4, <2>5 DEF TypeOK
  <2>7. /\ Numbered(usage') /\ Numbered(disk'.rows) /\ Numbered(saved')
        /\ \A x \in usage' \cup disk'.rows \cup saved' : x.id <= recorded'
        /\ \A row \in disk'.rows : \E x \in saved' : x.id = row.id /\ x.time = row.time
        /\ Cardinality(disk'.rows) <= disk'.count
    BY <1>1, <2>1, <2>2
  <2> QED
    BY <2>6, <2>7, UsageKept
<1>12. CASE UNCHANGED vars
  BY <1>1, <1>4, <1>12 DEF vars, history, TypeOK
<1> QED
  BY <1>2, <1>3, <1>9, <1>10, <1>11, <1>12 DEF Next

LEMMA UsageStart == Init => UsageInv
<1> SUFFICES ASSUME Init PROVE UsageInv
  OBVIOUS
<1>1. Numbered({}) /\ Cardinality({}) = 0
  BY FS_EmptySet DEF Numbered
<1>2. disk = [rows |-> {}, count |-> 0]
  BY DEF Init
<1>3. disk.rows = {} /\ disk.count = 0 /\ disk \in [rows : SUBSET Record, count : 0 .. 0]
  BY <1>2
<1>4. TypeOK
  BY <1>1, <1>3, UsageConstants DEF Init, TypeOK
<1> QED
  BY <1>1, <1>3, <1>4 DEF Init, UsageInv

LEMMA UsageHolds == Spec => []UsageInv
BY UsageStart, UsageStep, PTL DEF Spec

(* The memory, the table and the counters keep their types; the memory holds at most Cap  *)
(* records after any recording, clean-up, failure and restart.                            *)
THEOREM UsageTypeCorrect == Spec => []TypeOK
<1>1. UsageInv => TypeOK
  BY DEF UsageInv
<1> QED
  BY <1>1, UsageHolds, PTL

-----------------------------------------------------------------------------
(***************************************************************************)
(* As long as no transaction failed and no clean-up misjudged a row, the   *)
(* table holds what the memory holds.                                      *)
(***************************************************************************)
InStep == failures = 0 /\ misread = {} => usage = disk.rows

LEMMA HistoryGrows ==
  ASSUME UsageInv, [Next]_vars
  PROVE  /\ misread \subseteq misread'
         /\ failures \in Nat /\ (failures' = 0 => failures = 0)
<1>1. failures \in Nat
  BY UsageConstants DEF UsageInv, TypeOK
<1>2. ASSUME NEW c, DeleteUsageRecordsBefore(c)
      PROVE  misread \subseteq misread' /\ failures' \in {failures, failures + 1}
  BY <1>2 DEF DeleteUsageRecordsBefore, Fails, vars, history
<1>3. ASSUME NEW c, ClearUsageDetailsBefore(c)
      PROVE  misread \subseteq misread' /\ failures' \in {failures, failures + 1}
  BY <1>3 DEF ClearUsageDetailsBefore, Fails, vars, history
<1>4. misread \subseteq misread' /\ failures' \in {failures, failures + 1}
  BY <1>2, <1>3 DEF Next, Tick, RecordUsage, CleanUp, SaveElsewhere, Restart, vars, history
<1> QED
  BY <1>1, <1>4

LEMMA InStepStep ==
  ASSUME UsageInv, InStep, [Next]_vars
  PROVE  InStep'
<1> SUFFICES ASSUME failures' = 0, misread' = {} PROVE usage' = disk'.rows
  BY DEF InStep
<1>1. TypeOK /\ Numbered(usage) /\ Cardinality(usage) <= Cap
  BY DEF UsageInv, TypeOK
<1>2. failures \in Nat /\ failures = 0 /\ misread = {}
  BY HistoryGrows
<1>3. usage = disk.rows
  BY <1>2 DEF InStep
<1>4. CASE RecordUsage
  <2>0. PICK r \in Record :
           /\ r.id = recorded + 1
           /\ usage' = Newest(usage \cup {r})
           /\ \/ /\ disk' = [rows |-> Compacted(disk.rows \cup {r}, Cardinality(usage) = Cap),
                             count |-> count + 1]
                 /\ failures' = failures
              \/ failures' = failures + 1
    BY <1>4, RecordSays
  <2>1. /\ disk' = [rows |-> Compacted(disk.rows \cup {r}, Cardinality(usage) = Cap),
                    count |-> count + 1]
        /\ failures = 0
        /\ r.id = recorded + 1 /\ usage' = Newest(usage \cup {r})
    <3>1. failures + 1 # 0
      BY <1>2
    <3> QED
      BY <2>0, <3>1
  <2>2. disk'.rows = Compacted(usage \cup {r}, Cardinality(usage) = Cap)
    BY <1>3, <2>1
  <2>3. CASE Cardinality(usage) = Cap
    BY <2>1, <2>2, <2>3 DEF Compacted
  <2>4. CASE Cardinality(usage) # Cap
    <3>1. Numbered(usage \cup {r}) /\ Cardinality(usage \cup {r}) = Cardinality(usage) + 1
          /\ Cardinality(usage) \in Nat
      BY <2>1, Appended DEF UsageInv
    <3>2. Cardinality(usage \cup {r}) <= Cap
      BY <1>1, <2>4, <3>1, UsageConstants
    <3>3. Newest(usage \cup {r}) = usage \cup {r}
      BY <3>1, <3>2, NewestOfFew
    <3> QED
      BY <2>1, <2>2, <2>4, <3>3 DEF Compacted
  <2> QED
    BY <2>3, <2>4
<1>5. ASSUME NEW c \in Start .. now - Retention, (now - c) % Step = 0, DeleteUsageRecordsBefore(c)
      PROVE  usage' = disk'.rows
  <2>1. CASE UNCHANGED vars
    BY <1>3, <2>1 DEF vars, history
  <2>2. CASE disk' = [disk EXCEPT !.rows = RowsKept(c)] /\ usage' = {r \in usage : r.time >= c}
             /\ misread' = misread \cup Misjudged(c)
    <3>1. \A r \in disk.rows : TextBefore(r.time, c) <=> r.time < c
      BY <2>2, Judged
    <3>2. \A r \in disk.rows : r.time \in Nat /\ c \in Int
      BY <1>1, <1>3, RecordParts, UsageConstants DEF Numbered, TypeOK
    <3>3. RowsKept(c) = {r \in disk.rows : r.time >= c}
      BY <3>1, <3>2 DEF RowsKept
    <3>4. disk'.rows = RowsKept(c)
      BY <1>1, <2>2, DiskParts
    <3> QED
      BY <1>3, <2>2, <3>3, <3>4
  <2>3. ~Fails
    BY <1>2 DEF Fails
  <2> QED
    BY <1>5, <2>1, <2>2, <2>3 DEF DeleteUsageRecordsBefore
<1>6. ASSUME NEW c, ClearUsageDetailsBefore(c) PROVE usage' = disk'.rows
  <2>1. CASE UNCHANGED vars
    BY <1>3, <2>1 DEF vars, history
  <2>2. ASSUME NEW w, disk' = [disk EXCEPT !.rows = RowsCleared(w)], usage' = Cleared(usage, w),
               failures' = failures
        PROVE  usage' = disk'.rows
    BY <1>1, <1>3, <2>2, DiskParts DEF RowsCleared
  <2>3. ~Fails
    BY <1>2 DEF Fails
  <2> QED
    BY <1>6, <2>1, <2>2, <2>3 DEF ClearUsageDetailsBefore
<1>7. CASE CleanUp
  <2>1. PICK c \in {t \in Start .. now - Retention : (now - t) % Step = 0} :
          DeleteUsageRecordsBefore(c) \/ ClearUsageDetailsBefore(c)
    BY <1>7 DEF CleanUp
  <2> QED
    BY <1>5, <1>6, <2>1
<1>8. CASE SaveElsewhere
  <2>1. disk'.rows = disk.rows
    BY <1>1, <1>8, DiskParts DEF SaveElsewhere
  <2> QED
    BY <1>3, <1>8, <2>1 DEF SaveElsewhere
<1>9. CASE Restart
  <2>1. usage' = Newest(usage) /\ disk' = disk /\ usage = disk.rows
    BY <1>3, <1>9 DEF Restart
  <2> QED
    BY <1>1, <2>1, NewestOfFew
<1>10. CASE Tick \/ UNCHANGED vars
  BY <1>3, <1>10 DEF Tick, vars
<1> QED
  BY <1>4, <1>7, <1>8, <1>9, <1>10 DEF Next

LEMMA InStepHolds == Spec => []InStep
<1>1. Init => InStep
  BY DEF Init, InStep
<1>2. UsageInv /\ InStep /\ [Next]_vars => InStep'
  BY InStepStep
<1> QED
  BY <1>1, <1>2, UsageHolds, PTL DEF Spec

(* As long as no transaction failed and no clean-up took a row for older or younger than *)
(* it is, a restart reads back the records that the memory showed, whatever was recorded, *)
(* compacted and cleaned up, for timestamps of any length (store_sqlite.go).              *)
THEOREM ReloadHolds == Spec => []ReloadShowsTheSame
<1>1. UsageInv /\ InStep => ReloadShowsTheSame
  <2> SUFFICES ASSUME UsageInv, InStep, failures = 0, misread = {}
               PROVE  usage = Newest(disk.rows)
    BY DEF ReloadShowsTheSame
  <2>1. usage = disk.rows /\ Numbered(usage) /\ Cardinality(usage) <= Cap
    BY DEF InStep, UsageInv, TypeOK
  <2> QED
    BY <2>1, NewestOfFew
<1> QED
  BY <1>1, UsageHolds, InStepHolds, PTL

(* A saved record that no clean-up reached or misjudged is on disk.          *)
LEMMA SurviveStep ==
  ASSUME UsageInv, SavedSurvive, [Next]_vars
  PROVE  SavedSurvive'
<1>1. /\ TypeOK /\ Numbered(usage) /\ Numbered(disk.rows) /\ Numbered(saved)
      /\ \A x \in usage \cup disk.rows \cup saved : x.id <= recorded
      /\ \A row \in disk.rows : \E x \in saved : x.id = row.id /\ x.time = row.time
  BY DEF UsageInv
<1>2. \A r \in Newest(saved) :
        r.time >= cutoff => r.id \in misread \/ \E row \in disk.rows : row.id = r.id
  BY DEF SavedSurvive
<1>0. misread \subseteq misread'
  BY HistoryGrows
<1>3. \A r \in saved : r.time \in Nat /\ r.id \in Nat
  BY <1>1, RecordParts DEF Numbered
<1>4. CASE RecordUsage
  <2>1. PICK r \in Record :
           /\ r.id = recorded + 1 /\ cutoff' = cutoff
           /\ \/ /\ disk' = [rows |-> Compacted(disk.rows \cup {r}, Cardinality(usage) = Cap),
                             count |-> count + 1]
                 /\ saved' = saved \cup {r}
              \/ disk' = disk /\ saved' = saved
    BY <1>4, RecordSays
  <2>2. CASE disk' = disk /\ saved' = saved
    BY <1>0, <1>2, <2>1, <2>2 DEF SavedSurvive
  <2>3. ASSUME /\ disk' = [rows |-> Compacted(disk.rows \cup {r}, Cardinality(usage) = Cap),
                           count |-> count + 1]
               /\ saved' = saved \cup {r},
               NEW s \in Newest(saved \cup {r}), s.time >= cutoff, s.id \notin misread
        PROVE  \E row \in disk'.rows : row.id = s.id
    <3> DEFINE R == disk.rows \cup {r}
               S == saved \cup {r}
    <3>1. Numbered(R) /\ Numbered(S)
      BY <1>1, <2>1, Appended
    <3>2. s \in S /\ Cardinality(Newer(s, S)) < Cap
      BY DEF Newest
    <3>3. \E row \in R : row.id = s.id
      <4>1. CASE s = r
        BY <4>1
      <4>2. CASE s \in saved
        <5>1. Newer(s, saved) \subseteq Newer(s, S) /\ Newer(s, S) \subseteq S
          BY DEF Newer
        <5>2. Numbered(Newer(s, S)) /\ Cardinality(Newer(s, S)) \in Nat
          BY <3>1, <5>1, PartsNumbered
        <5>3. Cardinality(Newer(s, saved)) \in Nat
              /\ Cardinality(Newer(s, saved)) <= Cardinality(Newer(s, S))
          BY <5>1, <5>2, PartsNumbered
        <5>4. s \in Newest(saved)
          BY <3>2, <4>2, <5>2, <5>3, UsageConstants DEF Newest
        <5> QED
          BY <1>2, <2>3, <5>4
      <4> QED
        BY <3>2, <4>1, <4>2
    <3>4. PICK row \in R : row.id = s.id
      BY <3>3
    <3>5. \A x \in R : \E y \in S : y.id = x.id
      BY <1>1
    <3>6. Cardinality(Newer(row, R)) <= Cardinality(Newer(s, S))
      BY <3>1, <3>2, <3>4, <3>5, FewerAreNewer
    <3>7. Cardinality(Newer(row, R)) \in Nat /\ Cardinality(Newer(s, S)) \in Nat
      <4>1. Newer(row, R) \subseteq R /\ Newer(s, S) \subseteq S
        BY DEF Newer
      <4> QED
        BY <3>1, <4>1, PartsNumbered
    <3>8. row \in Newest(R)
      BY <3>2, <3>4, <3>6, <3>7, UsageConstants DEF Newest
    <3>9. disk'.rows \in {R, Newest(R)}
      BY <2>3 DEF Compacted
    <3> QED
      BY <3>4, <3>8, <3>9
  <2>4. CASE /\ disk' = [rows |-> Compacted(disk.rows \cup {r}, Cardinality(usage) = Cap),
                         count |-> count + 1]
             /\ saved' = saved \cup {r}
    BY <1>0, <2>1, <2>3, <2>4 DEF SavedSurvive
  <2> QED
    BY <2>1, <2>2, <2>4
<1>5. ASSUME saved' = saved, cutoff' = cutoff, \A x \in disk.rows : \E y \in disk'.rows : y.id = x.id
      PROVE  SavedSurvive'
  BY <1>0, <1>2, <1>5 DEF SavedSurvive
<1>6. ASSUME NEW c \in Start .. now - Retention, (now - c) % Step = 0, DeleteUsageRecordsBefore(c)
      PROVE  SavedSurvive'
  <2>1. CASE UNCHANGED vars
    BY <1>5, <2>1 DEF vars, history
  <2>2. CASE Fails /\ UNCHANGED <<saved, cutoff>>
    BY <1>5, <2>2 DEF Fails
  <2>3. CASE /\ disk' = [disk EXCEPT !.rows = RowsKept(c)] /\ saved' = saved
             /\ cutoff' = IF c > cutoff THEN c ELSE cutoff
             /\ misread' = misread \cup Misjudged(c)
    <3>1. disk'.rows = RowsKept(c) /\ c \in Nat
      BY <1>1, <2>3, DiskParts, UsageConstants DEF TypeOK
    <3>2. ASSUME NEW r \in Newest(saved), r.time >= cutoff', r.id \notin misread'
          PROVE  \E row \in disk'.rows : row.id = r.id
      <4>1. r \in saved /\ r.time \in Nat /\ cutoff \in Nat
        BY <1>1, <1>3, UsageConstants DEF Newest, TypeOK
      <4>2. r.time >= cutoff /\ r.time >= c
        BY <2>3, <3>1, <3>2, <4>1
      <4>3. r.id \notin misread /\ r.id \notin Misjudged(c)
        BY <2>3, <3>2
      <4>4. PICK row \in disk.rows : row.id = r.id
        BY <1>2, <4>2, <4>3
      <4>5. row.time = r.time
        BY <1>1, <4>1, <4>4 DEF Numbered
      <4>6. TextBefore(row.time, c) <=> row.time < c
        BY <4>3, <4>4, Judged
      <4>7. ~(row.time < c)
        BY <3>1, <4>1, <4>2, <4>5
      <4> QED
        BY <3>1, <4>4, <4>6, <4>7 DEF RowsKept
    <3> QED
      BY <2>3, <3>2 DEF SavedSurvive
  <2> QED
    BY <1>6, <2>1, <2>2, <2>3 DEF DeleteUsageRecordsBefore
<1>7. ASSUME NEW c, ClearUsageDetailsBefore(c) PROVE SavedSurvive'
  <2>1. ASSUME NEW w, disk' = [disk EXCEPT !.rows = RowsCleared(w)], UNCHANGED <<saved, cutoff>>
        PROVE  SavedSurvive'
    <3>1. disk'.rows = Cleared(disk.rows, w)
      BY <1>1, <2>1, DiskParts DEF RowsCleared
    <3>2. \A x \in disk.rows : \E y \in disk'.rows : y.id = x.id
      BY <1>1, <3>1, ClearedNumbered
    <3> QED
      BY <1>5, <2>1, <3>2
  <2>2. CASE UNCHANGED <<disk, saved, cutoff>>
    BY <1>5, <2>2
  <2> QED
    BY <1>7, <2>1, <2>2 DEF ClearUsageDetailsBefore, Fails, vars, history
<1>8. CASE CleanUp
  <2>1. PICK c \in {t \in Start .. now - Retention : (now - t) % Step = 0} :
          DeleteUsageRecordsBefore(c) \/ ClearUsageDetailsBefore(c)
    BY <1>8 DEF CleanUp
  <2> QED
    BY <1>6, <1>7, <2>1
<1>9. CASE SaveElsewhere
  <2>1. disk'.rows = disk.rows
    BY <1>1, <1>9, DiskParts DEF SaveElsewhere
  <2> QED
    BY <1>5, <1>9, <2>1 DEF SaveElsewhere, history
<1>10. CASE Restart \/ Tick \/ UNCHANGED vars
  BY <1>5, <1>10 DEF Restart, Tick, vars, history
<1> QED
  BY <1>4, <1>8, <1>9, <1>10 DEF Next

(* A record that was saved is on disk unless Cap later ones were saved, a clean-up reached *)
(* it, or one took its row for older than it is; and no row is left out of the stored      *)
(* counters, whatever transactions fail and however often the process is restarted, for    *)
(* timestamps of any length (store.go:972, store_sqlite.go).                               *)
THEOREM NothingLostHolds == Spec => []NothingLost
<1>1. Init => SavedSurvive
  BY DEF Init, SavedSurvive, Newest
<1>2. UsageInv /\ SavedSurvive /\ [Next]_vars => SavedSurvive'
  BY SurviveStep
<1>3. UsageInv /\ SavedSurvive => NothingLost
  BY DEF UsageInv, NothingLost, RowsAreCounted
<1> QED
  BY <1>1, <1>2, <1>3, UsageHolds, PTL DEF Spec

(* ClearUsage and compaction leave the counters behind no row: this needs no *)
(* hypothesis.                                                               *)
THEOREM RowsCountedHolds == Spec => []RowsAreCounted
<1>1. UsageInv => RowsAreCounted
  BY DEF UsageInv, RowsAreCounted
<1> QED
  BY <1>1, UsageHolds, PTL

-----------------------------------------------------------------------------
(***************************************************************************)
(* A clock of whole units: every timestamp has a text of the same length,  *)
(* so the table is cleaned up as the memory is, and what both hold is      *)
(* younger than the last clean-up of records.                              *)
(***************************************************************************)
WholeTimes == Whole(now) /\ \A r \in usage \cup disk.rows : Whole(r.time)

LEMMA WholeStep ==
  ASSUME Step % Base = 0, UsageInv, WholeTimes, [Next]_vars
  PROVE  WholeTimes'
<1>1. TypeOK /\ now \in Int /\ Step \in Int /\ Whole(Step) /\ Base \in Nat
  BY UsageConstants DEF UsageInv, TypeOK, Whole
<1>2. Whole(now) /\ \A r \in usage \cup disk.rows : Whole(r.time)
  BY DEF WholeTimes
<1>3. Whole(now + Step) /\ Whole(now - Step)
  BY <1>1, <1>2, WholeSums
<1>4. CASE Tick
  BY <1>2, <1>3, <1>4 DEF Tick, WholeTimes, Whole
<1>5. CASE RecordUsage
  <2>1. PICK r \in Record :
           /\ r.time \in {now, now - Step}
           /\ usage' = Newest(usage \cup {r})
           /\ \/ disk' = [rows |-> Compacted(disk.rows \cup {r}, Cardinality(usage) = Cap),
                          count |-> count + 1]
              \/ disk' = disk
           /\ now' = now
    BY <1>5, RecordSays
  <2>2. usage' \subseteq usage \cup {r} /\ disk'.rows \subseteq disk.rows \cup {r}
    BY <2>1 DEF Newest, Compacted
  <2>3. \A x \in usage' \cup disk'.rows : Whole(x.time)
    BY <1>2, <1>3, <2>1, <2>2
  <2> QED
    BY <1>2, <2>1, <2>3 DEF WholeTimes, Whole
<1>6. ASSUME now' = now, \A x \in usage' \cup disk'.rows : \E y \in usage \cup disk.rows : y.time = x.time
      PROVE  WholeTimes'
  <2>1. \A x \in usage' \cup disk'.rows : Whole(x.time)
    BY <1>2, <1>6
  <2> QED
    BY <1>2, <1>6, <2>1 DEF WholeTimes, Whole
<1>7. ASSUME NEW c, DeleteUsageRecordsBefore(c) PROVE WholeTimes'
  <2>1. now' = now /\ usage' \subseteq usage /\ (disk' = disk \/ disk' = [disk EXCEPT !.rows = RowsKept(c)])
    BY <1>7 DEF DeleteUsageRecordsBefore, Fails, vars, history
  <2>2. disk'.rows \subseteq disk.rows
    <3>1. RowsKept(c) \subseteq disk.rows
      BY DEF RowsKept
    <3>2. CASE disk' = [disk EXCEPT !.rows = RowsKept(c)]
      <4>1. disk'.rows = RowsKept(c)
        BY <1>1, <3>2, DiskParts
      <4> QED
        BY <3>1, <4>1
    <3> QED
      BY <2>1, <3>2
  <2> QED
    BY <1>6, <2>1, <2>2
<1>8. ASSUME NEW c, ClearUsageDetailsBefore(c) PROVE WholeTimes'
  <2>1. now' = now /\ \/ usage' = usage /\ disk' = disk
                      \/ \E w : usage' = Cleared(usage, w) /\ disk' = [disk EXCEPT !.rows = RowsCleared(w)]
    BY <1>8 DEF ClearUsageDetailsBefore, Fails, vars, history
  <2>2. ASSUME NEW w, usage' = Cleared(usage, w), disk' = [disk EXCEPT !.rows = RowsCleared(w)]
        PROVE  WholeTimes'
    <3>1. disk'.rows = Cleared(disk.rows, w)
      BY <1>1, <2>2, DiskParts DEF RowsCleared
    <3>2. (\A x \in usage' : \E y \in usage : y.time = x.time)
          /\ (\A x \in disk'.rows : \E y \in disk.rows : y.time = x.time)
      BY <2>2, <3>1, ClearedNumbered DEF UsageInv
    <3> QED
      BY <1>6, <2>1, <3>2
  <2> QED
    BY <1>6, <2>1, <2>2
<1>9. CASE SaveElsewhere
  <2>1. disk'.rows = disk.rows /\ now' = now /\ usage' = usage
    BY <1>1, <1>9, DiskParts DEF SaveElsewhere
  <2> QED
    BY <1>6, <2>1
<1>10. CASE Restart
  BY <1>6, <1>10 DEF Restart, Newest
<1>11. CASE UNCHANGED vars
  BY <1>6, <1>11 DEF vars, history
<1> QED
  BY <1>4, <1>5, <1>7, <1>8, <1>9, <1>10, <1>11 DEF Next, CleanUp

(* A cutoff is a whole time too; for whole times the table is cleaned up as  *)
(* the memory is.                                                            *)
LEMMA WholeCutoff ==
  ASSUME Step % Base = 0, UsageInv, WholeTimes,
         NEW c \in Start .. now - Retention, (now - c) % Step = 0
  PROVE  /\ Whole(c) /\ c \in Nat
         /\ RowsKept(c) = {r \in disk.rows : r.time >= c}
<1>1. TypeOK /\ now \in Int /\ Base \in Nat /\ Retention \in Nat
  BY UsageConstants DEF UsageInv, TypeOK
<1>2. c \in Nat /\ now - c \in Int
  BY <1>1, UsageConstants
<1>3. Whole(now - c) /\ Whole(now)
  BY <1>2, WholeMultiples DEF WholeTimes
<1>4. Whole(now - (now - c)) /\ now - (now - c) = c
  BY <1>1, <1>2, <1>3, WholeSums
<1>5. ASSUME NEW r \in disk.rows PROVE TextBefore(r.time, c) <=> r.time < c
  <2>1. r \in Record /\ Whole(r.time)
    BY DEF WholeTimes, UsageInv, Numbered
  <2> QED
    BY <1>2, <1>4, <2>1, RecordParts, WholeText
<1>6. \A r \in disk.rows : r.time \in Nat
  BY RecordParts DEF UsageInv, Numbered
<1> QED
  BY <1>2, <1>4, <1>5, <1>6 DEF RowsKept

LEMMA WholeHolds ==
  ASSUME Step % Base = 0, Start % Base = 0
  PROVE  Spec => []WholeTimes
<1>1. Init => WholeTimes
  BY DEF Init, WholeTimes, Whole
<1>2. UsageInv /\ WholeTimes /\ [Next]_vars => WholeTimes'
  BY WholeStep
<1> QED
  BY <1>1, <1>2, UsageHolds, PTL DEF Spec

(* A clean-up deletes what is old, and no request ends with a start that old. *)
CleanedUp ==
  /\ cutoff = 0 \/ cutoff <= now - Retention
  /\ \A r \in disk.rows : r.time >= cutoff

LEMMA CleanedStep ==
  ASSUME Step % Base = 0, Step <= Retention, UsageInv, WholeTimes, CleanedUp, [Next]_vars
  PROVE  CleanedUp'
<1>1. TypeOK /\ now \in Nat /\ cutoff \in Nat /\ Step \in Nat /\ Retention \in Nat
  BY UsageConstants DEF UsageInv, TypeOK
<1>2. /\ cutoff = 0 \/ cutoff <= now - Retention
      /\ \A r \in disk.rows : r.time \in Nat /\ r.time >= cutoff
  BY RecordParts DEF CleanedUp, UsageInv, Numbered
<1>3. CASE Tick
  BY <1>1, <1>2, <1>3 DEF Tick, history, CleanedUp
<1>4. CASE RecordUsage
  <2>1. PICK r \in Record :
           /\ r.time \in {now, now - Step}
           /\ \/ disk' = [rows |-> Compacted(disk.rows \cup {r}, Cardinality(usage) = Cap),
                          count |-> count + 1]
              \/ disk' = disk
           /\ now' = now /\ cutoff' = cutoff
    BY <1>4, RecordSays
  <2>2. disk'.rows \subseteq disk.rows \cup {r}
    BY <2>1 DEF Newest, Compacted
  <2>3. r.time \in Nat /\ r.time >= cutoff
    BY <1>1, <1>2, <2>1, RecordParts
  <2>4. \A x \in disk'.rows : x.time >= cutoff
    BY <1>2, <2>2, <2>3
  <2> QED
    BY <1>2, <2>1, <2>4 DEF CleanedUp
<1>5. ASSUME UNCHANGED <<now, cutoff>>, \A x \in disk'.rows : \E y \in disk.rows : y.time = x.time
      PROVE  CleanedUp'
  <2>1. \A x \in disk'.rows : x.time >= cutoff
    BY <1>2, <1>5
  <2> QED
    BY <1>2, <1>5, <2>1 DEF CleanedUp
<1>6. ASSUME NEW c \in Start .. now - Retention, (now - c) % Step = 0, DeleteUsageRecordsBefore(c)
      PROVE  CleanedUp'
  <2>1. CASE disk' = disk /\ UNCHANGED <<now, cutoff>>
    BY <1>5, <2>1
  <2>2. CASE disk' = [disk EXCEPT !.rows = RowsKept(c)] /\ now' = now
             /\ cutoff' = (IF c > cutoff THEN c ELSE cutoff)
    <3>1. disk'.rows = {r \in disk.rows : r.time >= c} /\ c \in Nat
      BY <1>1, <1>6, <2>2, DiskParts, WholeCutoff
    <3>2. c <= now - Retention
      BY <1>1, <1>6, <3>1
    <3>3. \A x \in disk'.rows : x.time >= cutoff'
      BY <1>2, <2>2, <3>1
    <3> QED
      BY <1>2, <2>2, <3>2, <3>3 DEF CleanedUp
  <2> QED
    BY <1>6, <2>1, <2>2 DEF DeleteUsageRecordsBefore, Fails, vars, history
<1>7. ASSUME NEW c, ClearUsageDetailsBefore(c) PROVE CleanedUp'
  <2>1. UNCHANGED <<now, cutoff>>
        /\ (disk' = disk \/ \E w : disk' = [disk EXCEPT !.rows = RowsCleared(w)])
    BY <1>7 DEF ClearUsageDetailsBefore, Fails, vars, history
  <2>2. ASSUME NEW w, disk' = [disk EXCEPT !.rows = RowsCleared(w)] PROVE CleanedUp'
    <3>1. disk'.rows = Cleared(disk.rows, w)
      BY <1>1, <2>2, DiskParts DEF RowsCleared
    <3>2. \A x \in disk'.rows : \E y \in disk.rows : y.time = x.time
      BY <3>1, ClearedNumbered DEF UsageInv
    <3> QED
      BY <1>5, <2>1, <3>2
  <2> QED
    BY <1>5, <2>1, <2>2
<1>8. CASE CleanUp
  <2>1. PICK c \in {t \in Start .. now - Retention : (now - t) % Step = 0} :
          DeleteUsageRecordsBefore(c) \/ ClearUsageDetailsBefore(c)
    BY <1>8 DEF CleanUp
  <2> QED
    BY <1>6, <1>7, <2>1
<1>9. CASE SaveElsewhere
  <2>1. disk'.rows = disk.rows
    BY <1>1, <1>9, DiskParts DEF SaveElsewhere
  <2> QED
    BY <1>5, <1>9, <2>1 DEF SaveElsewhere, history
<1>10. CASE Restart \/ UNCHANGED vars
  BY <1>5, <1>10 DEF Restart, vars, history
<1> QED
  BY <1>3, <1>4, <1>8, <1>9, <1>10 DEF Next

(* Timestamps of equal length, and an age of clean-up beyond the length of a *)
(* request: after a clean-up the database holds no row that it deletes,      *)
(* whatever fails.                                                           *)
THEOREM CleanUpHolds ==
  ASSUME Step % Base = 0, Start % Base = 0, Step <= Retention
  PROVE  Spec => []CleanUpReachesDisk
<1>1. Init => CleanedUp
  BY DEF Init, CleanedUp
<1>2. UsageInv /\ WholeTimes /\ CleanedUp /\ [Next]_vars => CleanedUp'
  BY CleanedStep
<1>3. CleanedUp => CleanUpReachesDisk
  BY DEF CleanedUp, CleanUpReachesDisk
<1> QED
  BY <1>1, <1>2, <1>3, UsageHolds, WholeHolds, PTL DEF Spec

-----------------------------------------------------------------------------
(* The precedence of versions.                                               *)

LEMMA LeastNumber ==
  ASSUME NEW T \in SUBSET Nat, T # {}
  PROVE  \E n \in T : \A m \in T : n <= m
<1>1. PICK n \in T : \A m \in T : ~(<<m, n>> \in OpToRel(<, Nat))
  BY NatLessThanWellFounded, WFMin
<1>2. \A m \in T : ~(m < n)
  BY <1>1 DEF OpToRel
<1> QED
  BY <1>2

(* The recursive function in Value exists, and its values are those of the   *)
(* prefixes of s.                                                            *)
PrefixValues(s, v) ==
  /\ v \in [0 .. Len(s) -> Int] /\ v[0] = 0
  /\ \A n \in 1 .. Len(s) : v[n] = 10 * v[n - 1] + s[n]

LEMMA ValueOfPrefixes ==
  ASSUME NEW s \in Seq(Int)
  PROVE  \E v : PrefixValues(s, v) /\ Value(s) = v[Len(s)]
<1> DEFINE Upto(m, v) == /\ v \in [0 .. m -> Int] /\ v[0] = 0
                         /\ \A n \in 1 .. m : v[n] = 10 * v[n - 1] + s[n]
           Missing == {m \in 0 .. Len(s) : ~\E v : Upto(m, v)}
           Unfold(v) == [n \in 0 .. Len(s) |-> IF n = 0 THEN 0 ELSE 10 * v[n - 1] + s[n]]
<1>0. Len(s) \in Nat /\ \A n \in 1 .. Len(s) : s[n] \in Int
  OBVIOUS
<1>1. Missing = {}
  <2> SUFFICES ASSUME Missing # {} PROVE FALSE
    OBVIOUS
  <2>1. PICK m \in Missing : \A n \in Missing : m <= n
    <3>1. Missing \in SUBSET Nat
      BY <1>0
    <3> QED
      BY <3>1, LeastNumber
  <2>2. CASE m = 0
    <3>1. Upto(0, [n \in 0 .. 0 |-> 0])
      OBVIOUS
    <3> QED
      BY <2>1, <2>2, <3>1
  <2>3. CASE m # 0
    <3>0. m \in 0 .. Len(s)
      BY <2>1
    <3>1. m \in 1 .. Len(s) /\ m - 1 \in 0 .. Len(s) /\ m - 1 \notin Missing
      <4> HIDE DEF Missing
      <4> QED
        BY <1>0, <2>1, <2>3, <3>0
    <3>2. PICK v : Upto(m - 1, v)
      BY <3>1
    <3> DEFINE w == [n \in 0 .. m |-> IF n = m THEN 10 * v[m - 1] + s[m] ELSE v[n]]
    <3>3. w \in [0 .. m -> Int]
      BY SMTT(30), <1>0, <3>1, <3>2
    <3>4. w[0] = 0 /\ \A n \in 1 .. m : w[n] = 10 * w[n - 1] + s[n]
      <4>1. w[0] = 0 /\ w[m] = 10 * w[m - 1] + s[m]
        BY <1>0, <3>1, <3>2
      <4>2. ASSUME NEW n \in 1 .. m, n # m PROVE w[n] = 10 * w[n - 1] + s[n]
        <5>1. n \in 1 .. m - 1 /\ n - 1 \in 0 .. m /\ n - 1 # m /\ n \in 0 .. m
          BY <1>0, <3>1, <4>2
        <5>2. w[n] = v[n] /\ w[n - 1] = v[n - 1]
          BY <4>2, <5>1
        <5> QED
          BY <3>2, <5>1, <5>2
      <4> QED
        BY <4>1, <4>2
    <3>5. Upto(m, w)
      BY <3>3, <3>4
    <3> HIDE DEF w
    <3> QED
      BY <2>1, <3>5
  <2> QED
    BY <2>2, <2>3
<1>2. PICK u : Upto(Len(s), u)
  <2>1. Len(s) \in 0 .. Len(s)
    BY <1>0
  <2> QED
    BY <1>1, <2>1
<1>3. u = Unfold(u)
  <2>1. \A n \in 0 .. Len(s) : u[n] = IF n = 0 THEN 0 ELSE 10 * u[n - 1] + s[n]
    BY <1>0, <1>2
  <2> QED
    BY <1>2, <2>1
<1> DEFINE value == CHOOSE v : v = Unfold(v)
<1>4. value = Unfold(value)
  BY <1>3
<1>5. Value(s) = value[Len(s)]
  BY DEF Value
<1> HIDE DEF value
<1>6. value[0] = 0 /\ \A n \in 1 .. Len(s) : value[n] = 10 * value[n - 1] + s[n]
  BY SMTT(30), <1>0, <1>4
<1>7. \A n \in 0 .. Len(s) : value[n] \in Int
  <2> DEFINE Bad == {n \in 0 .. Len(s) : value[n] \notin Int}
  <2> SUFFICES ASSUME Bad # {} PROVE FALSE
    OBVIOUS
  <2>1. Bad \in SUBSET Nat
    BY <1>0
  <2>2. PICK m \in Bad : \A n \in Bad : m <= n
    BY <2>1, LeastNumber
  <2>3. m # 0
    BY <1>6, <2>2
  <2>4. m - 1 \in 0 .. Len(s) /\ m - 1 \notin Bad /\ m \in 1 .. Len(s)
    BY <1>0, <2>2, <2>3
  <2>5. value[m - 1] \in Int /\ s[m] \in Int
    BY <1>0, <2>4
  <2> QED
    BY SMTT(30), <1>6, <2>2, <2>4, <2>5
<1>8. value \in [0 .. Len(s) -> Int]
  <2>1. value = [n \in 0 .. Len(s) |-> value[n]]
    BY <1>4
  <2> QED
    BY <1>7, <2>1
<1> QED
  BY <1>5, <1>6, <1>8 DEF PrefixValues

(* Induction over a set of numbers.                                          *)
LEMMA Climb ==
  ASSUME NEW m \in Nat, NEW n \in Nat, NEW T, m \in T,
         \A k \in m .. n - 1 : k \in T => k + 1 \in T
  PROVE  m .. n \subseteq T
<1> DEFINE Bad == {k \in m .. n : k \notin T}
<1> SUFFICES ASSUME Bad # {} PROVE FALSE
  OBVIOUS
<1>1. PICK k \in Bad : \A j \in Bad : k <= j
  <2>1. Bad \in SUBSET Nat
    OBVIOUS
  <2> QED
    BY <2>1, LeastNumber
<1>2. k \in m .. n /\ k # m /\ k \notin T
  BY <1>1
<1>3. k - 1 \in m .. n - 1 /\ k - 1 \in m .. n /\ ~(k <= k - 1)
  BY <1>2
<1>4. k - 1 \in T
  BY <1>1, <1>3
<1> QED
  BY <1>2, <1>3, <1>4

LEMMA NextDigit ==
  ASSUME NEW a \in Int, NEW b \in Int, NEW d \in 0 .. 9, NEW e \in 0 .. 9
  PROVE  /\ a < b => 10 * a + d < 10 * b + e
         /\ d < e => 10 * a + d < 10 * a + e
         /\ a >= 0 => 10 * a + d >= a
OBVIOUS

Digits == {s \in Seq(Int) : AllDigits(s)}

(* Values of prefixes never fall, and never are negative.                    *)
LEMMA ValuesRise ==
  ASSUME NEW s \in Digits, NEW v, PrefixValues(s, v)
  PROVE  /\ \A n \in 0 .. Len(s) : v[n] >= 0
         /\ \A m, n \in 0 .. Len(s) : m <= n => v[m] <= v[n]
<1>1. Len(s) \in Nat /\ \A n \in 1 .. Len(s) : s[n] \in 0 .. 9
  BY DEF Digits, AllDigits
<1>2. \A n \in 0 .. Len(s) : v[n] \in Int
  BY DEF PrefixValues
<1>3. \A n \in 0 .. Len(s) - 1 : v[n + 1] = 10 * v[n] + s[n + 1] /\ s[n + 1] \in 0 .. 9
  <2> TAKE n \in 0 .. Len(s) - 1
  <2>1. n + 1 \in 1 .. Len(s) /\ (n + 1) - 1 = n
    BY <1>1
  <2> QED
    BY <1>1, <2>1 DEF PrefixValues
<1>4. \A n \in 0 .. Len(s) : v[n] >= 0
  <2> DEFINE T == {n \in 0 .. Len(s) : v[n] >= 0}
  <2>1. 0 \in T
    BY <1>1 DEF PrefixValues
  <2>2. ASSUME NEW n \in 0 .. Len(s) - 1, n \in T PROVE n + 1 \in T
    <3>1. n + 1 \in 0 .. Len(s) /\ n \in 0 .. Len(s)
      BY <1>1
    <3>2. v[n] \in Int /\ v[n] >= 0 /\ s[n + 1] \in 0 .. 9 /\ v[n + 1] = 10 * v[n] + s[n + 1]
      BY <1>2, <1>3, <2>2, <3>1
    <3>3. v[n + 1] >= 0
      BY SMTT(30), <3>2
    <3> QED
      BY <3>1, <3>3
  <2>3. 0 .. Len(s) \subseteq T
    <3> HIDE DEF T
    <3> QED
      BY <1>1, <2>1, <2>2, Climb
  <2> QED
    BY <2>3
<1>5. ASSUME NEW m \in 0 .. Len(s), NEW n \in 0 .. Len(s), m <= n
      PROVE  v[m] <= v[n]
  <2> DEFINE T == {k \in 0 .. Len(s) : v[m] <= v[k]}
  <2>0. m \in Nat /\ m \in m .. n /\ n \in Nat /\ n \in m .. n
    BY <1>1, <1>5
  <2>1. m \in T
    BY <1>2
  <2>2. ASSUME NEW k \in m .. n - 1, k \in T PROVE k + 1 \in T
    <3>1. k + 1 \in 0 .. Len(s) /\ k \in 0 .. Len(s) - 1 /\ k \in 0 .. Len(s)
      BY <1>1, <2>0
    <3>2. /\ v[m] \in Int /\ v[k] \in Int /\ v[k] >= 0 /\ v[m] <= v[k]
          /\ s[k + 1] \in 0 .. 9 /\ v[k + 1] = 10 * v[k] + s[k + 1]
      BY <1>2, <1>3, <1>4, <2>2, <3>1
    <3>3. v[k + 1] >= v[k] /\ v[k + 1] \in Int
      BY <1>2, <3>1, <3>2, NextDigit
    <3>4. v[m] <= v[k + 1]
      BY <3>2, <3>3
    <3> QED
      BY <3>1, <3>4
  <2>3. m .. n \subseteq T
    <3> HIDE DEF T
    <3> QED
      BY <2>0, <2>1, <2>2, Climb
  <2> QED
    BY <2>0, <2>3
<1> QED
  BY <1>4, <1>5

(* Of two numbers written with as many digits, the first difference decides. *)
LEMMA FirstDigitDecides ==
  ASSUME NEW s \in Digits, NEW t \in Digits, Len(s) = Len(t),
         NEW i \in 1 .. Len(s), \A j \in 1 .. i - 1 : s[j] = t[j], s[i] < t[i]
  PROVE  Value(s) < Value(t)
<1>1. PICK v : PrefixValues(s, v) /\ Value(s) = v[Len(s)]
  BY ValueOfPrefixes DEF Digits
<1>2. PICK w : PrefixValues(t, w) /\ Value(t) = w[Len(t)]
  BY ValueOfPrefixes DEF Digits
<1>3. Len(s) \in Nat /\ \A n \in 1 .. Len(s) : s[n] \in 0 .. 9 /\ t[n] \in 0 .. 9
  <2>1. DOMAIN s = 1 .. Len(s) /\ DOMAIN t = 1 .. Len(s) /\ Len(s) \in Nat
    BY DEF Digits
  <2> QED
    BY <2>1 DEF Digits, AllDigits
<1>4. \A n \in 0 .. Len(s) : v[n] \in Int /\ w[n] \in Int
  BY <1>1, <1>2 DEF PrefixValues
<1>5. v[0] = 0 /\ w[0] = 0
  BY <1>1, <1>2 DEF PrefixValues
<1>6. \A n \in 0 .. Len(s) - 1 : v[n + 1] = 10 * v[n] + s[n + 1] /\ w[n + 1] = 10 * w[n] + t[n + 1]
  <2> TAKE n \in 0 .. Len(s) - 1
  <2>1. n + 1 \in 1 .. Len(s) /\ (n + 1) - 1 = n
    BY <1>3
  <2> QED
    BY <1>1, <1>2, <2>1 DEF PrefixValues
<1>7. v[i - 1] = w[i - 1]
  <2> DEFINE T == {n \in 0 .. Len(s) : v[n] = w[n]}
  <2>1. 0 \in T
    BY <1>3, <1>5
  <2>2. ASSUME NEW n \in 0 .. (i - 1) - 1, n \in T PROVE n + 1 \in T
    <3>1. n + 1 \in 0 .. Len(s) /\ n \in 0 .. Len(s) - 1 /\ n + 1 \in 1 .. i - 1
      BY <1>3
    <3>2. v[n + 1] = w[n + 1]
      BY <1>6, <2>2, <3>1
    <3> QED
      BY <3>1, <3>2
  <2>3. i - 1 \in Nat /\ i - 1 \in 0 .. i - 1
    OBVIOUS
  <2>4. 0 .. i - 1 \subseteq T
    <3> HIDE DEF T
    <3> QED
      BY <2>1, <2>2, <2>3, Climb
  <2> QED
    BY <2>3, <2>4
<1>8. v[Len(s)] < w[Len(s)]
  <2> DEFINE T == {n \in 0 .. Len(s) : v[n] < w[n]}
  <2>1. i \in T
    <3>1. i - 1 \in 0 .. Len(s) - 1 /\ (i - 1) + 1 = i /\ i \in 0 .. Len(s) /\ i \in 1 .. Len(s)
      BY <1>3
    <3>2. v[i] = 10 * v[i - 1] + s[i] /\ w[i] = 10 * w[i - 1] + t[i]
      BY <1>6, <3>1
    <3>3. v[i - 1] \in Int /\ s[i] \in 0 .. 9 /\ t[i] \in 0 .. 9
      BY <1>3, <1>4, <3>1
    <3>4. v[i] < w[i]
      BY <1>7, <3>2, <3>3, NextDigit
    <3> QED
      BY <3>1, <3>4
  <2>2. ASSUME NEW n \in i .. Len(s) - 1, n \in T PROVE n + 1 \in T
    <3>1. n + 1 \in 0 .. Len(s) /\ n \in 0 .. Len(s) - 1 /\ n \in 0 .. Len(s) /\ n + 1 \in 1 .. Len(s)
      BY <1>3
    <3>2. v[n + 1] = 10 * v[n] + s[n + 1] /\ w[n + 1] = 10 * w[n] + t[n + 1]
      BY <1>6, <3>1
    <3>3. /\ v[n] \in Int /\ w[n] \in Int /\ v[n] < w[n]
          /\ s[n + 1] \in 0 .. 9 /\ t[n + 1] \in 0 .. 9
      BY <1>3, <1>4, <2>2, <3>1
    <3>4. v[n + 1] < w[n + 1]
      BY <3>2, <3>3, NextDigit
    <3> QED
      BY <3>1, <3>4
  <2>3. i \in Nat /\ Len(s) \in i .. Len(s)
    BY <1>3
  <2>4. i .. Len(s) \subseteq T
    <3> HIDE DEF T
    <3> QED
      BY <1>3, <2>1, <2>2, <2>3, Climb
  <2> QED
    BY <2>3, <2>4
<1> QED
  BY <1>1, <1>2, <1>8

(* The longer of two numbers is the larger, unless it starts with a zero.    *)
LEMMA LongerIsLarger ==
  ASSUME NEW s \in Digits, NEW t \in Digits, Len(s) < Len(t), t[1] # 0
  PROVE  Value(s) < Value(t)
<1>1. PICK v : PrefixValues(s, v) /\ Value(s) = v[Len(s)]
  BY ValueOfPrefixes DEF Digits
<1>2. PICK w : PrefixValues(t, w) /\ Value(t) = w[Len(t)]
  BY ValueOfPrefixes DEF Digits
<1>3. /\ Len(s) \in Nat /\ \A n \in 1 .. Len(s) : s[n] \in 0 .. 9
      /\ Len(t) \in Nat /\ \A n \in 1 .. Len(t) : t[n] \in 0 .. 9
  BY SMTT(30) DEF Digits, AllDigits
<1>4. /\ \A n \in 0 .. Len(s) : v[n] \in Int
      /\ \A n \in 0 .. Len(t) : w[n] \in Int
  BY <1>1, <1>2 DEF PrefixValues
<1>5. v[0] = 0 /\ w[0] = 0
  BY <1>1, <1>2 DEF PrefixValues
<1>6. \A n \in 0 .. Len(s) - 1 : v[n + 1] = 10 * v[n] + s[n + 1]
  <2> TAKE n \in 0 .. Len(s) - 1
  <2>1. n + 1 \in 1 .. Len(s) /\ (n + 1) - 1 = n
    BY <1>3
  <2> QED
    BY <1>1, <2>1 DEF PrefixValues
<1>7. \A n \in 0 .. Len(t) - 1 : w[n + 1] = 10 * w[n] + t[n + 1]
  <2> TAKE n \in 0 .. Len(t) - 1
  <2>1. n + 1 \in 1 .. Len(t) /\ (n + 1) - 1 = n
    BY <1>3
  <2> QED
    BY <1>2, <2>1 DEF PrefixValues
<1>8. v[Len(s)] < w[Len(s) + 1]
  <2> DEFINE T == {n \in 0 .. Len(s) : v[n] < w[n + 1]}
  <2>1. 0 \in T
    <3>1. w[0 + 1] = t[0 + 1] /\ t[1] \in 1 .. 9
      BY <1>3, <1>5, <1>7
    <3> QED
      BY <1>3, <1>5, <3>1
  <2>2. ASSUME NEW n \in 0 .. Len(s) - 1, n \in T PROVE n + 1 \in T
    <3>1. /\ n + 1 \in 0 .. Len(s) /\ n \in 0 .. Len(s) /\ n + 1 \in 1 .. Len(s)
          /\ n + 1 \in 0 .. Len(t) - 1 /\ (n + 1) + 1 \in 1 .. Len(t) /\ n + 1 \in 0 .. Len(t)
      BY <1>3
    <3>2. v[n + 1] = 10 * v[n] + s[n + 1] /\ w[(n + 1) + 1] = 10 * w[n + 1] + t[(n + 1) + 1]
      BY <1>6, <1>7, <3>1
    <3>3. /\ v[n] \in Int /\ w[n + 1] \in Int /\ v[n] < w[n + 1]
          /\ s[n + 1] \in 0 .. 9 /\ t[(n + 1) + 1] \in 0 .. 9
      BY <1>3, <1>4, <2>2, <3>1
    <3>4. v[n + 1] < w[(n + 1) + 1]
      BY <3>2, <3>3, NextDigit
    <3> QED
      BY <3>1, <3>4
  <2>3. Len(s) \in 0 .. Len(s)
    BY <1>3
  <2>4. 0 .. Len(s) \subseteq T
    <3> HIDE DEF T
    <3> QED
      BY <1>3, <2>1, <2>2, Climb
  <2> QED
    BY <2>3, <2>4
<1>9. w[Len(s) + 1] <= w[Len(t)]
  BY <1>2, <1>3, ValuesRise
<1>10. Len(s) \in 0 .. Len(s) /\ Len(s) + 1 \in 0 .. Len(t) /\ Len(t) \in 0 .. Len(t)
  BY <1>3
<1> QED
  BY <1>1, <1>2, <1>4, <1>8, <1>9, <1>10

(* The place n of the first difference of two sequences; one past the end of *)
(* the shorter one when that is a prefix of the other.                       *)
FirstAt(s, t, n) ==
  /\ n >= 1 /\ n <= Len(s) + 1 /\ n <= Len(t) + 1
  /\ \A i \in 1 .. n - 1 : s[i] = t[i]
  /\ n <= Len(s) /\ n <= Len(t) => s[n] # t[n]

LEMMA FirstIsShared ==
  ASSUME NEW s \in Seq(Int), NEW t \in Seq(Int)
  PROVE  \E n \in Nat : /\ FirstAt(s, t, n)
                        /\ CompareText(s, t) = IF n <= Len(s) /\ n <= Len(t) THEN Sign(s[n], t[n])
                                               ELSE Sign(Len(s), Len(t))
<1> DEFINE differ == {i \in DOMAIN s \cap DOMAIN t : Sign(s[i], t[i]) # 0}
           first == CHOOSE i \in differ : \A j \in differ : i <= j
<1>1. /\ Len(s) \in Nat /\ DOMAIN s = 1 .. Len(s) /\ \A i \in 1 .. Len(s) : s[i] \in Int
      /\ Len(t) \in Nat /\ DOMAIN t = 1 .. Len(t) /\ \A i \in 1 .. Len(t) : t[i] \in Int
  OBVIOUS
<1>2. CompareText(s, t) = IF differ = {} THEN Sign(Len(s), Len(t)) ELSE Sign(s[first], t[first])
  BY DEF CompareText, FirstDifference
<1>3. \A i \in Nat : i >= 1 /\ i <= Len(s) /\ i <= Len(t) => (i \in differ <=> s[i] # t[i])
  BY <1>1 DEF Sign
<1>4. differ \in SUBSET Nat /\ \A i \in differ : i >= 1 /\ i <= Len(s) /\ i <= Len(t)
  BY <1>1
<1> HIDE DEF differ
<1>5. CASE differ = {}
  <2> DEFINE n == IF Len(s) <= Len(t) THEN Len(s) + 1 ELSE Len(t) + 1
  <2>1. n \in Nat /\ n >= 1 /\ n <= Len(s) + 1 /\ n <= Len(t) + 1 /\ ~(n <= Len(s) /\ n <= Len(t))
    BY <1>1
  <2>2. \A i \in 1 .. n - 1 : s[i] = t[i]
    BY <1>1, <1>3, <1>5
  <2> HIDE DEF n
  <2> QED
    BY <1>2, <1>5, <2>1, <2>2 DEF FirstAt
<1>6. CASE differ # {}
  <2>1. \E i \in differ : \A j \in differ : i <= j
    BY <1>4, <1>6, LeastNumber
  <2>2. first \in differ /\ \A j \in differ : first <= j
    BY <2>1
  <2> HIDE DEF first
  <2>3. first \in Nat /\ first >= 1 /\ first <= Len(s) /\ first <= Len(t) /\ s[first] # t[first]
    BY <1>3, <1>4, <2>2
  <2>4. \A i \in 1 .. first - 1 : s[i] = t[i]
    <3> TAKE i \in 1 .. first - 1
    <3>1. i \in Nat /\ i >= 1 /\ i <= Len(s) /\ i <= Len(t) /\ ~(first <= i)
      BY <1>1, <2>3
    <3> QED
      BY <1>3, <2>2, <3>1
  <2>5. FirstAt(s, t, first)
    BY <1>1, <2>3, <2>4 DEF FirstAt
  <2> QED
    BY <1>2, <1>6, <2>3, <2>5
<1> QED
  BY <1>5, <1>6

(* The first difference decides which of two texts, or ranks, comes first.   *)
LEMMA FirstDecides ==
  ASSUME NEW s \in Seq(Int), NEW t \in Seq(Int), NEW n \in Nat, FirstAt(s, t, n)
  PROVE  RankBefore(s, t) <=> n <= Len(t) /\ (n <= Len(s) => s[n] < t[n])
<1>1. /\ Len(s) \in Nat /\ \A i \in 1 .. Len(s) : s[i] \in Int
      /\ Len(t) \in Nat /\ \A i \in 1 .. Len(t) : t[i] \in Int
  OBVIOUS
<1>2. RankBefore(s, t) <=> \E m \in 1 .. Len(t) : /\ m <= Len(s) + 1
                                                  /\ \A i \in 1 .. m - 1 : s[i] = t[i]
                                                  /\ m <= Len(s) => s[m] < t[m]
  BY DEF RankBefore, Before
<1>3. ASSUME n <= Len(t), n <= Len(s) => s[n] < t[n] PROVE RankBefore(s, t)
  <2>1. n \in 1 .. Len(t)
    BY <1>1, <1>3 DEF FirstAt
  <2> QED
    BY <1>2, <1>3, <2>1 DEF FirstAt
<1>4. ASSUME NEW m \in 1 .. Len(t), m <= Len(s) + 1, \A i \in 1 .. m - 1 : s[i] = t[i],
             m <= Len(s) => s[m] < t[m]
      PROVE  m = n
  <2>1. CASE m < n
    <3>1. m \in 1 .. n - 1 /\ m <= Len(s) /\ m \in 1 .. Len(s)
      BY <1>1, <2>1 DEF FirstAt
    <3>2. s[m] = t[m] /\ s[m] < t[m] /\ s[m] \in Int
      BY <1>1, <1>4, <3>1 DEF FirstAt
    <3> QED
      BY <3>2
  <2>2. CASE n < m
    <3>1. n \in 1 .. m - 1 /\ n <= Len(s) /\ n <= Len(t)
      BY SMTT(30), <1>1, <1>4, <2>2 DEF FirstAt
    <3> QED
      BY <1>4, <3>1 DEF FirstAt
  <2> QED
    BY <2>1, <2>2
<1> QED
  BY <1>2, <1>3, <1>4

LEMMA TextCompares ==
  ASSUME NEW s \in Seq(Int), NEW t \in Seq(Int)
  PROVE  /\ CompareText(s, t) \in {-1, 0, 1}
         /\ CompareText(s, t) = -1 <=> RankBefore(s, t)
         /\ CompareText(s, t) = 1 => RankBefore(t, s)
         /\ CompareText(s, t) = 0 <=> s = t
<1>1. /\ Len(s) \in Nat /\ \A i \in 1 .. Len(s) : s[i] \in Int
      /\ Len(t) \in Nat /\ \A i \in 1 .. Len(t) : t[i] \in Int
  OBVIOUS
<1>2. PICK n \in Nat : /\ FirstAt(s, t, n)
                       /\ CompareText(s, t) = IF n <= Len(s) /\ n <= Len(t) THEN Sign(s[n], t[n])
                                              ELSE Sign(Len(s), Len(t))
  BY FirstIsShared
<1>3. FirstAt(t, s, n)
  BY <1>2 DEF FirstAt
<1>4. /\ RankBefore(s, t) <=> n <= Len(t) /\ (n <= Len(s) => s[n] < t[n])
      /\ RankBefore(t, s) <=> n <= Len(s) /\ (n <= Len(t) => t[n] < s[n])
  BY <1>2, <1>3, FirstDecides
<1>5. n >= 1 /\ n <= Len(s) + 1 /\ n <= Len(t) + 1
  BY <1>2 DEF FirstAt
<1>6. CASE n <= Len(s) /\ n <= Len(t)
  <2>1. n \in 1 .. Len(s) /\ n \in 1 .. Len(t) /\ s[n] # t[n]
    BY <1>1, <1>2, <1>5, <1>6 DEF FirstAt
  <2>2. s[n] \in Int /\ t[n] \in Int /\ s # t
    BY <1>1, <2>1
  <2>3. CompareText(s, t) = IF s[n] < t[n] THEN -1 ELSE 1
    BY <1>2, <1>6, <2>1, <2>2 DEF Sign
  <2> QED
    BY <1>4, <1>6, <2>1, <2>2, <2>3
<1>7. CASE ~(n <= Len(s) /\ n <= Len(t))
  <2>1. CompareText(s, t) = Sign(Len(s), Len(t))
    BY <1>2, <1>7
  <2>2. CASE Len(s) = Len(t)
    <3>1. n - 1 = Len(s)
      BY <1>1, <1>5, <1>7, <2>2
    <3>2. \A i \in 1 .. Len(s) : s[i] = t[i]
      BY <1>2, <3>1 DEF FirstAt
    <3>3. s = t
      BY <2>2, <3>2, SeqEqual
    <3> QED
      BY <1>1, <1>4, <1>7, <2>1, <2>2, <3>3 DEF Sign
  <2>3. CASE Len(s) # Len(t)
    BY <1>1, <1>4, <1>5, <1>7, <2>1, <2>3 DEF Sign
  <2> QED
    BY <2>2, <2>3
<1> QED
  BY <1>6, <1>7

Canonical(s) == ValidPrerelease(s) /\ s \in Seq(Int)

(* Identifiers compare as their ranks do.                                    *)
LEMMA NumbersCompare ==
  ASSUME NEW s \in Digits, NEW t \in Digits, Canonical(s), Canonical(t)
  PROVE  /\ CompareIdentifiers(s, t) \in {-1, 0, 1}
         /\ CompareIdentifiers(s, t) = -1 <=> Value(s) < Value(t)
         /\ CompareIdentifiers(s, t) = 0 <=> Value(s) = Value(t)
         /\ Value(s) \in Int /\ Value(t) \in Int
<1>1. /\ Len(s) \in Nat /\ Len(s) >= 1 /\ (Len(s) # 1 => s[1] # 0)
      /\ Len(t) \in Nat /\ Len(t) >= 1 /\ (Len(t) # 1 => t[1] # 0)
      /\ s \in Seq(Int) /\ t \in Seq(Int) /\ AllDigits(s) /\ AllDigits(t)
  <2>1. AllDigits(s) /\ AllDigits(t) /\ s \in Seq(Int) /\ t \in Seq(Int)
    BY DEF Digits
  <2>2. s # << >> /\ t # << >>
    BY DEF Canonical, ValidPrerelease
  <2> QED
    BY <2>1, <2>2, EmptySeq, LenProperties DEF Canonical, ValidPrerelease
<1>2. Value(s) \in Int /\ Value(t) \in Int
  <2>1. ASSUME NEW x \in Seq(Int) PROVE Value(x) \in Int
    <3>1. PICK v : PrefixValues(x, v) /\ Value(x) = v[Len(x)]
      BY ValueOfPrefixes
    <3>2. Len(x) \in 0 .. Len(x)
      BY LenProperties
    <3> QED
      BY <3>1, <3>2 DEF PrefixValues
  <2> QED
    BY <1>1, <2>1
<1>3. CASE Len(s) # Len(t)
  <2>1. CompareIdentifiers(s, t) = IF Len(s) < Len(t) THEN -1 ELSE 1
    BY <1>1, <1>3 DEF CompareIdentifiers, Sign
  <2>2. Len(s) < Len(t) => Value(s) < Value(t)
    <3> HAVE Len(s) < Len(t)
    <3>1. t[1] # 0
      BY <1>1
    <3> QED
      BY <3>1, LongerIsLarger
  <2>3. Len(t) < Len(s) => Value(t) < Value(s)
    <3> HAVE Len(t) < Len(s)
    <3>1. s[1] # 0
      BY <1>1
    <3> QED
      BY <3>1, LongerIsLarger
  <2> QED
    BY <1>1, <1>2, <1>3, <2>1, <2>2, <2>3
<1>4. CASE Len(s) = Len(t)
  <2>1. CompareIdentifiers(s, t) = CompareText(s, t)
    BY <1>1, <1>4 DEF CompareIdentifiers
  <2>2. ASSUME NEW x \in Digits, NEW y \in Digits, Len(x) = Len(y), RankBefore(x, y)
        PROVE  Value(x) < Value(y)
    <3>0. x \in Seq(Int) /\ y \in Seq(Int) /\ Len(x) \in Nat
      BY LenProperties DEF Digits
    <3>1. PICK n \in 1 .. Len(y) : /\ n <= Len(x) + 1
                                   /\ \A i \in 1 .. n - 1 : x[i] = y[i]
                                   /\ n <= Len(x) => x[n] < y[n]
      BY <2>2 DEF RankBefore, Before
    <3>2. n \in 1 .. Len(x) /\ x[n] < y[n]
      BY <2>2, <3>0, <3>1
    <3> QED
      BY <2>2, <3>1, <3>2, FirstDigitDecides
  <2>3. /\ CompareText(s, t) \in {-1, 0, 1}
        /\ CompareText(s, t) = -1 <=> RankBefore(s, t)
        /\ CompareText(s, t) = 1 => RankBefore(t, s)
        /\ CompareText(s, t) = 0 <=> s = t
    BY <1>1, TextCompares
  <2>4. RankBefore(s, t) => Value(s) < Value(t)
    BY <1>4, <2>2
  <2>5. RankBefore(t, s) => Value(t) < Value(s)
    BY <1>4, <2>2
  <2> QED
    BY <1>2, <2>1, <2>3, <2>4, <2>5
<1> QED
  BY <1>2, <1>3, <1>4

LEMMA RanksOfWords ==
  ASSUME NEW s \in Seq(Int), NEW t \in Seq(Int)
  PROVE  /\ RankBefore(<<1>> \o s, <<1>> \o t) <=> RankBefore(s, t)
         /\ <<1>> \o s = <<1>> \o t <=> s = t
<1> DEFINE x == <<1>> \o s
           y == <<1>> \o t
<1>1. /\ Len(s) \in Nat /\ Len(t) \in Nat
      /\ x \in Seq(Int) /\ Len(x) = Len(s) + 1 /\ \A i \in 1 .. Len(x) : x[i] = IF i = 1 THEN 1 ELSE s[i - 1]
      /\ y \in Seq(Int) /\ Len(y) = Len(t) + 1 /\ \A i \in 1 .. Len(y) : y[i] = IF i = 1 THEN 1 ELSE t[i - 1]
  OBVIOUS
<1>2. x = y => s = t
  <2> HAVE x = y
  <2>1. Len(s) = Len(t)
    BY <1>1
  <2>2. \A i \in 1 .. Len(s) : s[i] = t[i]
    <3> TAKE i \in 1 .. Len(s)
    <3>1. i + 1 \in 1 .. Len(x) /\ i + 1 # 1 /\ (i + 1) - 1 = i
      BY <1>1
    <3> QED
      BY <1>1, <3>1
  <2> QED
    BY <2>1, <2>2, SeqEqual
<1>3. RankBefore(x, y) <=> RankBefore(s, t)
  <2>1. PICK n \in Nat : FirstAt(s, t, n)
    BY FirstIsShared
  <2> HIDE DEF x, y
  <2>2. FirstAt(x, y, n + 1)
    <3>1. n \in Nat /\ n >= 1 /\ n <= Len(s) + 1 /\ n <= Len(t) + 1
      BY <2>1 DEF FirstAt
    <3>0. (n + 1) - 1 = n /\ n + 1 \in Nat
      BY <3>1
    <3>2. \A i \in 1 .. (n + 1) - 1 : x[i] = y[i]
      <4> SUFFICES ASSUME NEW i \in 1 .. n PROVE x[i] = y[i]
        BY <3>0
      <4>1. i \in 1 .. Len(x) /\ i \in 1 .. Len(y) /\ (i # 1 => i - 1 \in 1 .. n - 1)
        <5>1. Len(s) \in Nat /\ Len(t) \in Nat /\ Len(x) = Len(s) + 1 /\ Len(y) = Len(t) + 1
          BY <1>1
        <5> QED
          BY <3>1, <5>1
      <4>2. i # 1 => s[i - 1] = t[i - 1]
        BY <2>1, <4>1 DEF FirstAt
      <4> QED
        BY <1>1, <4>1, <4>2
    <3>3. n + 1 <= Len(x) /\ n + 1 <= Len(y) => x[n + 1] # y[n + 1]
      <4> HAVE n + 1 <= Len(x) /\ n + 1 <= Len(y)
      <4>1. /\ n <= Len(s) /\ n <= Len(t) /\ n + 1 \in 1 .. Len(x) /\ n + 1 \in 1 .. Len(y)
            /\ n + 1 # 1 /\ (n + 1) - 1 = n
        BY <1>1, <3>1
      <4>2. x[n + 1] = s[n] /\ y[n + 1] = t[n]
        BY <1>1, <4>1
      <4> QED
        BY <2>1, <4>1, <4>2 DEF FirstAt
    <3>4. n + 1 >= 1 /\ n + 1 <= Len(x) + 1 /\ n + 1 <= Len(y) + 1
      <4>1. Len(s) \in Nat /\ Len(t) \in Nat /\ Len(x) = Len(s) + 1 /\ Len(y) = Len(t) + 1
        BY <1>1
      <4> QED
        BY <3>1, <4>1
    <3> QED
      BY <3>2, <3>3, <3>4 DEF FirstAt
  <2>6. n \in Nat /\ n >= 1 /\ n + 1 \in Nat /\ n + 1 # 1 /\ (n + 1) - 1 = n
    <3>1. n \in Nat /\ n >= 1
      BY <2>1 DEF FirstAt
    <3> QED
      BY <3>1
  <2>3. n + 1 <= Len(x) /\ n + 1 <= Len(y) => x[n + 1] = s[n] /\ y[n + 1] = t[n]
    <3> HAVE n + 1 <= Len(x) /\ n + 1 <= Len(y)
    <3>1. Len(x) \in Nat /\ Len(y) \in Nat
      BY <1>1
    <3>2. n + 1 \in 1 .. Len(x) /\ n + 1 \in 1 .. Len(y)
      BY <2>6, <3>1
    <3> QED
      BY <1>1, <2>6, <3>2
  <2>4. RankBefore(s, t) <=> n <= Len(t) /\ (n <= Len(s) => s[n] < t[n])
    BY <2>1, FirstDecides
  <2>5. RankBefore(x, y) <=> n + 1 <= Len(y) /\ (n + 1 <= Len(x) => x[n + 1] < y[n + 1])
    BY <1>1, <2>2, <2>6, FirstDecides
  <2> QED
    BY <1>1, <2>3, <2>4, <2>5, <2>6
<1> QED
  BY <1>2, <1>3

(* Ranks of one or two numbers, and of those that differ at once.            *)
LEMMA FirstRankDecides ==
  ASSUME NEW s \in Seq(Int), NEW t \in Seq(Int), NEW m \in Int, NEW n \in Int, m # n
  PROVE  (RankBefore(<<m>> \o s, <<n>> \o t) <=> m < n) /\ <<m>> \o s # <<n>> \o t
<1> DEFINE x == <<m>> \o s
           y == <<n>> \o t
<1>1. /\ x \in Seq(Int) /\ Len(x) >= 1 /\ x[1] = m
      /\ y \in Seq(Int) /\ Len(y) >= 1 /\ y[1] = n
  OBVIOUS
<1>2. Len(x) \in Nat /\ Len(y) \in Nat
  BY <1>1, LenProperties
<1> HIDE DEF x, y
<1>3. FirstAt(x, y, 1)
  BY <1>1, <1>2 DEF FirstAt
<1>4. RankBefore(x, y) <=> 1 <= Len(y) /\ (1 <= Len(x) => x[1] < y[1])
  BY <1>1, <1>3, FirstDecides
<1>5. (RankBefore(x, y) <=> m < n) /\ x # y
  BY <1>1, <1>4
<1> QED
  BY <1>5 DEF x, y

LEMMA ShortRanks ==
  ASSUME NEW a \in Int, NEW b \in Int
  PROVE  /\ RankBefore(<<a>>, <<b>>) <=> a < b
         /\ RankBefore(<<0, a>>, <<0, b>>) <=> a < b
<1>1. RankBefore(<<a>>, <<b>>) <=> a < b
  BY DEF RankBefore, Before
<1>2. a < b => RankBefore(<<0, a>>, <<0, b>>)
  <2> HAVE a < b
  <2>1. 2 \in 1 .. 2 /\ \A i \in 1 .. 1 : <<0, a>>[i] = <<0, b>>[i]
    OBVIOUS
  <2> QED
    BY <2>1 DEF RankBefore, Before
<1>3. RankBefore(<<0, a>>, <<0, b>>) => a < b
  BY DEF RankBefore, Before
<1> QED
  BY <1>1, <1>2, <1>3

LEMMA IdentifiersCompare ==
  ASSUME NEW s, NEW t, Canonical(s), Canonical(t)
  PROVE  /\ CompareIdentifiers(s, t) \in {-1, 0, 1}
         /\ CompareIdentifiers(s, t) = -1 <=> RankBefore(Rank(s), Rank(t))
         /\ CompareIdentifiers(s, t) = 0 <=> Rank(s) = Rank(t)
         /\ Rank(s) \in Seq(Int) /\ Rank(t) \in Seq(Int)
<1>1. s \in Seq(Int) /\ t \in Seq(Int)
  BY DEF Canonical
<1>2. ASSUME NEW x \in Seq(Int), AllDigits(x), Canonical(x)
      PROVE  x \in Digits /\ Value(x) \in Int /\ Rank(x) = <<0, Value(x)>> /\ Rank(x) = <<0>> \o <<Value(x)>>
  <2>1. x \in Digits
    BY <1>2 DEF Digits
  <2>2. Value(x) \in Int
    BY <1>2, <2>1, NumbersCompare
  <2> QED
    BY <1>2, <2>1, <2>2 DEF Rank
<1>3. ASSUME NEW x \in Seq(Int), ~AllDigits(x) PROVE Rank(x) = <<1>> \o x
  BY <1>3 DEF Rank
<1>4. Rank(s) \in Seq(Int) /\ Rank(t) \in Seq(Int)
  <2>1. ASSUME NEW x \in Seq(Int), Canonical(x) PROVE Rank(x) \in Seq(Int)
    <3>1. CASE AllDigits(x)
      <4>1. Rank(x) = <<0, Value(x)>> /\ Value(x) \in Int
        BY <1>2, <2>1, <3>1
      <4> QED
        BY <4>1
    <3>2. CASE ~AllDigits(x)
      BY SMTT(30), <1>3, <2>1, <3>2
    <3> QED
      BY <3>1, <3>2
  <2> QED
    BY <1>1, <2>1
<1>5. CASE AllDigits(s) /\ AllDigits(t)
  <2>1. /\ s \in Digits /\ Value(s) \in Int /\ Rank(s) = <<0, Value(s)>>
        /\ t \in Digits /\ Value(t) \in Int /\ Rank(t) = <<0, Value(t)>>
    BY <1>1, <1>2, <1>5
  <2>2. /\ CompareIdentifiers(s, t) \in {-1, 0, 1}
        /\ CompareIdentifiers(s, t) = -1 <=> Value(s) < Value(t)
        /\ CompareIdentifiers(s, t) = 0 <=> Value(s) = Value(t)
    BY <2>1, NumbersCompare
  <2>3. RankBefore(Rank(s), Rank(t)) <=> Value(s) < Value(t)
    BY <2>1, ShortRanks
  <2>4. Rank(s) = Rank(t) <=> Value(s) = Value(t)
    BY <2>1
  <2> QED
    BY <1>4, <2>2, <2>3, <2>4
<1>6. CASE AllDigits(s) /\ ~AllDigits(t)
  <2>1. CompareIdentifiers(s, t) = -1
    BY <1>6 DEF CompareIdentifiers
  <2>2. Rank(s) = <<0>> \o <<Value(s)>> /\ Rank(t) = <<1>> \o t /\ <<Value(s)>> \in Seq(Int)
    BY <1>1, <1>2, <1>3, <1>6
  <2>3. RankBefore(<<0>> \o <<Value(s)>>, <<1>> \o t) /\ <<0>> \o <<Value(s)>> # <<1>> \o t
    <3>1. 0 \in Int /\ 1 \in Int /\ 0 # 1 /\ 0 < 1
      OBVIOUS
    <3> QED
      BY <1>1, <2>2, <3>1, FirstRankDecides
  <2> QED
    BY <1>4, <2>1, <2>2, <2>3
<1>7. CASE ~AllDigits(s) /\ AllDigits(t)
  <2>1. CompareIdentifiers(s, t) = 1
    BY <1>7 DEF CompareIdentifiers
  <2>2. Rank(t) = <<0>> \o <<Value(t)>> /\ Rank(s) = <<1>> \o s /\ <<Value(t)>> \in Seq(Int)
    BY <1>1, <1>2, <1>3, <1>7
  <2>3. ~RankBefore(<<1>> \o s, <<0>> \o <<Value(t)>>) /\ <<1>> \o s # <<0>> \o <<Value(t)>>
    <3>1. 0 \in Int /\ 1 \in Int /\ 0 # 1 /\ ~(1 < 0)
      OBVIOUS
    <3> QED
      BY <1>1, <2>2, <3>1, FirstRankDecides
  <2> QED
    BY <1>4, <2>1, <2>2, <2>3
<1>8. CASE ~AllDigits(s) /\ ~AllDigits(t)
  <2>1. CompareIdentifiers(s, t) = CompareText(s, t)
    BY <1>8 DEF CompareIdentifiers, AllDigits
  <2>2. Rank(s) = <<1>> \o s /\ Rank(t) = <<1>> \o t
    BY <1>1, <1>3, <1>8
  <2>3. /\ CompareText(s, t) \in {-1, 0, 1}
        /\ CompareText(s, t) = -1 <=> RankBefore(s, t)
        /\ CompareText(s, t) = 0 <=> s = t
    BY <1>1, TextCompares
  <2>4. /\ RankBefore(<<1>> \o s, <<1>> \o t) <=> RankBefore(s, t)
        /\ <<1>> \o s = <<1>> \o t <=> s = t
    BY <1>1, RanksOfWords
  <2> QED
    BY <1>4, <2>1, <2>2, <2>3, <2>4
<1> QED
  BY <1>5, <1>6, <1>7, <1>8

(* The ranks of a version: three numbers, and those of the identifiers, or   *)
(* the one of a release.                                                     *)
LEMMA RanksOfVersion ==
  ASSUME NEW v \in [core : Seq(Seq(Int)), pre : Seq(Seq(Int))], Parses(v)
  PROVE  /\ Len(v.pre) \in Nat /\ DOMAIN v.pre = 1 .. Len(v.pre)
         /\ v.pre = << >> <=> Len(v.pre) = 0
         /\ Len(v.core) = 3 /\ DOMAIN v.core = 1 .. 3
         /\ \A i \in 1 .. 3 : Value(v.core[i]) \in Int
         /\ \A i \in 1 .. Len(v.pre) : Canonical(v.pre[i])
         /\ Len(Ranks(v)) = IF v.pre = << >> THEN 4 ELSE 3 + Len(v.pre)
         /\ \A i \in 1 .. 3 : Ranks(v)[i] = <<Value(v.core[i])>>
         /\ v.pre = << >> => Ranks(v)[4] = <<2>>
         /\ v.pre # << >> => \A i \in 1 .. Len(v.pre) : Ranks(v)[3 + i] = Rank(v.pre[i])
<1>1. /\ v.core \in Seq(Seq(Int)) /\ v.pre \in Seq(Seq(Int)) /\ Len(v.core) = 3
      /\ DOMAIN v.core = 1 .. 3 /\ DOMAIN v.pre = 1 .. Len(v.pre) /\ Len(v.pre) \in Nat
  BY LenProperties DEF Parses
<1>2. v.pre = << >> <=> Len(v.pre) = 0
  BY <1>1, EmptySeq
<1>3. ASSUME NEW i \in 1 .. 3 PROVE Value(v.core[i]) \in Int
  <2>1. v.core[i] \in Seq(Int)
    BY <1>1, ElementOfSeq
  <2>2. PICK f : PrefixValues(v.core[i], f) /\ Value(v.core[i]) = f[Len(v.core[i])]
    BY <2>1, ValueOfPrefixes
  <2>3. Len(v.core[i]) \in 0 .. Len(v.core[i])
    BY <2>1, LenProperties
  <2> QED
    BY <2>2, <2>3 DEF PrefixValues
<1>4. ASSUME NEW i \in 1 .. Len(v.pre) PROVE Canonical(v.pre[i])
  <2>1. v.pre[i] \in Seq(Int)
    BY <1>1, ElementOfSeq
  <2> QED
    BY <1>1, <2>1 DEF Parses, Canonical
<1> DEFINE numbers == [i \in DOMAIN v.core |-> <<Value(v.core[i])>>]
           rest == IF v.pre = << >> THEN << <<2>> >> ELSE [i \in DOMAIN v.pre |-> Rank(v.pre[i])]
           Any == {numbers[i] : i \in 1 .. 3} \cup {rest[i] : i \in DOMAIN rest}
<1>5. numbers \in Seq(Any) /\ Len(numbers) = 3 /\ \A i \in 1 .. 3 : numbers[i] = <<Value(v.core[i])>>
  <2>1. numbers \in [1 .. 3 -> Any]
    BY <1>1
  <2> QED
    BY <1>1, <2>1
<1>6. rest \in Seq(Any) /\ Len(rest) = IF v.pre = << >> THEN 1 ELSE Len(v.pre)
  <2>1. CASE v.pre = << >>
    BY <2>1
  <2>2. CASE v.pre # << >>
    <3>1. rest \in [1 .. Len(v.pre) -> Any]
      BY <1>1, <2>2
    <3> QED
      BY <1>1, <2>2, <3>1
  <2> QED
    BY <2>1, <2>2
<1>7. Ranks(v) = numbers \o rest
  BY DEF Ranks
<1>8. v.pre = << >> => rest[1] = <<2>>
  OBVIOUS
<1>9. v.pre # << >> => \A i \in 1 .. Len(v.pre) : rest[i] = Rank(v.pre[i])
  BY <1>1
<1> HIDE DEF numbers, rest, Any
<1>10. /\ Len(numbers \o rest) = 3 + Len(rest)
       /\ \A i \in 1 .. 3 + Len(rest) :
            (numbers \o rest)[i] = IF i <= 3 THEN numbers[i] ELSE rest[i - 3]
  <2>1. /\ Len(numbers \o rest) = Len(numbers) + Len(rest)
        /\ \A i \in 1 .. Len(numbers) + Len(rest) :
             (numbers \o rest)[i] = IF i <= Len(numbers) THEN numbers[i] ELSE rest[i - Len(numbers)]
    <3>1. numbers \in Seq(Any) /\ rest \in Seq(Any)
      BY <1>5, <1>6
    <3> QED
      BY <3>1, ConcatProperties, Zenon
  <2>2. Len(numbers) = 3
    BY <1>5
  <2> QED
    BY <2>1, <2>2
<1>12. \A i \in 1 .. 3 : Ranks(v)[i] = <<Value(v.core[i])>>
  <2>1. Len(rest) \in Nat
    BY <1>6, LenProperties
  <2> TAKE i \in 1 .. 3
  <2>2. i \in 1 .. 3 + Len(rest) /\ i <= 3
    BY <2>1
  <2>3. Ranks(v)[i] = numbers[i]
    BY <1>7, <1>10, <2>2
  <2> QED
    BY <1>5, <2>3
<1>13. \A i \in 1 .. Len(rest) : Ranks(v)[3 + i] = rest[i]
  <2>1. Len(rest) \in Nat
    BY <1>6, LenProperties
  <2> TAKE i \in 1 .. Len(rest)
  <2>2. 3 + i \in 1 .. 3 + Len(rest) /\ ~(3 + i <= 3) /\ (3 + i) - 3 = i
    BY <2>1
  <2> QED
    BY <1>7, <1>10, <2>2
<1>14. v.pre = << >> => Ranks(v)[4] = <<2>>
  <2> HAVE v.pre = << >>
  <2>1. 1 \in 1 .. Len(rest) /\ 3 + 1 = 4
    BY <1>6
  <2> QED
    BY <1>8, <1>13, <2>1
<1>15. v.pre # << >> => \A i \in 1 .. Len(v.pre) : Ranks(v)[3 + i] = Rank(v.pre[i])
  BY <1>6, <1>9, <1>13
<1>16. Len(Ranks(v)) = IF v.pre = << >> THEN 4 ELSE 3 + Len(v.pre)
  BY <1>6, <1>7, <1>10
<1> QED
  BY <1>1, <1>2, <1>3, <1>4, <1>12, <1>14, <1>15, <1>16

LEMMA FirstRanksDecide ==
  ASSUME NEW r, NEW q, Len(r) \in Nat, Len(q) \in Nat, NEW n \in Nat, FirstAt(r, q, n),
         \A i \in 1 .. n - 1 : ~RankBefore(r[i], r[i])
  PROVE  Before(r, q, RankBefore) <=> n <= Len(q) /\ (n <= Len(r) => RankBefore(r[n], q[n]))
<1>1. Before(r, q, RankBefore) <=> \E m \in 1 .. Len(q) : /\ m <= Len(r) + 1
                                                          /\ \A i \in 1 .. m - 1 : r[i] = q[i]
                                                          /\ m <= Len(r) => RankBefore(r[m], q[m])
  BY DEF Before
<1>2. ASSUME n <= Len(q), n <= Len(r) => RankBefore(r[n], q[n]) PROVE Before(r, q, RankBefore)
  <2>1. n \in 1 .. Len(q)
    BY <1>2 DEF FirstAt
  <2> QED
    BY <1>1, <1>2, <2>1 DEF FirstAt
<1>3. ASSUME NEW m \in 1 .. Len(q), m <= Len(r) + 1, \A i \in 1 .. m - 1 : r[i] = q[i],
             m <= Len(r) => RankBefore(r[m], q[m])
      PROVE  m = n
  <2>1. CASE m < n
    <3>1. m \in 1 .. n - 1 /\ m <= Len(r)
      BY <2>1 DEF FirstAt
    <3> QED
      BY <1>3, <3>1 DEF FirstAt
  <2>2. CASE n < m
    <3>1. n \in 1 .. m - 1 /\ n <= Len(r) /\ n <= Len(q)
      BY <1>3, <2>2 DEF FirstAt
    <3> QED
      BY <1>3, <3>1 DEF FirstAt
  <2> QED
    BY <2>1, <2>2
<1>4. ASSUME Before(r, q, RankBefore) PROVE n <= Len(q) /\ (n <= Len(r) => RankBefore(r[n], q[n]))
  <2>1. PICK m \in 1 .. Len(q) : /\ m <= Len(r) + 1
                                 /\ \A i \in 1 .. m - 1 : r[i] = q[i]
                                 /\ m <= Len(r) => RankBefore(r[m], q[m])
    BY <1>1, <1>4
  <2>2. m = n
    BY <1>3, <2>1
  <2> QED
    BY <2>1, <2>2
<1> QED
  BY <1>2, <1>4

LEMMA NoRankBeforeItself ==
  ASSUME NEW s \in Seq(Int) PROVE ~RankBefore(s, s)
<1>1. Len(s) \in Nat /\ \A i \in 1 .. Len(s) : s[i] \in Int
  OBVIOUS
<1> QED
  BY <1>1 DEF RankBefore, Before

(* update.go: compareSemanticVersions puts the versions in the order of      *)
(* their precedence, with numbers of any size.                               *)
LEMMA VersionsCompare ==
  ASSUME NEW v \in [core : Seq(Seq(Int)), pre : Seq(Seq(Int))], Parses(v),
         NEW w \in [core : Seq(Seq(Int)), pre : Seq(Seq(Int))], Parses(w)
  PROVE  CompareVersions(v, w) < 0 <=> Precedes(v, w)
<1> DEFINE r == Ranks(v)
           q == Ranks(w)
           core == {i \in DOMAIN v.core \cap DOMAIN w.core : CompareNumbers(v.core[i], w.core[i]) # 0}
           pre == {i \in DOMAIN v.pre \cap DOMAIN w.pre : CompareIdentifiers(v.pre[i], w.pre[i]) # 0}
           i1 == CHOOSE i \in core : \A j \in core : i <= j
           i2 == CHOOSE i \in pre : \A j \in pre : i <= j
<1>1. /\ Len(v.pre) \in Nat /\ DOMAIN v.pre = 1 .. Len(v.pre) /\ (v.pre = << >> <=> Len(v.pre) = 0)
      /\ DOMAIN v.core = 1 .. 3 /\ \A i \in 1 .. 3 : Value(v.core[i]) \in Int
      /\ \A i \in 1 .. Len(v.pre) : Canonical(v.pre[i])
      /\ Len(r) = (IF v.pre = << >> THEN 4 ELSE 3 + Len(v.pre))
      /\ \A i \in 1 .. 3 : r[i] = <<Value(v.core[i])>>
      /\ v.pre = << >> => r[4] = <<2>>
      /\ v.pre # << >> => \A i \in 1 .. Len(v.pre) : r[3 + i] = Rank(v.pre[i])
  BY RanksOfVersion
<1>2. /\ Len(w.pre) \in Nat /\ DOMAIN w.pre = 1 .. Len(w.pre) /\ (w.pre = << >> <=> Len(w.pre) = 0)
      /\ DOMAIN w.core = 1 .. 3 /\ \A i \in 1 .. 3 : Value(w.core[i]) \in Int
      /\ \A i \in 1 .. Len(w.pre) : Canonical(w.pre[i])
      /\ Len(q) = (IF w.pre = << >> THEN 4 ELSE 3 + Len(w.pre))
      /\ \A i \in 1 .. 3 : q[i] = <<Value(w.core[i])>>
      /\ w.pre = << >> => q[4] = <<2>>
      /\ w.pre # << >> => \A i \in 1 .. Len(w.pre) : q[3 + i] = Rank(w.pre[i])
  BY RanksOfVersion
<1>3. Precedes(v, w) <=> Before(r, q, RankBefore)
  BY DEF Precedes
<1>4. CompareVersions(v, w) =
        IF core # {} THEN CompareNumbers(v.core[i1], w.core[i1])
        ELSE IF v.pre = << >> \/ w.pre = << >> THEN Sign(Len(w.pre), Len(v.pre))
        ELSE IF pre # {} THEN CompareIdentifiers(v.pre[i2], w.pre[i2])
        ELSE Sign(Len(v.pre), Len(w.pre))
  BY DEF CompareVersions, FirstDifference
<1> HIDE DEF r, q
<1>5. /\ Len(v.pre) \in Nat /\ Len(w.pre) \in Nat
      /\ v.pre = << >> => Len(v.pre) = 0 /\ Len(r) = 4 /\ r[4] = <<2>>
      /\ v.pre # << >> => Len(v.pre) >= 1 /\ Len(r) = 3 + Len(v.pre)
      /\ w.pre = << >> => Len(w.pre) = 0 /\ Len(q) = 4 /\ q[4] = <<2>>
      /\ w.pre # << >> => Len(w.pre) >= 1 /\ Len(q) = 3 + Len(w.pre)
  <2>1. /\ Len(v.pre) \in Nat /\ (v.pre = << >> <=> Len(v.pre) = 0)
        /\ Len(r) = (IF v.pre = << >> THEN 4 ELSE 3 + Len(v.pre)) /\ (v.pre = << >> => r[4] = <<2>>)
    BY <1>1
  <2>2. /\ Len(w.pre) \in Nat /\ (w.pre = << >> <=> Len(w.pre) = 0)
        /\ Len(q) = (IF w.pre = << >> THEN 4 ELSE 3 + Len(w.pre)) /\ (w.pre = << >> => q[4] = <<2>>)
    BY <1>2
  <2> QED
    BY SMTT(30), <2>1, <2>2
<1>6. Len(r) \in Nat /\ Len(r) >= 4 /\ Len(q) \in Nat /\ Len(q) >= 4
  BY SMTT(30), <1>5
<1>7. \A i \in 1 .. 3 : i \in core <=> r[i] # q[i]
  <2> TAKE i \in 1 .. 3
  <2>1. /\ r[i] = <<Value(v.core[i])>> /\ Value(v.core[i]) \in Int /\ i \in DOMAIN v.core
        /\ q[i] = <<Value(w.core[i])>> /\ Value(w.core[i]) \in Int /\ i \in DOMAIN w.core
    BY <1>1, <1>2
  <2>2. i \in core <=> Sign(Value(v.core[i]), Value(w.core[i])) # 0
    BY <2>1 DEF CompareNumbers
  <2>3. r[i] # q[i] <=> Value(v.core[i]) # Value(w.core[i])
    BY <2>1
  <2> QED
    BY SMTT(30), <2>1, <2>2, <2>3 DEF Sign
<1>8. \A i \in 1 .. 3 : RankBefore(r[i], q[i]) <=> Value(v.core[i]) < Value(w.core[i])
  BY <1>1, <1>2, ShortRanks
<1>9. ASSUME NEW i \in 1 .. Len(r) PROVE ~RankBefore(r[i], r[i])
  <2>1. CASE i <= 3
    <3>0. i \in 1 .. 3
      BY <1>6, <2>1
    <3>1. r[i] = <<Value(v.core[i])>> /\ Value(v.core[i]) \in Int
      BY <1>1, <3>0
    <3>2. r[i] \in Seq(Int)
      BY <3>1
    <3> QED
      BY <3>2, NoRankBeforeItself
  <2>2. CASE i > 3 /\ v.pre = << >>
    <3>0. i = 4
      <4>1. Len(r) = 4 /\ i > 3
        BY <1>5, <2>2
      <4> QED
        BY <4>1
    <3>1. r[i] = <<2>>
      BY <1>5, <2>2, <3>0
    <3>2. r[i] \in Seq(Int)
      BY <3>1
    <3> QED
      BY <3>2, NoRankBeforeItself
  <2>3. CASE i > 3 /\ v.pre # << >>
    <3>1. i - 3 \in 1 .. Len(v.pre) /\ 3 + (i - 3) = i
      BY <1>5, <2>3
    <3>2. r[i] = Rank(v.pre[i - 3]) /\ Canonical(v.pre[i - 3])
      BY <1>1, <2>3, <3>1
    <3>3. r[i] \in Seq(Int)
      BY <3>2, IdentifiersCompare
    <3> QED
      BY <3>3, NoRankBeforeItself
  <2> QED
    BY <2>1, <2>2, <2>3
<1>10. ASSUME NEW n \in Nat, FirstAt(r, q, n)
      PROVE  Precedes(v, w) <=> n <= Len(q) /\ (n <= Len(r) => RankBefore(r[n], q[n]))
  <2>1. \A i \in 1 .. n - 1 : i \in 1 .. Len(r)
    BY <1>6, <1>10 DEF FirstAt
  <2>2. \A i \in 1 .. n - 1 : ~RankBefore(r[i], r[i])
    BY <1>9, <2>1
  <2> QED
    BY <1>3, <1>6, <1>10, <2>2, FirstRanksDecide
<1>11. CASE core # {}
  <2>1. core \in SUBSET Nat /\ \A i \in core : i \in 1 .. 3
    <3>1. DOMAIN v.core = 1 .. 3
      BY <1>1
    <3> QED
      BY <3>1
  <2> HIDE DEF core
  <2>2. \E i \in core : \A j \in core : i <= j
    BY <1>11, <2>1, LeastNumber
  <2>3. i1 \in core /\ \A j \in core : i1 <= j
    BY <2>2
  <2> HIDE DEF i1
  <2>4. i1 \in 1 .. 3 /\ r[i1] # q[i1]
    BY <1>7, <2>1, <2>3
  <2>5. \A i \in 1 .. i1 - 1 : r[i] = q[i]
    <3> TAKE i \in 1 .. i1 - 1
    <3>1. i \in 1 .. 3 /\ ~(i1 <= i)
      BY <2>4
    <3> QED
      BY <1>7, <2>3, <3>1
  <2>6. FirstAt(r, q, i1) /\ i1 \in Nat /\ i1 <= Len(r) /\ i1 <= Len(q)
    BY SMTT(30), <1>6, <2>4, <2>5 DEF FirstAt
  <2>7. Precedes(v, w) <=> Value(v.core[i1]) < Value(w.core[i1])
    BY <1>8, <1>10, <2>4, <2>6
  <2>8. CompareVersions(v, w) = Sign(Value(v.core[i1]), Value(w.core[i1]))
    BY <1>4, <1>11 DEF CompareNumbers
  <2>9. Value(v.core[i1]) \in Int /\ Value(w.core[i1]) \in Int
    BY <1>1, <1>2, <2>4
  <2> QED
    BY <2>7, <2>8, <2>9 DEF Sign
<1>12. CASE core = {} /\ (v.pre = << >> \/ w.pre = << >>)
  <2>1. \A i \in 1 .. 3 : r[i] = q[i]
    BY <1>7, <1>12
  <2>2. CompareVersions(v, w) = Sign(Len(w.pre), Len(v.pre))
    BY <1>4, <1>12
  <2>3. CASE v.pre = << >> /\ w.pre = << >>
    <3>1. r[4] = q[4] /\ Len(r) = 4 /\ Len(q) = 4
      BY <1>1, <1>2, <2>3
    <3>2. \A i \in 1 .. 5 - 1 : r[i] = q[i]
      BY <2>1, <3>1
    <3>3. FirstAt(r, q, 5)
      BY <3>1, <3>2 DEF FirstAt
    <3> HIDE DEF r, q
    <3>4. 5 \in Nat /\ ~(5 <= Len(q))
      BY <3>1
    <3>5. Precedes(v, w) => 5 <= Len(q)
      BY <1>10, <3>3, <3>4
    <3> QED
      BY <1>1, <1>2, <2>2, <2>3, <3>4, <3>5 DEF Sign
  <2>4. ASSUME NEW x \in Seq(Seq(Int)), x # << >>, \A i \in 1 .. Len(x) : Canonical(x[i])
        PROVE  RankBefore(Rank(x[1]), <<2>>) /\ ~RankBefore(<<2>>, Rank(x[1])) /\ Rank(x[1]) # <<2>>
    <3>1. Canonical(x[1]) /\ x[1] \in Seq(Int)
      <4>1. Len(x) \in Nat /\ Len(x) # 0
        BY <2>4, LenProperties, EmptySeq
      <4>2. 1 \in 1 .. Len(x)
        BY <4>1
      <4> QED
        BY <2>4, <4>2 DEF Canonical
    <3>2. <<2>> = <<2>> \o << >> /\ << >> \in Seq(Int) /\ 0 \in Int /\ 1 \in Int /\ 2 \in Int
      OBVIOUS
    <3>3. CASE AllDigits(x[1])
      <4>1. x[1] \in Digits
        BY <3>1, <3>3 DEF Digits
      <4>2. Value(x[1]) \in Int
        BY <3>1, <4>1, NumbersCompare
      <4>3. Rank(x[1]) = <<0>> \o <<Value(x[1])>> /\ <<Value(x[1])>> \in Seq(Int)
        BY <3>3, <4>2 DEF Rank
      <4>4. 0 # 2 /\ 2 # 0 /\ 0 < 2 /\ ~(2 < 0)
        OBVIOUS
      <4>5. (RankBefore(<<0>> \o <<Value(x[1])>>, <<2>> \o << >>) <=> 0 < 2)
            /\ <<0>> \o <<Value(x[1])>> # <<2>> \o << >>
        BY <3>2, <4>3, <4>4, FirstRankDecides
      <4>6. RankBefore(<<2>> \o << >>, <<0>> \o <<Value(x[1])>>) <=> 2 < 0
        BY <3>2, <4>3, <4>4, FirstRankDecides
      <4> QED
        BY <3>2, <4>3, <4>4, <4>5, <4>6
    <3>4. CASE ~AllDigits(x[1])
      <4>1. Rank(x[1]) = <<1>> \o x[1]
        BY <3>4 DEF Rank
      <4>2. 1 # 2 /\ 2 # 1 /\ 1 < 2 /\ ~(2 < 1)
        OBVIOUS
      <4>3. (RankBefore(<<1>> \o x[1], <<2>> \o << >>) <=> 1 < 2) /\ <<1>> \o x[1] # <<2>> \o << >>
        BY <3>1, <3>2, <4>2, FirstRankDecides
      <4>4. RankBefore(<<2>> \o << >>, <<1>> \o x[1]) <=> 2 < 1
        BY <3>1, <3>2, <4>2, FirstRankDecides
      <4> QED
        BY <3>2, <4>1, <4>2, <4>3, <4>4
    <3> QED
      BY <3>3, <3>4
  <2>5. \A i \in 1 .. 4 - 1 : r[i] = q[i]
    BY <2>1
  <2>6. CASE v.pre = << >> /\ w.pre # << >>
    <3>0. 1 \in 1 .. Len(w.pre) /\ r[4] = <<2>> /\ 3 + 1 = 4
      BY <1>5, <2>6
    <3>1. q[4] = Rank(w.pre[1])
      <4>1. q[3 + 1] = Rank(w.pre[1])
        BY <1>2, <2>6, <3>0
      <4> QED
        BY <3>0, <4>1
    <3>2. ~RankBefore(r[4], q[4]) /\ r[4] # q[4]
      BY <1>2, <2>4, <2>6, <3>0, <3>1
    <3>3. FirstAt(r, q, 4)
      BY <1>6, <2>5, <3>2 DEF FirstAt
    <3>4. ~Precedes(v, w)
      BY <1>6, <1>10, <3>2, <3>3
    <3> QED
      BY <1>1, <1>2, <2>2, <2>6, <3>4 DEF Sign
  <2>7. CASE v.pre # << >> /\ w.pre = << >>
    <3>0. 1 \in 1 .. Len(v.pre) /\ q[4] = <<2>> /\ 3 + 1 = 4
      BY <1>5, <2>7
    <3>1. r[4] = Rank(v.pre[1])
      <4>1. r[3 + 1] = Rank(v.pre[1])
        BY <1>1, <2>7, <3>0
      <4> QED
        BY <3>0, <4>1
    <3>2. RankBefore(r[4], q[4]) /\ r[4] # q[4]
      BY <1>1, <2>4, <2>7, <3>0, <3>1
    <3>3. FirstAt(r, q, 4)
      BY <1>6, <2>5, <3>2 DEF FirstAt
    <3>4. Precedes(v, w)
      BY <1>6, <1>10, <3>2, <3>3
    <3> QED
      BY <1>1, <1>2, <2>2, <2>7, <3>4 DEF Sign
  <2> QED
    BY <1>12, <2>3, <2>6, <2>7
<1>13. CASE core = {} /\ v.pre # << >> /\ w.pre # << >>
  <2>1. \A i \in 1 .. 3 : r[i] = q[i]
    BY <1>7, <1>13
  <2>2. CompareVersions(v, w) = IF pre # {} THEN CompareIdentifiers(v.pre[i2], w.pre[i2])
                                ELSE Sign(Len(v.pre), Len(w.pre))
    BY <1>4, <1>13
  <2>3. /\ Len(r) = 3 + Len(v.pre) /\ \A i \in 1 .. Len(v.pre) : r[3 + i] = Rank(v.pre[i])
        /\ Len(q) = 3 + Len(w.pre) /\ \A i \in 1 .. Len(w.pre) : q[3 + i] = Rank(w.pre[i])
    BY <1>1, <1>2, <1>13
  <2>4. ASSUME NEW i \in Nat, i >= 1, i <= Len(v.pre), i <= Len(w.pre)
        PROVE  /\ i \in pre <=> r[3 + i] # q[3 + i]
               /\ CompareIdentifiers(v.pre[i], w.pre[i]) < 0 <=> RankBefore(r[3 + i], q[3 + i])
    <3>1. i \in 1 .. Len(v.pre) /\ i \in 1 .. Len(w.pre)
      BY <1>1, <1>2, <2>4
    <3>2. /\ CompareIdentifiers(v.pre[i], w.pre[i]) \in {-1, 0, 1}
          /\ CompareIdentifiers(v.pre[i], w.pre[i]) = -1 <=> RankBefore(Rank(v.pre[i]), Rank(w.pre[i]))
          /\ CompareIdentifiers(v.pre[i], w.pre[i]) = 0 <=> Rank(v.pre[i]) = Rank(w.pre[i])
      BY <1>1, <1>2, <3>1, IdentifiersCompare
    <3>3. i \in DOMAIN v.pre \cap DOMAIN w.pre
      BY <1>1, <1>2, <3>1
    <3>4. r[3 + i] = Rank(v.pre[i]) /\ q[3 + i] = Rank(w.pre[i])
      BY <2>3, <3>1
    <3> QED
      BY SMTT(30), <3>2, <3>3, <3>4
  <2>5. pre \in SUBSET Nat /\ \A i \in pre : i >= 1 /\ i <= Len(v.pre) /\ i <= Len(w.pre)
    <3>1. DOMAIN v.pre = 1 .. Len(v.pre) /\ DOMAIN w.pre = 1 .. Len(w.pre)
      BY <1>1, <1>2
    <3> QED
      BY <1>5, <3>1
  <2> HIDE DEF pre
  <2>6. ASSUME NEW n \in Nat, n >= 1, n <= Len(v.pre) + 1, n <= Len(w.pre) + 1,
               \A i \in 1 .. n - 1 : i \notin pre
        PROVE  \A i \in 1 .. (3 + n) - 1 : r[i] = q[i]
    <3> TAKE i \in 1 .. (3 + n) - 1
    <3>0. i \in Int /\ i >= 1
      BY <2>6
    <3>1. CASE i <= 3
      <4>1. i \in 1 .. 3
        BY <3>0, <3>1
      <4> QED
        BY <2>1, <4>1
    <3>2. CASE i > 3
      <4>1. /\ i - 3 \in Nat /\ i - 3 >= 1 /\ i - 3 <= Len(v.pre) /\ i - 3 <= Len(w.pre)
            /\ i - 3 \in 1 .. n - 1 /\ 3 + (i - 3) = i
        BY <1>5, <2>6, <3>2
      <4>2. r[3 + (i - 3)] = q[3 + (i - 3)]
        BY <2>4, <2>6, <4>1
      <4> QED
        BY <4>1, <4>2
    <3> QED
      BY <3>0, <3>1, <3>2
  <2>7. CASE pre # {}
    <3>1. \E i \in pre : \A j \in pre : i <= j
      BY <2>5, <2>7, LeastNumber
    <3>2. i2 \in pre /\ \A j \in pre : i2 <= j
      BY <3>1
    <3> HIDE DEF i2
    <3>3. i2 \in Nat /\ i2 >= 1 /\ i2 <= Len(v.pre) /\ i2 <= Len(w.pre) /\ 3 + i2 \in Nat
      BY <2>5, <3>2
    <3>4. /\ r[3 + i2] # q[3 + i2]
          /\ CompareIdentifiers(v.pre[i2], w.pre[i2]) < 0 <=> RankBefore(r[3 + i2], q[3 + i2])
      BY <2>4, <3>2, <3>3
    <3>5. \A i \in 1 .. i2 - 1 : i \notin pre
      BY <3>2, <3>3
    <3>6. \A i \in 1 .. (3 + i2) - 1 : r[i] = q[i]
      <4>1. i2 <= Len(v.pre) + 1 /\ i2 <= Len(w.pre) + 1
        BY SMTT(30), <1>5, <3>3
      <4> QED
        BY <2>6, <3>3, <3>5, <4>1
    <3>7. FirstAt(r, q, 3 + i2) /\ 3 + i2 <= Len(r) /\ 3 + i2 <= Len(q)
      <4>1. /\ 3 + i2 >= 1 /\ 3 + i2 <= Len(r) /\ 3 + i2 <= Len(q)
            /\ 3 + i2 <= Len(r) + 1 /\ 3 + i2 <= Len(q) + 1
        BY SMTT(30), <1>5, <1>13, <3>3
      <4> QED
        BY <3>4, <3>6, <4>1 DEF FirstAt
    <3>8. Precedes(v, w) <=> RankBefore(r[3 + i2], q[3 + i2])
      BY <1>10, <3>3, <3>7
    <3> QED
      BY <2>2, <2>7, <3>4, <3>8
  <2>8. CASE pre = {}
    <3> DEFINE n == IF Len(v.pre) <= Len(w.pre) THEN Len(v.pre) + 1 ELSE Len(w.pre) + 1
    <3>1. /\ n \in Nat /\ n >= 1 /\ n <= Len(v.pre) + 1 /\ n <= Len(w.pre) + 1 /\ 3 + n \in Nat
          /\ n <= Len(w.pre) <=> Len(v.pre) < Len(w.pre)
          /\ n <= Len(v.pre) <=> Len(w.pre) < Len(v.pre)
      BY SMTT(30), <1>5
    <3> HIDE DEF n
    <3>2. \A i \in 1 .. (3 + n) - 1 : r[i] = q[i]
      BY <2>6, <2>8, <3>1
    <3>3. /\ FirstAt(r, q, 3 + n)
          /\ 3 + n <= Len(q) <=> Len(v.pre) < Len(w.pre)
          /\ 3 + n <= Len(r) <=> Len(w.pre) < Len(v.pre)
      <4>1. /\ 3 + n >= 1 /\ 3 + n <= Len(r) + 1 /\ 3 + n <= Len(q) + 1
            /\ 3 + n <= Len(q) <=> Len(v.pre) < Len(w.pre)
            /\ 3 + n <= Len(r) <=> Len(w.pre) < Len(v.pre)
            /\ ~(3 + n <= Len(r) /\ 3 + n <= Len(q))
        BY SMTT(30), <1>5, <1>13, <3>1
      <4> QED
        BY <3>2, <4>1 DEF FirstAt
    <3>4. Precedes(v, w) <=> Len(v.pre) < Len(w.pre)
      <4>1. Precedes(v, w) <=> 3 + n <= Len(q) /\ (3 + n <= Len(r) => RankBefore(r[3 + n], q[3 + n]))
        BY <1>10, <3>1, <3>3
      <4>2. ~(Len(v.pre) < Len(w.pre) /\ Len(w.pre) < Len(v.pre))
        BY <1>5
      <4> QED
        BY <3>3, <4>1, <4>2
    <3> QED
      BY <1>1, <1>2, <2>2, <2>8, <3>4 DEF Sign
  <2> QED
    BY <2>7, <2>8
<1> QED
  BY <1>11, <1>12, <1>13

LEMMA LessIsPrecedence ==
  ASSUME NEW v \in Labels, NEW w \in Labels
  PROVE  VersionLess(v, w) <=> Parses(v) /\ Parses(w) /\ Precedes(v, w)
<1>1. /\ v \in [core : Seq(Seq(Int)), pre : Seq(Seq(Int))]
      /\ w \in [core : Seq(Seq(Int)), pre : Seq(Seq(Int))]
  BY ReleaseConstants
<1> QED
  BY <1>1, VersionsCompare DEF VersionLess

-----------------------------------------------------------------------------
(* The check for a release.                                                  *)

(* A caller with its request under way holds the mutex alone, and read the   *)
(* clock when it got it.                                                     *)
CallerType == [pc : {"idle", "lock", "fetch"}, force : BOOLEAN, now : Nat]

(* LatestSince, for the releases rs                                          *)
LatestOf(rs, m) ==
  {rs[i].label : i \in {j \in DOMAIN rs : j = Len(rs) \/ rs[j + 1].from >= m}}

(* What is in the cache was true when it was fetched, and lasts as long as   *)
(* its kind.                                                                 *)
Kept(info) ==
  /\ info.checked \in Nat /\ info.checked <= minute
  /\ expires = info.checked + (IF info.failed THEN FailureTTL ELSE SuccessTTL)
  /\ info.failed \in BOOLEAN /\ info.update \in BOOLEAN
  /\ info.failed => ~info.update
  /\ ~info.failed => /\ info.latest \in LatestOf(releases, info.checked)
                     /\ info.update <=> VersionLess(current, info.latest)

ClockInv ==
  /\ minute \in Nat /\ minute >= 1
  /\ \A t \in Callers : caller[t].pc = "fetch" => caller[t].now >= 1 /\ caller[t].now <= minute

ReleasesInv ==
  /\ releases \in Seq([label : Labels, from : Nat]) /\ Len(releases) >= 1
  /\ current \in Labels

ReleaseInv ==
  /\ ClockInv /\ ReleasesInv
  /\ caller \in [Callers -> CallerType]
  /\ \A t, u \in Callers : caller[t].pc = "fetch" /\ caller[u].pc = "fetch" => t = u
  /\ expires \in Nat
  /\ expires # 0 => Kept(cached)

LEMMA CallerMoves ==
  ASSUME caller \in [Callers -> CallerType], NEW t \in Callers, NEW c \in CallerType
  PROVE  /\ [caller EXCEPT ![t] = c] \in [Callers -> CallerType]
         /\ [caller EXCEPT ![t] = c][t] = c
         /\ \A u \in Callers \ {t} : [caller EXCEPT ![t] = c][u] = caller[u]
OBVIOUS

(* The latest release is one that was the latest at any time since.          *)
LEMMA LastIsLatest ==
  ASSUME ReleasesInv, NEW m
  PROVE  releases[Len(releases)].label \in LatestOf(releases, m) /\ releases[Len(releases)].label \in Labels
<1>1. Len(releases) \in DOMAIN releases /\ releases[Len(releases)] \in [label : Labels, from : Nat]
  <2>1. Len(releases) \in Nat /\ Len(releases) >= 1 /\ DOMAIN releases = 1 .. Len(releases)
    BY LenProperties DEF ReleasesInv
  <2>2. Len(releases) \in 1 .. Len(releases)
    BY <2>1
  <2> QED
    BY <2>1, <2>2, ElementOfSeq DEF ReleasesInv
<1> QED
  BY <1>1 DEF LatestOf

(* Publishing a release now leaves the one that was the latest until now     *)
(* among those that were the latest at some time since m.                    *)
LEMMA PublishedLater ==
  ASSUME ClockInv, ReleasesInv, NEW t, Publish, NEW m \in Nat, m <= minute
  PROVE  LatestOf(releases, m) \subseteq LatestOf(releases', m)
<1>1. PICK v \in NewLabels : releases' = Append(releases, [label |-> v, from |-> minute])
  BY DEF Publish
<1> DEFINE r == [label |-> v, from |-> minute]
           n == Len(releases)
<1>2. n \in Nat /\ DOMAIN releases = 1 .. n
  BY LenProperties DEF ReleasesInv
<1>3. r \in [label : Labels, from : Nat] /\ r.from = minute
  BY ReleaseConstants DEF ClockInv
<1> HIDE DEF r
<1>4. /\ Len(releases') = n + 1 /\ DOMAIN releases' = 1 .. n + 1
      /\ \A i \in 1 .. n : releases'[i] = releases[i]
      /\ releases'[n + 1] = r
  BY <1>1, <1>3, AppendProperties, LenProperties DEF ReleasesInv, r
<1> HIDE DEF n
<1>5. ASSUME NEW i \in DOMAIN releases, i = n \/ releases[i + 1].from >= m
      PROVE  releases[i].label \in LatestOf(releases', m)
  <2>1. i \in DOMAIN releases' /\ releases'[i] = releases[i]
    BY <1>2, <1>4
  <2>2. releases'[i + 1].from >= m
    <3>1. CASE i = n
      BY <1>3, <1>4, <3>1
    <3>2. CASE i # n
      <4>1. i + 1 \in 1 .. n
        BY <1>2, <3>2
      <4> QED
        BY <1>4, <1>5, <3>2, <4>1
    <3> QED
      BY <3>1, <3>2
  <2> QED
    BY <2>1, <2>2 DEF LatestOf
<1> QED
  BY <1>5 DEF LatestOf, n

(* What an answer or a failure puts into the cache                           *)
LEMMA StoreKeeps ==
  ASSUME ReleaseInv, NEW t \in Callers, caller[t].pc = "fetch",
         NEW latest, NEW update \in BOOLEAN, NEW failed \in BOOLEAN, NEW ttl,
         Store(t, latest, update, failed, ttl),
         ttl = IF failed THEN FailureTTL ELSE SuccessTTL,
         failed => ~update,
         ~failed => /\ latest \in LatestOf(releases, caller[t].now)
                    /\ update <=> VersionLess(current, latest)
  PROVE  ReleaseInv' /\ Kept(cached)' /\ cached'.checked = caller[t].now
<1>1. /\ minute \in Nat /\ minute >= 1 /\ caller[t].now \in Nat
      /\ caller[t].now >= 1 /\ caller[t].now <= minute
  BY DEF ReleaseInv, ClockInv, CallerType
<1>2. /\ cached' = [latest |-> latest, update |-> update, failed |-> failed,
                    checked |-> caller[t].now]
      /\ expires' = caller[t].now + ttl
      /\ caller' = [caller EXCEPT ![t] = NoCaller]
      /\ UNCHANGED <<minute, current, releases>>
  BY DEF Store, Answered
<1>3. ttl \in Nat \ {0}
  BY ReleaseConstants
<1>4. /\ cached'.latest = latest /\ (cached'.update <=> update) /\ (cached'.failed <=> failed)
      /\ cached'.checked = caller[t].now
      /\ cached'.failed \in BOOLEAN /\ cached'.update \in BOOLEAN
  BY <1>2
<1>5. LatestOf(releases', caller[t].now) = LatestOf(releases, caller[t].now)
  BY <1>2
<1>6. Kept(cached)'
  <2>1. cached'.checked \in Nat /\ cached'.checked <= minute'
    BY <1>1, <1>2, <1>4
  <2>2. expires' = cached'.checked + (IF cached'.failed THEN FailureTTL ELSE SuccessTTL)
    BY <1>2, <1>4
  <2>3. cached'.failed => ~cached'.update
    BY <1>4
  <2>4. ~cached'.failed => /\ cached'.latest \in LatestOf(releases', cached'.checked)
                           /\ cached'.update <=> VersionLess(current', cached'.latest)
    BY <1>2, <1>4, <1>5
  <2> QED
    BY <1>4, <2>1, <2>2, <2>3, <2>4 DEF Kept
<1>7. /\ caller' \in [Callers -> CallerType] /\ caller'[t].pc = "idle"
      /\ \A u \in Callers \ {t} : caller'[u] = caller[u]
  <2>1. NoCaller \in CallerType /\ NoCaller.pc = "idle"
    BY DEF NoCaller, CallerType
  <2> QED
    BY <1>2, <2>1, CallerMoves DEF ReleaseInv
<1>8. \A u \in Callers : caller'[u].pc # "fetch"
  BY <1>7 DEF ReleaseInv
<1>9. expires' \in Nat
  BY <1>1, <1>2, <1>3
<1> QED
  BY <1>2, <1>4, <1>6, <1>7, <1>8, <1>9 DEF ReleaseInv, ClockInv, ReleasesInv

(* An answer is either put into the cache or a failure is.                   *)
LEMMA FetchKeeps ==
  ASSUME ReleaseInv, NEW t \in Callers, FetchLatestRelease(t)
  PROVE  ReleaseInv' /\ Kept(cached)' /\ cached'.checked = caller[t].now
<1>1. caller[t].pc = "fetch"
  BY DEF FetchLatestRelease
<1>2. DEFINE latest == releases[Len(releases)].label
<1>3. CASE Store(t, latest, VersionLess(current, latest), FALSE, SuccessTTL)
  <2>1. latest \in LatestOf(releases, caller[t].now)
    BY LastIsLatest DEF ReleaseInv
  <2>2. VersionLess(current, latest) \in BOOLEAN
    BY DEF VersionLess
  <2> HIDE DEF latest
  <2> QED
    BY <1>1, <1>3, <2>1, <2>2, StoreKeeps
<1>4. CASE Store(t, current, FALSE, TRUE, FailureTTL)
  BY <1>1, <1>4, StoreKeeps
<1> QED
  BY <1>3, <1>4 DEF FetchLatestRelease

LEMMA ReleaseStep ==
  ASSUME ReleaseInv, [ReleaseNext]_releaseVars
  PROVE  ReleaseInv'
<1>1. /\ caller \in [Callers -> CallerType]
      /\ \A t, u \in Callers : caller[t].pc = "fetch" /\ caller[u].pc = "fetch" => t = u
      /\ \A t \in Callers : caller[t].pc = "fetch" => caller[t].now >= 1 /\ caller[t].now <= minute
      /\ minute \in Nat /\ minute >= 1
  BY DEF ReleaseInv, ClockInv
<1>2. ASSUME UNCHANGED <<minute, current, releases, cached, expires>>,
             caller' \in [Callers -> CallerType],
             \A u \in Callers : caller'[u].pc = "fetch" => caller'[u].now >= 1 /\ caller'[u].now <= minute,
             \A u, w \in Callers : caller'[u].pc = "fetch" /\ caller'[w].pc = "fetch" => u = w
      PROVE  ReleaseInv'
  BY <1>2 DEF ReleaseInv, ClockInv, ReleasesInv, Kept
<1>3. ASSUME NEW t \in Callers, HandleVersion(t) PROVE ReleaseInv'
  <2>1. PICK c \in CallerType : c.pc = "lock" /\ caller' = [caller EXCEPT ![t] = c]
    <3>1. PICK force \in BOOLEAN :
            caller' = [caller EXCEPT ![t] = [pc |-> "lock", force |-> force, now |-> 0]]
      BY <1>3 DEF HandleVersion
    <3>2. [pc |-> "lock", force |-> force, now |-> 0] \in CallerType
      BY DEF CallerType
    <3> QED
      BY <3>1, <3>2
  <2>2. /\ caller' \in [Callers -> CallerType] /\ caller'[t].pc = "lock"
        /\ \A u \in Callers \ {t} : caller'[u] = caller[u]
    BY <1>1, <2>1, CallerMoves
  <2>3. \A u \in Callers : caller'[u].pc = "fetch" => u # t /\ caller'[u] = caller[u]
    BY <2>2
  <2> QED
    BY <1>1, <1>2, <1>3, <2>2, <2>3 DEF HandleVersion
<1>4. ASSUME NEW t \in Callers, Check(t) PROVE ReleaseInv'
  <2>1. \A u \in Callers : caller[u].pc # "fetch"
    BY <1>4 DEF Check, Locked
  <2>2. PICK c \in CallerType :
          /\ caller' = [caller EXCEPT ![t] = c]
          /\ c.pc = "fetch" => c.now = minute
    <3>1. CASE Answered(t)
      <4>1. NoCaller \in CallerType /\ NoCaller.pc = "idle"
        BY DEF NoCaller, CallerType
      <4> QED
        BY <3>1, <4>1 DEF Answered
    <3>2. CASE caller' = [caller EXCEPT ![t].pc = "fetch", ![t].now = minute]
      <4>1. caller[t] \in CallerType
        BY <1>1
      <4>2. DEFINE c == [caller[t] EXCEPT !.pc = "fetch", !.now = minute]
      <4>3. c \in CallerType /\ c.now = minute
        BY <1>1, <4>1 DEF CallerType
      <4>4. caller' = [caller EXCEPT ![t] = c]
        BY <3>2
      <4> QED
        BY <4>3, <4>4
    <3> QED
      BY <1>4, <3>1, <3>2 DEF Check
  <2>3. /\ caller' \in [Callers -> CallerType] /\ caller'[t] = c
        /\ \A u \in Callers \ {t} : caller'[u] = caller[u]
    BY <1>1, <2>2, CallerMoves
  <2>4. \A u \in Callers : caller'[u].pc = "fetch" =>
          u = t /\ caller'[u].now >= 1 /\ caller'[u].now <= minute
    BY <1>1, <2>1, <2>2, <2>3
  <2> QED
    BY <1>2, <1>4, <2>3, <2>4 DEF Check
<1>5. CASE Minute
  <2>1. minute' = minute + 1 /\ UNCHANGED <<current, releases, cached, expires, caller>>
    BY <1>5 DEF Minute
  <2>2. minute' \in Nat /\ minute' >= 1 /\ \A n \in Nat : n <= minute => n <= minute'
    BY <1>1, <2>1
  <2>3. \A t \in Callers : caller[t].now \in Nat
    BY <1>1 DEF CallerType
  <2>4. ClockInv'
    BY <1>1, <2>1, <2>2, <2>3 DEF ClockInv
  <2>5. Kept(cached) => Kept(cached)'
    BY <2>1, <2>2 DEF Kept
  <2> QED
    BY <2>1, <2>4, <2>5 DEF ReleaseInv, ReleasesInv
<1>6. CASE Publish
  <2>1. UNCHANGED <<minute, current, cached, expires, caller>>
    BY <1>6 DEF Publish
  <2>2. ReleasesInv'
    <3>1. PICK v \in NewLabels : releases' = Append(releases, [label |-> v, from |-> minute])
      BY <1>6 DEF Publish
    <3>2. [label |-> v, from |-> minute] \in [label : Labels, from : Nat]
      BY <1>1, ReleaseConstants
    <3>3. /\ releases' \in Seq([label : Labels, from : Nat])
          /\ Len(releases') = Len(releases) + 1 /\ Len(releases) \in Nat
      BY <3>1, <3>2, AppendProperties, LenProperties DEF ReleaseInv, ReleasesInv
    <3> QED
      BY <2>1, <3>3 DEF ReleaseInv, ReleasesInv
  <2>3. Kept(cached) => Kept(cached)'
    <3>1. ASSUME Kept(cached)
          PROVE  LatestOf(releases, cached.checked) \subseteq LatestOf(releases', cached.checked)
      BY <1>6, <3>1, PublishedLater DEF ReleaseInv, Kept
    <3>2. ASSUME Kept(cached), ~cached.failed PROVE cached'.latest \in LatestOf(releases', cached'.checked)
      <4>1. cached.latest \in LatestOf(releases', cached.checked)
        BY <3>1, <3>2 DEF Kept
      <4> QED
        BY <2>1, <4>1
    <3> QED
      BY <2>1, <3>2 DEF Kept
  <2> QED
    BY <2>1, <2>2, <2>3 DEF ReleaseInv, ClockInv
<1>7. CASE UNCHANGED releaseVars
  BY <1>7 DEF releaseVars, ReleaseInv, ClockInv, ReleasesInv, Kept
<1> QED
  BY <1>3, <1>4, <1>5, <1>6, <1>7, FetchKeeps DEF ReleaseNext

(* What a caller is told, as UpdateTold has it                               *)
Honest(age, info) ==
  IF info.failed THEN age \in 0 .. FailureTTL - 1 /\ ~info.update
  ELSE /\ age \in 0 .. SuccessTTL - 1
       /\ info.latest \in LatestSince(info.checked)
       /\ info.update <=> /\ Parses(current) /\ Parses(info.latest)
                          /\ Precedes(current, info.latest)

LEMMA KeptIsHonest ==
  ASSUME ReleasesInv, UNCHANGED <<current, releases>>, Kept(cached)',
         NEW age \in Nat, age < IF cached'.failed THEN FailureTTL ELSE SuccessTTL
  PROVE  Honest(age, cached')
<1>1. /\ cached'.failed \in BOOLEAN /\ cached'.update \in BOOLEAN
      /\ cached'.failed => ~cached'.update
      /\ ~cached'.failed => /\ cached'.latest \in LatestOf(releases, cached'.checked)
                            /\ cached'.update <=> VersionLess(current, cached'.latest)
  BY DEF Kept
<1>2. FailureTTL \in Nat /\ SuccessTTL \in Nat
  BY ReleaseConstants
<1>3. CASE cached'.failed
  <2>1. age \in 0 .. FailureTTL - 1
    BY <1>2, <1>3
  <2> QED
    BY <1>1, <1>3, <2>1 DEF Honest
<1>4. CASE ~cached'.failed
  <2>1. age \in 0 .. SuccessTTL - 1
    BY <1>2, <1>4
  <2>2. cached'.latest \in LatestSince(cached'.checked)
    BY <1>1, <1>4 DEF LatestSince, LatestOf
  <2>3. current \in Labels /\ cached'.latest \in Labels
    <3>1. \A i \in DOMAIN releases : releases[i] \in [label : Labels, from : Nat]
      BY ElementOfSeq, LenProperties DEF ReleasesInv
    <3>2. \A i \in DOMAIN releases : releases[i].label \in Labels
      BY <3>1
    <3> QED
      BY <1>1, <1>4, <3>2 DEF LatestOf, ReleasesInv
  <2>4. cached'.update <=> /\ Parses(current) /\ Parses(cached'.latest)
                           /\ Precedes(current, cached'.latest)
    BY <1>1, <1>4, <2>3, LessIsPrecedence
  <2> QED
    BY <1>4, <2>1, <2>2, <2>4 DEF Honest
<1> QED
  BY <1>3, <1>4

(* An answer comes from the cache or from the caller's own request.          *)
LEMMA AnswerIsHonest ==
  ASSUME ReleaseInv, ReleaseNext, NEW t \in Callers,
         caller[t].pc # "idle", caller'[t].pc = "idle"
  PROVE  Honest((IF caller[t].pc = "fetch" THEN caller[t].now ELSE minute) - cached'.checked,
                cached')
<1>1. ReleasesInv /\ minute \in Nat /\ caller \in [Callers -> CallerType]
  BY DEF ReleaseInv, ClockInv
<1>2. FailureTTL \in Nat \ {0} /\ SuccessTTL \in Nat \ {0}
  BY ReleaseConstants
<1>3. CASE Check(t)
  <2>1. /\ caller[t].pc = "lock" /\ UNCHANGED <<minute, current, releases, cached, expires>>
        /\ \/ expires # 0 /\ minute < expires
           \/ caller' = [caller EXCEPT ![t].pc = "fetch", ![t].now = minute]
    BY <1>3 DEF Check
  <2>2. expires # 0 /\ minute < expires
    BY <1>1, <2>1 DEF CallerType
  <2>3. Kept(cached) /\ Kept(cached)'
    BY <2>1, <2>2 DEF ReleaseInv, Kept, LatestOf
  <2>4. PICK ttl \in Nat : ttl = IF cached.failed THEN FailureTTL ELSE SuccessTTL
    BY <1>2
  <2>5. cached.checked \in Nat /\ cached.checked <= minute /\ expires = cached.checked + ttl
    BY <2>3, <2>4 DEF Kept
  <2>6. minute - cached.checked \in Nat /\ minute - cached.checked < ttl
    BY <1>1, <2>2, <2>5
  <2>7. Honest(minute - cached.checked, cached')
    BY <1>1, <2>1, <2>3, <2>4, <2>6, KeptIsHonest
  <2> QED
    BY <2>1, <2>7
<1>4. CASE FetchLatestRelease(t)
  <2>1. caller[t].pc = "fetch" /\ UNCHANGED <<current, releases>>
    BY <1>4 DEF FetchLatestRelease, Store
  <2>2. Kept(cached)' /\ cached'.checked = caller[t].now
    BY <1>4, FetchKeeps
  <2>3. caller[t].now \in Nat
    BY <1>1 DEF CallerType
  <2>4. caller[t].now - cached'.checked = 0
    BY <2>2, <2>3
  <2>5. 0 \in Nat /\ 0 < IF cached'.failed THEN FailureTTL ELSE SuccessTTL
    BY <1>2
  <2>6. Honest(0, cached')
    BY <1>1, <2>1, <2>2, <2>5, KeptIsHonest
  <2> QED
    BY <2>1, <2>4, <2>6
<1>5. ASSUME NEW u \in Callers, HandleVersion(u) \/ Check(u) \/ FetchLatestRelease(u), u # t
      PROVE  FALSE
  <2>1. \E c : caller' = [caller EXCEPT ![u] = c]
    BY <1>1, <1>5 DEF HandleVersion, Check, FetchLatestRelease, Store, Answered
  <2> QED
    BY <1>1, <1>5, <2>1
<1>6. CASE HandleVersion(t)
  BY <1>6 DEF HandleVersion
<1>7. CASE Minute \/ Publish
  BY <1>7 DEF Minute, Publish
<1> QED
  BY <1>3, <1>4, <1>5, <1>6, <1>7 DEF ReleaseNext

(* ReleaseChecker: however callers queue, leave and force refreshes, and     *)
(* whatever is published meanwhile, an answer is younger than its time to    *)
(* live, names a release that was the latest one since it was fetched, and   *)
(* announces an update exactly when that one has the higher precedence.      *)
THEOREM UpdateToldHolds == ReleaseSpec => UpdateTold
<1>1. ReleaseInit => ReleaseInv
  <2> SUFFICES ASSUME ReleaseInit PROVE ReleaseInv
    OBVIOUS
  <2>1. PICK v \in Labels : releases = << [label |-> v, from |-> 0] >>
    BY DEF ReleaseInit
  <2>2. releases \in Seq([label : Labels, from : Nat]) /\ Len(releases) = 1
    BY <2>1
  <2>3. NoCaller \in CallerType /\ NoCaller.pc = "idle"
    BY DEF NoCaller, CallerType
  <2> QED
    BY <2>2, <2>3 DEF ReleaseInit, ReleaseInv, ClockInv, ReleasesInv
<1>2. ReleaseInv /\ [ReleaseNext]_releaseVars => ReleaseInv'
  BY ReleaseStep
<1>3. ASSUME ReleaseInv, [ReleaseNext]_releaseVars
      PROVE  [\A t \in Callers :
                caller[t].pc # "idle" /\ caller'[t].pc = "idle" =>
                  LET age == (IF caller[t].pc = "fetch" THEN caller[t].now ELSE minute)
                             - cached'.checked
                  IN  IF cached'.failed THEN age \in 0 .. FailureTTL - 1 /\ ~cached'.update
                      ELSE /\ age \in 0 .. SuccessTTL - 1
                           /\ cached'.latest \in LatestSince(cached'.checked)
                           /\ cached'.update <=> /\ Parses(current) /\ Parses(cached'.latest)
                                                 /\ Precedes(current, cached'.latest)]_releaseVars
  <2>1. CASE ReleaseNext
    BY <1>3, <2>1, AnswerIsHonest DEF Honest
  <2> QED
    BY <1>3, <2>1
<1> QED
  BY <1>1, <1>2, <1>3, PTL DEF ReleaseSpec, UpdateTold
-----------------------------------------------------------------------------
(* The sum of a function over a finite set, as SumFunction takes it: one    *)
(* element after the other.                                                  *)
Sums(S, f, g) ==
  /\ g[{}] = 0
  /\ \A s \in SUBSET S : g[s] \in Int /\ (s # {} => \E x \in s : g[s] = f[x] + g[s \ {x}])

LEMMA FoldIsSum ==
  ASSUME NEW S, IsFiniteSet(S), NEW f \in [S -> Int]
  PROVE  \E g : Sums(S, f, g) /\ SumFunction(f) = g[S]
<1> DEFINE p(s) == CHOOSE x \in s : TRUE
           Unfold(g) == [s \in SUBSET S |-> IF s = {} THEN 0
                           ELSE f[p(s)] + g[s \ {p(s)}]]
           Few(m) == {s \in SUBSET S : Cardinality(s) <= m}
           Upto(m, g) == /\ g \in [Few(m) -> Int]
                         /\ \A s \in Few(m) : g[s] = IF s = {} THEN 0
                              ELSE f[p(s)] + g[s \ {p(s)}]
           T == {m \in Nat : \E g : Upto(m, g)}
<1>1. ASSUME NEW s \in SUBSET S PROVE IsFiniteSet(s) /\ Cardinality(s) \in Nat /\ Cardinality(s) <= Cardinality(S)
  BY FS_Subset, FS_CardinalityType
<1>2. ASSUME NEW s \in SUBSET S, s # {}
      PROVE  /\ p(s) \in s /\ f[p(s)] \in Int
             /\ s \ {p(s)} \in SUBSET S
             /\ Cardinality(s \ {p(s)}) = Cardinality(s) - 1
  <2>1. p(s) \in s
    BY <1>2
  <2> HIDE DEF p
  <2>2. IsFiniteSet(s)
    BY <1>1
  <2> QED
    BY <2>1, <2>2, FS_RemoveElement
<1> HIDE DEF p
<1>3. Cardinality(S) \in Nat /\ Few(Cardinality(S)) = SUBSET S
  BY <1>1, FS_CardinalityType
<1>4. 0 \in T
  <2>1. Few(0) = {{}}
    BY <1>1, FS_EmptySet
  <2>2. Upto(0, [s \in Few(0) |-> 0])
    <3> HIDE DEF Few
    <3> QED
      BY <2>1
  <2> HIDE DEF Upto
  <2> QED
    BY <2>2
<1>5. ASSUME NEW m \in 0 .. Cardinality(S) - 1, m \in T PROVE m + 1 \in T
  <2>0. m \in Nat /\ m + 1 \in Nat
    BY <1>3
  <2>1. PICK g : Upto(m, g)
    BY <1>5
  <2> DEFINE h == [s \in Few(m + 1) |-> IF s = {} THEN 0
                     ELSE f[p(s)] + g[s \ {p(s)}]]
  <2>2. ASSUME NEW s \in Few(m + 1), s # {}
        PROVE  s \ {p(s)} \in Few(m)
    <3>1. s \in SUBSET S /\ Cardinality(s) \in Nat /\ Cardinality(s) <= m + 1
      BY <1>1
    <3>2. s \ {p(s)} \in SUBSET S /\ Cardinality(s \ {p(s)}) = Cardinality(s) - 1
      BY <1>2, <2>2, <3>1
    <3>3. Cardinality(s \ {p(s)}) <= m
      BY <2>0, <3>1, <3>2
    <3> QED
      BY <3>2, <3>3
  <2>3. \A s \in Few(m) : s \in Few(m + 1) /\ s \in SUBSET S
    BY <1>1, <2>0
  <2>4. \A s \in Few(m + 1) : s \in SUBSET S
    OBVIOUS
  <2>5. {} \in Few(m)
    BY <2>0, FS_EmptySet
  <2> HIDE DEF Few
  <2>6. h \in [Few(m + 1) -> Int]
    <3>1. ASSUME NEW s \in Few(m + 1), s # {}
          PROVE  f[p(s)] + g[s \ {p(s)}] \in Int
      <4>1. f[p(s)] \in Int /\ g[s \ {p(s)}] \in Int
        BY <1>2, <2>1, <2>2, <2>4, <3>1
      <4> QED
        BY <4>1
    <3>2. \A s \in Few(m + 1) :
            (IF s = {} THEN 0 ELSE f[p(s)] + g[s \ {p(s)}]) \in Int
      BY <3>1
    <3> QED
      BY <3>2
  <2>7. \A s \in Few(m) : h[s] = g[s]
    BY <2>1, <2>3
  <2>8. \A s \in Few(m + 1) : h[s] = IF s = {} THEN 0
                 ELSE f[p(s)] + h[s \ {p(s)}]
    BY <2>2, <2>7
  <2> HIDE DEF h
  <2>9. Upto(m + 1, h)
    BY <2>6, <2>8
  <2> HIDE DEF Upto
  <2> QED
    BY <2>0, <2>9
<1>6. Cardinality(S) \in T
  <2> HIDE DEF T
  <2>1. 0 .. Cardinality(S) \subseteq T
    BY <1>3, <1>4, <1>5, Climb
  <2> QED
    BY <1>3, <2>1
<1>7. PICK u : Upto(Cardinality(S), u)
  BY <1>6
<1>8. u = Unfold(u)
  <2>1. u \in [SUBSET S -> Int]
    BY <1>3, <1>7
  <2>2. \A s \in SUBSET S : u[s] = Unfold(u)[s]
    BY <1>3, <1>7
  <2>3. DOMAIN Unfold(u) = SUBSET S
    OBVIOUS
  <2>4. Unfold(u) = [s \in SUBSET S |-> Unfold(u)[s]]
    OBVIOUS
  <2> HIDE DEF Unfold
  <2> QED
    BY <2>1, <2>2, <2>4
<1> DEFINE iter == CHOOSE g : g = Unfold(g)
<1>9. iter = Unfold(iter)
  BY <1>8
<1>10. SumFunction(f) = iter[S]
  BY DEF p, SumFunction, SumFunctionOnSet, FoldFunctionOnSet, MapThenFoldSet
<1> HIDE DEF iter
<1>11. iter[{}] = 0
  BY <1>9
<1>12. \A s \in SUBSET S : s # {} => iter[s] = f[p(s)] + iter[s \ {p(s)}]
  BY <1>9
<1>13. \A s \in SUBSET S : iter[s] \in Int
  <2> DEFINE U == {m \in Nat : \A s \in Few(m) : iter[s] \in Int}
  <2>1. 0 \in U
    <3>1. Few(0) = {{}}
      BY <1>1, FS_EmptySet
    <3> HIDE DEF Few
    <3> QED
      BY <1>11, <3>1
  <2>2. ASSUME NEW m \in 0 .. Cardinality(S) - 1, m \in U PROVE m + 1 \in U
    <3>0. m \in Nat /\ m + 1 \in Nat
      BY <1>3
    <3>1. ASSUME NEW s \in Few(m + 1), s # {} PROVE iter[s] \in Int
      <4>1. s \in SUBSET S /\ Cardinality(s) \in Nat /\ Cardinality(s) <= m + 1
        BY <1>1
      <4>2. /\ s \ {p(s)} \in SUBSET S /\ f[p(s)] \in Int
            /\ Cardinality(s \ {p(s)}) = Cardinality(s) - 1
        BY <1>2, <3>1, <4>1
      <4>3. s \ {p(s)} \in Few(m)
        BY <3>0, <4>1, <4>2
      <4>4. iter[s \ {p(s)}] \in Int
        BY <2>2, <4>3
      <4>5. iter[s] = f[p(s)] + iter[s \ {p(s)}]
        BY <1>12, <3>1, <4>1
      <4> QED
        BY <4>2, <4>4, <4>5
    <3>2. \A s \in Few(m + 1) : iter[s] \in Int
      <4>1. iter[{}] \in Int
        BY <1>11
      <4> HIDE DEF Few
      <4> TAKE s \in Few(m + 1)
      <4>2. CASE s = {}
        BY <4>1, <4>2
      <4>3. CASE s # {}
        BY <3>1, <4>3
      <4> QED
        BY <4>2, <4>3
    <3> QED
      BY <3>0, <3>2
  <2>3. Cardinality(S) \in U
    <3> HIDE DEF U
    <3>1. 0 .. Cardinality(S) \subseteq U
      BY <1>3, <2>1, <2>2, Climb
    <3> QED
      BY <1>3, <3>1
  <2> QED
    BY <1>3, <2>3
<1>14. Sums(S, f, iter)
  BY <1>2, <1>11, <1>12, <1>13 DEF Sums
<1> QED
  BY <1>10, <1>14

(* The sizes of the classes of a finite set add up to its size.              *)
LEMMA SumOfSizes ==
  ASSUME NEW C, IsFiniteSet(C), NEW S, IsFiniteSet(S), NEW F \in [C -> S],
         NEW f \in [S -> Int], \A x \in S : f[x] = Cardinality({r \in C : F[r] = x})
  PROVE  SumFunction(f) = Cardinality(C)
<1> DEFINE Part(s) == {r \in C : F[r] \in s}
<1>1. PICK g : Sums(S, f, g) /\ SumFunction(f) = g[S]
  BY FoldIsSum
<1>2. ASSUME NEW s \in SUBSET S PROVE IsFiniteSet(s) /\ Cardinality(s) \in Nat /\ Cardinality(s) <= Cardinality(S)
  BY FS_Subset, FS_CardinalityType
<1>3. \A D \in SUBSET C : IsFiniteSet(D) /\ Cardinality(D) \in Nat
  BY FS_Subset, FS_CardinalityType
<1> DEFINE U == {m \in Nat : \A s \in SUBSET S : Cardinality(s) <= m => g[s] = Cardinality(Part(s))}
<1>4. 0 \in U
  <2>1. ASSUME NEW s \in SUBSET S, Cardinality(s) <= 0 PROVE s = {}
    BY <1>2, <2>1, FS_EmptySet
  <2>2. Part({}) = {} /\ Cardinality({}) = 0
    BY FS_EmptySet
  <2>3. g[{}] = Cardinality(Part({}))
    BY <1>1, <2>2 DEF Sums
  <2> HIDE DEF Part
  <2> QED
    BY <2>1, <2>3
<1>5. ASSUME NEW m \in 0 .. Cardinality(S) - 1, m \in U PROVE m + 1 \in U
  <2>0. m \in Nat /\ m + 1 \in Nat
    BY <1>2
  <2>1. ASSUME NEW s \in SUBSET S, Cardinality(s) <= m + 1 PROVE g[s] = Cardinality(Part(s))
    <3>1. CASE s = {}
      <4>1. g[{}] = Cardinality(Part({}))
        BY <1>4, FS_EmptySet
      <4> QED
        BY <3>1, <4>1
    <3>2. CASE s # {}
      <4>1. PICK x \in s : g[s] = f[x] + g[s \ {x}]
        BY <1>1, <3>2 DEF Sums
      <4>2. Cardinality(s \ {x}) = Cardinality(s) - 1 /\ s \ {x} \in SUBSET S /\ Cardinality(s) \in Nat
        BY <1>2, <4>1, FS_RemoveElement
      <4>3. Cardinality(s \ {x}) <= m
        BY <2>0, <2>1, <4>2
      <4>4. g[s \ {x}] = Cardinality(Part(s \ {x}))
        BY <1>5, <4>2, <4>3
      <4> DEFINE A == {r \in C : F[r] = x}
                 B == Part(s \ {x})
      <4>5. A \in SUBSET C /\ B \in SUBSET C /\ A \cap B = {} /\ Part(s) = A \cup B
        BY <4>1
      <4>6. f[x] = Cardinality(A)
        BY <4>1
      <4> HIDE DEF A, B, Part
      <4>7. Cardinality(A \cup B) = Cardinality(A) + Cardinality(B)
        <5>1. IsFiniteSet(A) /\ IsFiniteSet(B) /\ Cardinality(A) \in Nat /\ Cardinality(B) \in Nat
          BY <1>3, <4>5
        <5>2. Cardinality(A \cup B) = Cardinality(A) + Cardinality(B) - Cardinality(A \cap B)
          BY <5>1, FS_Union
        <5>3. Cardinality(A \cap B) = 0
          BY <4>5, FS_EmptySet
        <5> QED
          BY <5>1, <5>2, <5>3
      <4> QED
        BY <4>1, <4>4, <4>5, <4>6, <4>7 DEF B
    <3> QED
      BY <3>1, <3>2
  <2> HIDE DEF Part
  <2> QED
    BY <2>0, <2>1
<1>6. Cardinality(S) \in U
  <2> HIDE DEF U
  <2>1. Cardinality(S) \in Nat
    BY <1>2
  <2>2. 0 .. Cardinality(S) \subseteq U
    BY <1>4, <1>5, <2>1, Climb
  <2> QED
    BY <2>1, <2>2
<1>7. g[S] = Cardinality(Part(S))
  BY <1>2, <1>6
<1>8. Part(S) = C
  OBVIOUS
<1> HIDE DEF Part
<1> QED
  BY <1>1, <1>7, <1>8

LEMMA QuotientBelow ==
  ASSUME NEW c \in Nat \ {0}, NEW a \in Nat, NEW b \in Nat
  PROVE  /\ a \div c \in Nat
         /\ a \div c < b <=> a < b * c
<1>1. PICK k \in Int, l \in Int : k = a \div c /\ l = a % c
  OBVIOUS
<1>2. a = c * k + l /\ l >= 0 /\ l < c
  BY <1>1
<1>3. k >= 0
  BY <1>2
<1>4. PICK z \in Int : z = b * c
  OBVIOUS
<1>5. ASSUME k < b PROVE a < z
  <2>1. b - k - 1 >= 0
    BY <1>5
  <2>2. c * (b - k - 1) >= 0
    BY <2>1
  <2> QED
    BY <1>2, <1>4, <2>2
<1>6. ASSUME k >= b PROVE a >= z
  <2>1. c * (k - b) >= 0
    BY <1>6
  <2> QED
    BY <1>2, <1>4, <2>1
<1>7. k < b <=> a < z
  BY <1>5, <1>6
<1> QED
  BY <1>1, <1>3, <1>4, <1>7

(* The bars of the dashboard, which are half open, hold each record that was *)
(* before the reading of the clock once.                                     *)
LEMMA TrendIsTotal ==
  ASSUME TypeOK, IsFiniteSet(usage), view.at = "asked" => view.clock \in Nat, HandleDashboard
  PROVE  TrendAddsUp
<1> DEFINE Bars == 0 .. Span \div Bucket - 1
           Low == {r \in Counted : r.time < view.clock}
           High == {r \in Counted : r.time >= view.clock}
           trend == [bar \in Bars |-> Cardinality({r \in Counted : BarOf(r.time) = bar})]
           F == [r \in Low |-> BarOf(r.time)]
<1>1. view.clock \in Nat /\ view'.requests = Cardinality(Counted) /\ view'.trend = trend
  BY DEF HandleDashboard
<1>2. Bucket \in Nat \ {0} /\ Span \in Nat /\ Span % Bucket = 0
  BY ViewConstants
<1>3. Span \div Bucket \in Nat /\ Span = (Span \div Bucket) * Bucket
  <2>1. Span = Bucket * (Span \div Bucket) + (Span % Bucket) /\ Span \div Bucket \in Int
    BY <1>2
  <2>2. Span \div Bucket \in Nat
    BY <1>2, QuotientBelow
  <2> QED
    BY <1>2, <2>1, <2>2
<1>4. \A r \in usage : r.time \in Int
  BY UsageConstants DEF TypeOK, Record
<1>5. IsFiniteSet(Counted) /\ IsFiniteSet(Low) /\ IsFiniteSet(High)
  <2>1. IsFiniteSet(usage)
    OBVIOUS
  <2>2. Counted \subseteq usage /\ Low \subseteq usage /\ High \subseteq usage
    BY DEF Counted
  <2> QED
    BY <2>1, <2>2, FS_Subset
<1>6. ASSUME NEW r \in Counted
      PROVE  /\ BarOf(r.time) \in Nat
             /\ BarOf(r.time) \in Bars <=> r.time < view.clock
  <2>1. r.time \in Int /\ r.time >= view.clock - Span
    BY <1>1, <1>2, <1>4 DEF Counted
  <2>2. r.time - (view.clock - Span) \in Nat
    BY <1>1, <1>2, <2>1
  <2>3. /\ BarOf(r.time) \in Nat
        /\ BarOf(r.time) < Span \div Bucket <=> r.time - (view.clock - Span) < (Span \div Bucket) * Bucket
    BY <1>2, <1>3, <2>2, QuotientBelow DEF BarOf
  <2>4. BarOf(r.time) < Span \div Bucket <=> r.time - (view.clock - Span) < Span
    BY <1>3, <2>3
  <2>5. r.time - (view.clock - Span) < Span <=> r.time < view.clock
    BY <1>1, <1>2, <2>1
  <2>6. BarOf(r.time) \in Bars <=> BarOf(r.time) < Span \div Bucket
    BY <1>3, <2>3
  <2> QED
    BY <2>3, <2>4, <2>5, <2>6
<1>7. F \in [Low -> Bars]
  <2>1. \A r \in Low : BarOf(r.time) \in Bars
    BY <1>6
  <2> HIDE DEF Low, Bars
  <2> QED
    BY <2>1
<1>8. trend \in [Bars -> Int] /\ \A bar \in Bars : trend[bar] = Cardinality({r \in Low : F[r] = bar})
  <2>1. ASSUME NEW bar \in Bars
        PROVE  /\ Cardinality({r \in Counted : BarOf(r.time) = bar}) \in Int
               /\ {r \in Counted : BarOf(r.time) = bar} = {r \in Low : F[r] = bar}
    <3>1. {r \in Counted : BarOf(r.time) = bar} \subseteq Counted
      OBVIOUS
    <3>2. Cardinality({r \in Counted : BarOf(r.time) = bar}) \in Int
      BY <1>5, <3>1, FS_Subset, FS_CardinalityType
    <3>3. \A r \in Counted : BarOf(r.time) = bar => r \in Low
      BY <1>6
    <3> QED
      BY <3>2, <3>3
  <2> HIDE DEF Bars
  <2> QED
    BY <2>1
<1>9. IsFiniteSet(Bars)
  BY <1>3, FS_Interval
<1> HIDE DEF F, trend, Bars
<1>10. SumFunction(trend) = Cardinality(Low)
  BY SMTT(30), <1>5, <1>7, <1>8, <1>9, SumOfSizes
<1>11. Cardinality(Counted) = Cardinality(Low) + Cardinality(High)
  <2>1. Counted = Low \cup High /\ Low \cap High = {}
    <3>1. \A r \in Counted : r.time \in Int
      BY <1>4 DEF Counted
    <3> QED
      BY <1>1, <3>1
  <2> HIDE DEF Low, High
  <2>2. Cardinality(Low \cup High) = Cardinality(Low) + Cardinality(High) - Cardinality(Low \cap High)
    BY <1>5, FS_Union
  <2>3. Cardinality(Low \cap High) = 0
    BY <2>1, FS_EmptySet
  <2>4. Cardinality(Low) \in Nat /\ Cardinality(High) \in Nat
    BY <1>5, FS_CardinalityType
  <2> QED
    BY <2>1, <2>2, <2>3, <2>4
<1>12. Cardinality(Low) \in Nat /\ Cardinality(High) \in Nat
  BY <1>5, FS_CardinalityType
<1> HIDE DEF Low
<1>13. SumFunction(view'.trend) = view'.requests - Cardinality(High)
  BY <1>1, <1>10, <1>11, <1>12
<1> QED
  BY <1>13 DEF TrendAddsUp

-----------------------------------------------------------------------------
(* The pages of the audit list.  A record is n places behind the newest when *)
(* n of those that match are after it.                                       *)
After(Q, n) == {k \in Q : k > n}
BehindAt(S, Q, x) == {n \in S : Cardinality(After(Q, n)) < x}

(* Of the records in S, as many are at or after m as those of G after m      *)
(* explain.                                                                  *)
Explained(S, G) ==
  \A m \in Nat : Cardinality({n \in S : n >= m}) <= Cardinality(After(G, m))

LEMMA LargestNumber ==
  ASSUME NEW b \in Nat, NEW T \in SUBSET (0 .. b), T # {}
  PROVE  \E n \in T : \A m \in T : m <= n
<1> DEFINE D == {b - n : n \in T}
<1>1. D \in SUBSET Nat /\ D # {}
  <2>1. \A n \in T : b - n \in Nat
    OBVIOUS
  <2> QED
    BY <2>1
<1>2. PICK d \in D : \A e \in D : d <= e
  BY <1>1, LeastNumber
<1>3. PICK n \in T : d = b - n
  BY <1>2
<1>4. ASSUME NEW m \in T PROVE m <= n
  <2>1. b - m \in D /\ m \in Int /\ n \in Int
    OBVIOUS
  <2>2. b - n <= b - m
    BY <1>2, <1>3, <2>1
  <2> QED
    BY <2>1, <2>2
<1> QED
  BY <1>4

LEMMA NumbersFinite ==
  ASSUME NEW b \in Nat, NEW T \in SUBSET (0 .. b)
  PROVE  /\ IsFiniteSet(T) /\ Cardinality(T) \in Nat
         /\ \A S \in SUBSET T : Cardinality(S) <= Cardinality(T)
<1>1. IsFiniteSet(0 .. b)
  BY FS_Interval
<1>2. IsFiniteSet(T)
  BY <1>1, FS_Subset
<1> QED
  BY <1>2, FS_Subset, FS_CardinalityType

(* Elements that were at least x places behind in Q and are less in R make   *)
(* room for no more than were removed after the first of them.               *)
LEMMA MovedUp ==
  ASSUME NEW b \in Nat, NEW Q \in SUBSET (0 .. b), NEW R \in SUBSET (0 .. b), NEW x \in Nat,
         NEW E \in SUBSET Q, NEW m \in Nat,
         \A n \in E : /\ n >= m
                      /\ Cardinality(After(Q, n)) >= x /\ Cardinality(After(R, n)) < x
  PROVE  Cardinality(E) <= Cardinality(After(Q \ R, m))
<1>1. Cardinality(E) \in Nat /\ Cardinality(After(Q \ R, m)) \in Nat
  <2>1. E \in SUBSET (0 .. b) /\ After(Q \ R, m) \in SUBSET (0 .. b)
    BY DEF After
  <2> QED
    BY <2>1, NumbersFinite
<1>2. CASE E = {}
  BY <1>1, <1>2, FS_EmptySet
<1>3. CASE E # {}
  <2>1. PICK e \in E : \A n \in E : e <= n
    BY <1>3, LeastNumber
  <2>2. PICK z \in E : \A n \in E : n <= z
    BY <1>3, LargestNumber
  <2> DEFINE A == After(Q, e)
             B == After(Q, z)
             C == After(R, e)
             D == After(Q \ R, e)
  <2>3. /\ A \in SUBSET (0 .. b) /\ B \in SUBSET (0 .. b) /\ C \in SUBSET (0 .. b)
        /\ D \in SUBSET (0 .. b) /\ E \in SUBSET (0 .. b)
    BY DEF After
  <2>0. /\ e \in Int /\ z \in Int /\ e >= m /\ e <= z
        /\ \A k \in Q : k \in Int
        /\ \A k \in E : k \in Q /\ k \in Int /\ e <= k /\ k <= z
    BY <2>1, <2>2
  <2>4. B \cup (E \ {e}) \subseteq A /\ B \cap (E \ {e}) = {}
    <3>1. ASSUME NEW k \in B PROVE k \in A /\ k \notin E
      BY <2>0, <3>1 DEF After
    <3>2. ASSUME NEW k \in E \ {e} PROVE k \in A
      BY <2>0, <3>2 DEF After
    <3> HIDE DEF A, B
    <3> QED
      BY <3>1, <3>2
  <2>5. A \subseteq C \cup D
    BY DEF After
  <2>6. Cardinality(B) >= x /\ Cardinality(C) < x
    BY <2>1, <2>2
  <2>7. D \subseteq After(Q \ R, m)
    <3>1. ASSUME NEW k \in D PROVE k \in After(Q \ R, m)
      BY <2>0, <3>1 DEF After
    <3> QED
      BY <3>1
  <2>8. E \ {e} \in SUBSET (0 .. b) /\ B \cup (E \ {e}) \in SUBSET (0 .. b) /\ C \cup D \in SUBSET (0 .. b)
        /\ After(Q \ R, m) \in SUBSET (0 .. b)
    BY <2>3 DEF After
  <2> HIDE DEF A, B, C, D
  <2>9. /\ IsFiniteSet(B) /\ IsFiniteSet(C) /\ IsFiniteSet(D) /\ IsFiniteSet(E) /\ IsFiniteSet(E \ {e})
        /\ Cardinality(A) \in Nat /\ Cardinality(B) \in Nat /\ Cardinality(C) \in Nat
        /\ Cardinality(D) \in Nat /\ Cardinality(E) \in Nat /\ Cardinality(E \ {e}) \in Nat
    BY <2>3, <2>8, NumbersFinite
  <2>10. Cardinality(E \ {e}) = Cardinality(E) - 1
    BY <2>9, FS_RemoveElement
  <2>11. Cardinality(B \cup (E \ {e})) = Cardinality(B) + Cardinality(E \ {e})
    <3>1. Cardinality(B \cup (E \ {e}))
            = Cardinality(B) + Cardinality(E \ {e}) - Cardinality(B \cap (E \ {e}))
      BY <2>9, FS_Union
    <3>2. Cardinality(B \cap (E \ {e})) = 0
      BY <2>4, FS_EmptySet
    <3> QED
      BY <2>9, <3>1, <3>2
  <2>12. Cardinality(B \cup (E \ {e})) <= Cardinality(A)
    BY <2>3, <2>4, NumbersFinite
  <2>13. Cardinality(A) <= Cardinality(C \cup D)
    BY <2>5, <2>8, NumbersFinite
  <2>14. Cardinality(C \cup D) <= Cardinality(C) + Cardinality(D)
    <3>1. Cardinality(C \cup D) = Cardinality(C) + Cardinality(D) - Cardinality(C \cap D)
      BY <2>9, FS_Union
    <3>2. C \cap D \in SUBSET (0 .. b)
      BY <2>3
    <3>3. Cardinality(C \cap D) \in Nat
      BY <3>2, NumbersFinite
    <3> QED
      BY <2>9, <3>1, <3>3
  <2>15. Cardinality(D) <= Cardinality(After(Q \ R, m))
    BY <2>7, <2>8, NumbersFinite
  <2>16. Cardinality(C \cup D) \in Nat /\ Cardinality(B \cup (E \ {e})) \in Nat
    BY <2>8, NumbersFinite
  <2> QED
    BY <1>1, <2>6, <2>9, <2>10, <2>11, <2>12, <2>13, <2>14, <2>15, <2>16
<1> QED
  BY <1>2, <1>3

(* From the list Q to the list R: whatever was added, those that moved up    *)
(* are explained by those that were removed.                                 *)
LEMMA StillExplained ==
  ASSUME NEW b \in Nat, NEW Q \in SUBSET (0 .. b), NEW R \in SUBSET (0 .. b), NEW x \in Nat,
         NEW S \in SUBSET Q, NEW T \in SUBSET (S \cap R),
         NEW G \in SUBSET (0 .. b), NEW H \in SUBSET (0 .. b),
         G \cup (Q \ R) \subseteq H, G \cap Q = {},
         Explained(BehindAt(S, Q, x), G)
  PROVE  Explained(BehindAt(T, R, x), H)
<1> SUFFICES ASSUME NEW m \in Nat
             PROVE  Cardinality({n \in BehindAt(T, R, x) : n >= m}) <= Cardinality(After(H, m))
  BY DEF Explained
<1> DEFINE B == {n \in BehindAt(S, Q, x) : n >= m}
           C == {n \in BehindAt(T, R, x) : n >= m}
           E == {n \in T : n >= m /\ Cardinality(After(Q, n)) >= x /\ Cardinality(After(R, n)) < x}
           U == After(G, m)
           V == After(Q \ R, m)
           W == After(H, m)
<1>1. /\ B \in SUBSET (0 .. b) /\ C \in SUBSET (0 .. b) /\ E \in SUBSET Q /\ E \in SUBSET (0 .. b)
      /\ U \in SUBSET (0 .. b) /\ V \in SUBSET (0 .. b) /\ W \in SUBSET (0 .. b)
  BY DEF BehindAt, After
<1>2. C \subseteq B \cup E
  <2>1. ASSUME NEW n \in T PROVE Cardinality(After(Q, n)) \in Nat
    <3>1. After(Q, n) \in SUBSET (0 .. b)
      BY DEF After
    <3> QED
      BY <3>1, NumbersFinite
  <2>2. \A n \in T : n \in S
    OBVIOUS
  <2>3. ASSUME NEW n \in C PROVE n \in B \cup E
    <3>1. n \in T /\ n >= m /\ Cardinality(After(R, n)) < x /\ n \in S
      BY <2>2, <2>3 DEF BehindAt
    <3>2. CASE Cardinality(After(Q, n)) < x
      BY <3>1, <3>2 DEF BehindAt
    <3>3. CASE Cardinality(After(Q, n)) >= x
      BY <3>1, <3>3
    <3> QED
      BY <2>1, <3>1, <3>2, <3>3
  <2> QED
    BY <2>3
<1>3. Cardinality(E) <= Cardinality(V)
  <2>1. \A n \in E : n >= m /\ Cardinality(After(Q, n)) >= x /\ Cardinality(After(R, n)) < x
    OBVIOUS
  <2> HIDE DEF E
  <2> QED
    BY <1>1, <2>1, MovedUp
<1>4. Cardinality(B) <= Cardinality(U)
  BY DEF Explained
<1>5. U \cup V \subseteq W /\ U \cap V = {}
  BY DEF After
<1> HIDE DEF B, C, E, U, V, W
<1>6. /\ B \cup E \in SUBSET (0 .. b) /\ U \cup V \in SUBSET (0 .. b) /\ B \cap E \in SUBSET (0 .. b)
  BY <1>1
<1>7. /\ IsFiniteSet(B) /\ IsFiniteSet(E) /\ IsFiniteSet(U) /\ IsFiniteSet(V)
      /\ Cardinality(B) \in Nat /\ Cardinality(C) \in Nat /\ Cardinality(E) \in Nat
      /\ Cardinality(U) \in Nat /\ Cardinality(V) \in Nat /\ Cardinality(W) \in Nat
      /\ Cardinality(B \cup E) \in Nat /\ Cardinality(U \cup V) \in Nat /\ Cardinality(B \cap E) \in Nat
  BY <1>1, <1>6, NumbersFinite
<1>8. Cardinality(C) <= Cardinality(B \cup E) /\ Cardinality(U \cup V) <= Cardinality(W)
  BY <1>1, <1>2, <1>5, <1>6, NumbersFinite
<1>9. /\ Cardinality(B \cup E) = Cardinality(B) + Cardinality(E) - Cardinality(B \cap E)
      /\ Cardinality(U \cup V) = Cardinality(U) + Cardinality(V) - Cardinality(U \cap V)
  BY <1>7, FS_Union
<1>10. Cardinality(U \cap V) = 0
  BY <1>5, FS_EmptySet
<1>11. Cardinality(C) <= Cardinality(W)
  BY <1>3, <1>4, <1>7, <1>8, <1>9, <1>10
<1> QED
  BY <1>11 DEF C, W

LEMMA FewerExplained ==
  ASSUME NEW b \in Nat, NEW S \in SUBSET (0 .. b), NEW T \in SUBSET S, NEW G \in SUBSET (0 .. b),
         Explained(S, G)
  PROVE  Explained(T, G)
<1> SUFFICES ASSUME NEW m \in Nat
             PROVE  Cardinality({n \in T : n >= m}) <= Cardinality(After(G, m))
  BY DEF Explained
<1>1. /\ {n \in S : n >= m} \in SUBSET (0 .. b) /\ {n \in T : n >= m} \in SUBSET (0 .. b)
      /\ {n \in T : n >= m} \in SUBSET {n \in S : n >= m} /\ After(G, m) \in SUBSET (0 .. b)
  BY DEF After
<1>2. Cardinality({n \in S : n >= m}) <= Cardinality(After(G, m))
  BY DEF Explained
<1>3. Cardinality({n \in T : n >= m}) <= Cardinality({n \in S : n >= m})
  BY <1>1, NumbersFinite
<1>4. /\ Cardinality({n \in T : n >= m}) \in Nat /\ Cardinality({n \in S : n >= m}) \in Nat
      /\ Cardinality(After(G, m)) \in Nat
  BY <1>1, NumbersFinite
<1> QED
  BY <1>2, <1>3, <1>4

LEMMA CountedByNumber ==
  ASSUME NEW S, Numbered(S)
  PROVE  Cardinality(Identifiers(S)) = Cardinality(S)
<1> DEFINE f == [r \in S |-> r.id]
<1>1. f \in Bijection(S, Identifiers(S))
  <2>1. f \in [S -> Identifiers(S)]
    BY DEF Identifiers
  <2>2. \A r, s \in S : f[r] = f[s] => r = s
    BY DEF Numbered
  <2>3. \A n \in Identifiers(S) : \E r \in S : f[r] = n
    BY DEF Identifiers
  <2> HIDE DEF f
  <2> QED
    BY <2>1, <2>2, <2>3 DEF Bijection, Injection, IsInjective, Surjection
<1>2. IsFiniteSet(S) /\ ExistsBijection(S, Identifiers(S))
  BY <1>1 DEF Numbered, ExistsBijection
<1> QED
  BY <1>2, FS_Bijection

Paging == [at : {"paging", "read"}, query : SUBSET (1 .. MaxRecords), page : Nat \ {0},
           shown : SUBSET Nat, due : SUBSET (1 .. MaxRecords), opened : 0 .. MaxRecords]

Listed == view.query \cap Present
Owed == (view.due \cap Present) \ view.shown
Gone == {r \in view.query : r \notin Present /\ (r \in view.due \/ r \in view.opened + 1 .. recorded)}

ViewType ==
  \/ view = NoView
  \/ view \in Paging
  \/ view \in [at : {"asked"}, clock : Nat]
  \/ view.at = "shown"

(* What is listed was due or came later; of the records that were due and    *)
(* not shown, those before the next page are explained by those gone.        *)
PagesInv ==
  view \in Paging =>
    /\ view.due \subseteq view.query /\ view.opened <= recorded
    /\ \A k \in view.due : k <= view.opened
    /\ NothingReturned =>
         /\ \A k \in Listed : k \in view.due \/ k > view.opened
         /\ view.at = "paging" =>
              Explained(BehindAt(Owed, Listed, (view.page - 1) * PageSize), Gone)
         /\ view.at = "read" => Explained(Owed, Gone)

ViewInv == ViewType /\ PagesInv

LEMMA PresentNumbers ==
  ASSUME UsageInv
  PROVE  /\ MaxRecords \in Nat /\ recorded \in Nat
         /\ Present \in SUBSET (0 .. MaxRecords) /\ \A k \in Present : k <= recorded
<1>1. TypeOK /\ \A r \in usage : r.id <= recorded
  BY DEF UsageInv
<1>2. \A r \in usage : r.id \in 1 .. MaxRecords
  BY <1>1 DEF TypeOK, Record
<1>3. MaxRecords \in Nat /\ recorded \in Nat
  BY <1>1, UsageConstants DEF TypeOK
<1> QED
  BY <1>1, <1>2, <1>3 DEF Present, Identifiers

LEMMA PresentStep ==
  ASSUME UsageInv, [Next]_vars
  PROVE  /\ recorded' \in Nat /\ recorded <= recorded' /\ (NothingReturned' => NothingReturned)
         /\ InStep /\ NothingReturned' =>
              /\ Present' \subseteq Present \cup {recorded + 1}
              /\ Present' \subseteq Present \/ recorded' = recorded + 1
<1>1. TypeOK /\ recorded \in Nat /\ restarts \in Nat
  BY DEF UsageInv, TypeOK
<1>0. NothingReturned' => NothingReturned
  <2>1. restarts' \in {restarts, restarts + 1}
    BY DEF Next, Tick, RecordUsage, CleanUp, DeleteUsageRecordsBefore, ClearUsageDetailsBefore,
           SaveElsewhere, Restart, vars
  <2>2. restarts' = 0 => restarts = 0
    BY <1>1, <2>1
  <2> QED
    BY <2>2, HistoryGrows DEF NothingReturned
<1>2. CASE RecordUsage
  <2>1. PICK r \in Record :
           /\ r.id = recorded + 1 /\ usage' = Newest(usage \cup {r}) /\ recorded' = recorded + 1
    BY <1>2, RecordSays
  <2>2. usage' \subseteq usage \cup {r}
    BY <2>1 DEF Newest
  <2>3. Present' \subseteq Present \cup {recorded + 1}
    BY <2>1, <2>2 DEF Present, Identifiers
  <2> QED
    BY <1>0, <1>1, <2>1, <2>3
<1>3. ASSUME recorded' = recorded, InStep /\ NothingReturned' => Present' \subseteq Present
      PROVE  /\ recorded' \in Nat /\ recorded <= recorded' /\ (NothingReturned' => NothingReturned)
             /\ InStep /\ NothingReturned' =>
                  /\ Present' \subseteq Present \cup {recorded + 1}
                  /\ Present' \subseteq Present \/ recorded' = recorded + 1
  BY <1>0, <1>1, <1>3
<1>4. ASSUME NEW c, DeleteUsageRecordsBefore(c)
      PROVE  recorded' = recorded /\ Present' \subseteq Present
  <2>1. recorded' = recorded /\ usage' \subseteq usage
    BY <1>4 DEF DeleteUsageRecordsBefore, Fails, vars, history
  <2> QED
    BY <2>1 DEF Present, Identifiers
<1>5. ASSUME NEW c, ClearUsageDetailsBefore(c)
      PROVE  recorded' = recorded /\ Present' \subseteq Present
  <2>1. /\ recorded' = recorded
        /\ usage' = usage \/ \E w : usage' = Cleared(usage, w)
    BY <1>5 DEF ClearUsageDetailsBefore, Fails, vars, history
  <2>2. ASSUME NEW w, usage' = Cleared(usage, w) PROVE \A x \in usage' : \E y \in usage : y.id = x.id
    BY <2>2, ClearedNumbered DEF UsageInv
  <2>3. \A x \in usage' : \E y \in usage : y.id = x.id
    BY <2>1, <2>2
  <2> QED
    BY <2>1, <2>3 DEF Present, Identifiers
<1>6. CASE Tick \/ SaveElsewhere \/ UNCHANGED vars
  <2>1. recorded' = recorded /\ usage' = usage
    BY <1>6 DEF Tick, SaveElsewhere, vars, history
  <2> QED
    BY <1>3, <2>1 DEF Present, Identifiers
<1>7. CASE Restart
  <2>1. recorded' = recorded /\ usage' \subseteq disk.rows /\ restarts' = restarts + 1
        /\ UNCHANGED <<failures, misread>>
    BY <1>7 DEF Restart, Newest, history
  <2>2. InStep /\ NothingReturned' => Present' \subseteq Present
    <3>1. restarts + 1 # 0
      BY <1>1
    <3>2. NothingReturned' => failures = 0 /\ misread = {}
      BY <2>1, <3>1 DEF NothingReturned
    <3> QED
      BY <2>1, <3>2 DEF InStep, Present, Identifiers
  <2> QED
    BY <1>3, <2>1, <2>2
<1> QED
  BY <1>2, <1>3, <1>4, <1>5, <1>6, <1>7 DEF Next, CleanUp

(* The records change while the list is read.                                *)
LEMMA ListKept ==
  ASSUME UsageInv, UsageInv', InStep, ViewInv, [Next]_vars, UNCHANGED view
  PROVE  ViewInv'
<1>1. ViewType'
  BY DEF ViewInv, ViewType
<1>2. SUFFICES ASSUME view \in Paging PROVE PagesInv'
  BY <1>1 DEF ViewInv, PagesInv
<1>3. /\ recorded \in Nat /\ recorded' \in Nat /\ recorded <= recorded'
      /\ view.opened \in Nat /\ view.opened <= recorded
      /\ view.due \subseteq view.query /\ \A k \in view.due : k \in Int /\ k <= view.opened
      /\ view.query \in SUBSET (0 .. MaxRecords) /\ MaxRecords \in Nat
      /\ view.page \in Nat \ {0}
  BY <1>2, PresentStep, PresentNumbers DEF ViewInv, PagesInv, Paging
<1>4. view.opened <= recorded'
  BY <1>3
<1>5. ASSUME NothingReturned'
      PROVE  /\ \A k \in Listed' : k \in view.due \/ k > view.opened
             /\ view.at = "paging" =>
                  Explained(BehindAt(Owed', Listed', (view.page - 1) * PageSize), Gone')
             /\ view.at = "read" => Explained(Owed', Gone')
  <2>1. /\ Present' \subseteq Present \cup {recorded + 1} /\ NothingReturned
        /\ Present' \subseteq Present \/ recorded' = recorded + 1
    BY <1>5, PresentStep
  <2>2. /\ Present \in SUBSET (0 .. MaxRecords) /\ Present' \in SUBSET (0 .. MaxRecords)
        /\ \A k \in Present : k <= recorded
    <3>1. recorded' \in 0 .. MaxRecords
      BY DEF UsageInv, TypeOK
    <3> QED
      BY <1>3, <2>1, <3>1, PresentNumbers
  <2>3. /\ \A k \in Listed : k \in view.due \/ k > view.opened
        /\ view.at = "paging" => Explained(BehindAt(Owed, Listed, (view.page - 1) * PageSize), Gone)
        /\ view.at = "read" => Explained(Owed, Gone)
    BY <1>2, <2>1 DEF ViewInv, PagesInv
  <2>4. \A k \in Listed' : k \in view.due \/ k > view.opened
    <3> TAKE k \in Listed'
    <3>1. k \in view.query /\ (k \in Present \/ k = recorded + 1)
      BY <2>1 DEF Listed
    <3>2. k = recorded + 1 => k > view.opened
      BY <1>3
    <3> QED
      BY <2>3, <3>1, <3>2 DEF Listed
  <2> DEFINE Q == Listed
             R == Listed'
             S == Owed
             T == Owed'
             G == Gone
             H == Gone'
  <2>5. /\ Q \in SUBSET (0 .. MaxRecords) /\ R \in SUBSET (0 .. MaxRecords) /\ S \in SUBSET Q
        /\ G \in SUBSET (0 .. MaxRecords) /\ H \in SUBSET (0 .. MaxRecords) /\ G \cap Q = {}
        /\ S \in SUBSET (0 .. MaxRecords)
    BY <1>3, <2>2 DEF Listed, Owed, Gone
  <2>6. T \in SUBSET (S \cap R)
    <3>1. ASSUME NEW k \in T PROVE k \in S /\ k \in R
      <4>1. k \in view.due /\ k \in Present' /\ k \notin view.shown /\ k \in view.query
        BY <1>3, <3>1 DEF Owed
      <4>2. k # recorded + 1
        BY <1>3, <4>1
      <4> QED
        BY <2>1, <4>1, <4>2 DEF Owed, Listed
    <3> QED
      BY <3>1
  <2>7. G \cup (Q \ R) \subseteq H
    <3>1. ASSUME NEW k \in G PROVE k \in H
      <4>1. /\ k \in view.query /\ k \notin Present /\ k \in Int
            /\ k \in view.due \/ k \in view.opened + 1 .. recorded
        BY <1>3, <3>1 DEF Gone
      <4>2. k # recorded + 1 /\ (k \in view.opened + 1 .. recorded => k \in view.opened + 1 .. recorded')
        BY <1>3, <4>1
      <4> QED
        BY <2>1, <4>1, <4>2 DEF Gone
    <3>2. ASSUME NEW k \in Q \ R PROVE k \in H
      <4>1. k \in view.query /\ k \in Present /\ k \notin Present' /\ k \in Int
        BY <1>3, <3>2 DEF Listed
      <4>2. k \in view.due \/ k > view.opened
        BY <2>3, <3>2
      <4>3. k > view.opened => k \in view.opened + 1 .. recorded'
        BY <1>3, <2>2, <4>1
      <4> QED
        BY <4>1, <4>2, <4>3 DEF Gone
    <3> QED
      BY <3>1, <3>2
  <2> HIDE DEF Q, R, S, T, G, H
  <2>8. view.at = "paging" => Explained(BehindAt(T, R, (view.page - 1) * PageSize), H)
    <3> HAVE view.at = "paging"
    <3>1. (view.page - 1) * PageSize \in Nat
      BY <1>3, ViewConstants
    <3>2. Explained(BehindAt(S, Q, (view.page - 1) * PageSize), G)
      BY <2>3 DEF S, Q, G
    <3> DEFINE x == (view.page - 1) * PageSize
    <3>3. x \in Nat /\ Explained(BehindAt(S, Q, x), G)
      BY <3>1, <3>2
    <3> HIDE DEF x
    <3>4. Explained(BehindAt(T, R, x), H)
      BY <1>3, <2>5, <2>6, <2>7, <3>3, StillExplained
    <3> QED
      BY <3>4 DEF x
  <2>9. view.at = "read" => Explained(T, H)
    <3> HAVE view.at = "read"
    <3>1. Explained(S, G)
      BY <2>3 DEF S, G
    <3>2. Explained(S, H)
      <4>1. ASSUME NEW m \in Nat PROVE Cardinality({n \in S : n >= m}) <= Cardinality(After(H, m))
        <5>1. /\ After(G, m) \subseteq After(H, m) /\ After(H, m) \in SUBSET (0 .. MaxRecords)
              /\ After(G, m) \in SUBSET (0 .. MaxRecords) /\ {n \in S : n >= m} \in SUBSET (0 .. MaxRecords)
          BY <2>5, <2>7 DEF After
        <5>2. Cardinality(After(G, m)) <= Cardinality(After(H, m))
          BY <1>3, <5>1, NumbersFinite
        <5>3. Cardinality({n \in S : n >= m}) <= Cardinality(After(G, m))
          BY <3>1 DEF Explained
        <5>4. /\ Cardinality({n \in S : n >= m}) \in Nat /\ Cardinality(After(G, m)) \in Nat
              /\ Cardinality(After(H, m)) \in Nat
          BY <1>3, <5>1, NumbersFinite
        <5> QED
          BY <5>2, <5>3, <5>4
      <4> QED
        BY <4>1 DEF Explained
    <3>3. T \in SUBSET S
      BY <2>6
    <3> QED
      BY <1>3, <2>5, <3>2, <3>3, FewerExplained
  <2> QED
    BY <2>4, <2>8, <2>9 DEF R, T, H
<1> QED
  BY <1>2, <1>3, <1>4, <1>5 DEF PagesInv

LEMMA ListOpened ==
  ASSUME UsageInv, OpenList, UNCHANGED vars
  PROVE  ViewInv'
<1>1. PICK query \in Queries :
         view' = [at |-> "paging", query |-> query, page |-> 1, shown |-> {},
                  due |-> Identifiers(Matching(query)), opened |-> recorded]
  BY DEF OpenList
<1>2. /\ usage' = usage /\ recorded' = recorded /\ Present' = Present
  BY DEF vars, history, Present, Identifiers
<1>3. /\ query \in SUBSET (1 .. MaxRecords) /\ PageSize \in Nat
      /\ Identifiers(Matching(query)) = query \cap Present
  BY ViewConstants DEF Identifiers, Matching, Present
<1>4. /\ recorded \in 0 .. MaxRecords /\ MaxRecords \in Nat
      /\ Present \in SUBSET (0 .. MaxRecords) /\ \A k \in Present : k <= recorded
  BY PresentNumbers DEF UsageInv, TypeOK
<1>5. view' \in Paging
  BY <1>1, <1>3, <1>4 DEF Paging
<1>6. Listed' = query \cap Present
  BY <1>1, <1>2 DEF Listed
<1>7. Explained(BehindAt(Owed', Listed', (view'.page - 1) * PageSize), Gone')
  <2> DEFINE B == BehindAt(Owed', Listed', (view'.page - 1) * PageSize)
  <2>1. (view'.page - 1) * PageSize = 0
    BY <1>1, <1>3
  <2>2. B = {}
    <3>1. ASSUME NEW n \in B PROVE FALSE
      <4>1. After(Listed', n) \in SUBSET (0 .. MaxRecords)
        BY <1>4, <1>6 DEF After
      <4>2. Cardinality(After(Listed', n)) \in Nat
        BY <1>4, <4>1, NumbersFinite
      <4> QED
        BY <2>1, <3>1, <4>2 DEF BehindAt
    <3> QED
      BY <3>1
  <2> HIDE DEF B
  <2>3. ASSUME NEW m \in Nat
        PROVE  Cardinality({n \in B : n >= m}) <= Cardinality(After(Gone', m))
    <3>1. {n \in B : n >= m} = {} /\ After(Gone', m) \in SUBSET (0 .. MaxRecords)
      <4>1. Gone' \subseteq view'.query /\ view'.query = query
        BY <1>1 DEF Gone
      <4>2. \A k \in query : k \in 0 .. MaxRecords
        BY <1>3, <1>4
      <4> QED
        BY <2>2, <4>1, <4>2 DEF After
    <3>2. Cardinality({n \in B : n >= m}) = 0
      BY <3>1, FS_EmptySet
    <3>3. Cardinality(After(Gone', m)) \in Nat
      BY <1>4, <3>1, NumbersFinite
    <3> QED
      BY <3>2, <3>3
  <2>4. Explained(B, Gone')
    BY <2>3 DEF Explained
  <2> QED
    BY <2>4 DEF B
<1>8. PagesInv'
  <2> DEFINE due == Identifiers(Matching(query))
  <2>0. due = query \cap Present
    BY <1>3
  <2> HIDE DEF due
  <2>1. /\ due \subseteq query /\ recorded <= recorded
        /\ \A k \in due : k <= recorded
        /\ \A k \in Listed' : k \in due
    <3>1. recorded <= recorded /\ due \subseteq query
      BY <1>4, <2>0
    <3>2. \A k \in due : k <= recorded
      BY <1>4, <2>0
    <3>3. \A k \in Listed' : k \in due
      BY <1>6, <2>0
    <3> QED
      BY <3>1, <3>2, <3>3
  <2>2. /\ view'.due = due /\ view'.query = query /\ view'.opened = recorded
        /\ view'.at = "paging"
    BY <1>1 DEF due
  <2> QED
    BY <1>2, <1>7, <2>1, <2>2 DEF PagesInv
<1> QED
  BY <1>5, <1>8 DEF ViewInv, ViewType

LEMMA PageRead ==
  ASSUME UsageInv, ViewInv, HandleAudits, UNCHANGED vars
  PROVE  ViewInv'
<1> DEFINE M == Matching(view.query)
           L == Listed
           before == (view.page - 1) * PageSize
           behind == view.page * PageSize
<1>1. view.at = "paging" /\ view \in Paging
  BY DEF HandleAudits, ViewInv, ViewType, NoView
<1>2. /\ usage' = usage /\ recorded' = recorded /\ NothingReturned' = NothingReturned
      /\ Present' = Present
  BY DEF vars, history, NothingReturned, Present, Identifiers
<1>3. /\ view' \in Paging
      /\ view'.query = view.query /\ view'.due = view.due /\ view'.opened = view.opened
      /\ view'.page = view.page + 1 /\ view'.shown = view.shown \cup OnPage(M, view.page)
      /\ view'.at = IF view.page < Pages(M) THEN "paging" ELSE "read"
  <2>1. view' = [view EXCEPT !.at = IF view.page < Pages(M) THEN "paging" ELSE "read",
                             !.page = @ + 1, !.shown = @ \cup OnPage(M, view.page)]
    BY DEF HandleAudits
  <2>2. OnPage(M, view.page) \subseteq Nat
    <3>1. OnPage(M, view.page) \subseteq Present
      BY DEF OnPage, Identifiers, Matching, Present
    <3> QED
      BY <3>1, PresentNumbers
  <2> HIDE DEF M
  <2> DEFINE at == IF view.page < Pages(M) THEN "paging" ELSE "read"
             page == view.page + 1
             shown == view.shown \cup OnPage(M, view.page)
  <2>3. at \in {"paging", "read"} /\ page \in Nat \ {0} /\ shown \in SUBSET Nat
    BY <1>1, <2>2 DEF Paging
  <2>4. view' = [view EXCEPT !.at = at, !.page = page, !.shown = shown]
    BY <2>1
  <2> HIDE DEF at, page, shown
  <2>5. /\ view' \in Paging
        /\ view'.query = view.query /\ view'.due = view.due /\ view'.opened = view.opened
        /\ view'.page = page /\ view'.shown = shown /\ view'.at = at
    BY <1>1, <2>3, <2>4 DEF Paging
  <2> QED
    BY <2>5 DEF at, page, shown
<1>4. Listed' = Listed /\ Gone' = Gone /\ Owed' = Owed \ OnPage(M, view.page)
  BY <1>2, <1>3 DEF Listed, Gone, Owed
<1>5. /\ view.page \in Nat \ {0} /\ PageSize \in Nat \ {0} /\ MaxRecords \in Nat
      /\ view.due \subseteq view.query
  BY <1>1, PresentNumbers, ViewConstants DEF Paging, ViewInv, PagesInv
<1>6. before \in Nat /\ behind \in Nat /\ (view'.page - 1) * PageSize = behind
      /\ (view.page + 1) * PageSize = behind + PageSize
  BY <1>3, <1>5
<1>7. /\ L \in SUBSET (0 .. MaxRecords) /\ Gone \in SUBSET (0 .. MaxRecords)
      /\ Owed \in SUBSET L /\ Owed \in SUBSET (0 .. MaxRecords)
  <2>1. Present \in SUBSET (0 .. MaxRecords) /\ view.query \in SUBSET (0 .. MaxRecords)
    BY <1>1, PresentNumbers DEF Paging
  <2> QED
    BY <1>5, <2>1 DEF Listed, Gone, Owed
<1>8. Identifiers(M) = L /\ M \subseteq usage
  BY DEF Identifiers, Matching, Listed, Present
<1>9. \A S \in SUBSET usage : Numbered(S)
  <2>1. Numbered(usage)
    BY DEF UsageInv
  <2>2. ASSUME NEW S \in SUBSET usage PROVE IsFiniteSet(S)
    BY <2>1, FS_Subset DEF Numbered
  <2> QED
    BY <2>1, <2>2 DEF Numbered
<1>10. ASSUME NEW r \in M
       PROVE  Cardinality(Newer(r, M)) = Cardinality(After(L, r.id))
  <2>1. Identifiers(Newer(r, M)) = After(L, r.id)
    BY <1>8 DEF Identifiers, Newer, After
  <2>2. Numbered(Newer(r, M))
    BY <1>8, <1>9 DEF Newer
  <2> QED
    BY <2>1, <2>2, CountedByNumber
<1>11. ASSUME NEW n \in Owed'
       PROVE  /\ Cardinality(After(L, n)) \in Nat
              /\ Cardinality(After(L, n)) < behind => Cardinality(After(L, n)) < before
  <2>1. n \in Owed /\ n \in L /\ n \notin OnPage(M, view.page)
    BY <1>4, <1>7
  <2>2. PICK r \in M : r.id = n
    BY <1>8, <2>1 DEF Identifiers
  <2>3. After(L, n) \in SUBSET (0 .. MaxRecords)
    BY <1>7 DEF After
  <2>4. PICK a \in Nat : a = Cardinality(After(L, n))
    BY <1>5, <2>3, NumbersFinite
  <2>5. a \div PageSize # view.page - 1
    BY <1>10, <2>1, <2>2, <2>4 DEF OnPage, Identifiers
  <2>6. /\ a \div PageSize \in Nat
        /\ a \div PageSize < view.page <=> a < behind
        /\ a \div PageSize < view.page - 1 <=> a < before
    <3>1. view.page \in Nat /\ view.page - 1 \in Nat
      BY <1>5
    <3> QED
      BY <1>5, <3>1, QuotientBelow
  <2>7. a < behind => a < before
    BY <1>5, <2>5, <2>6
  <2> QED
    BY <2>4, <2>7
<1>12. BehindAt(Owed', L, behind) \in SUBSET BehindAt(Owed, L, before)
  <2>1. ASSUME NEW n \in BehindAt(Owed', L, behind) PROVE n \in BehindAt(Owed, L, before)
    <3>1. n \in Owed' /\ n \in Owed /\ Cardinality(After(L, n)) < behind
      BY <1>4 DEF BehindAt
    <3> QED
      BY <1>11, <3>1 DEF BehindAt
  <2> QED
    BY <2>1
<1>13. ASSUME NothingReturned'
       PROVE  /\ \A k \in Listed' : k \in view'.due \/ k > view'.opened
              /\ Explained(BehindAt(Owed', L, behind), Gone)
  <2>1. /\ \A k \in Listed : k \in view.due \/ k > view.opened
        /\ Explained(BehindAt(Owed, L, before), Gone)
    BY <1>1, <1>2, <1>13 DEF ViewInv, PagesInv
  <2>2. BehindAt(Owed, L, before) \in SUBSET (0 .. MaxRecords)
    BY <1>7 DEF BehindAt
  <2> HIDE DEF L, before, behind
  <2>3. Explained(BehindAt(Owed', L, behind), Gone)
    BY <1>5, <1>7, <1>12, <2>1, <2>2, FewerExplained
  <2> QED
    BY <1>3, <1>4, <2>1, <2>3
<1>14. ASSUME view'.at = "read" PROVE Owed' = BehindAt(Owed', L, behind)
  <2>1. PICK a \in Nat : a = Cardinality(L)
    BY <1>5, <1>7, NumbersFinite
  <2>2. Cardinality(M) = a
    BY <1>8, <1>9, <2>1, CountedByNumber
  <2>3. ~(view.page < (a + PageSize - 1) \div PageSize)
    BY <1>3, <1>14, <2>2 DEF Pages
  <2>4. a <= behind
    <3>1. a + PageSize - 1 \in Nat /\ view.page + 1 \in Nat
      BY <1>5
    <3>2. /\ (a + PageSize - 1) \div PageSize \in Nat
          /\ (a + PageSize - 1) \div PageSize < view.page + 1
               <=> a + PageSize - 1 < (view.page + 1) * PageSize
      BY <1>5, <3>1, QuotientBelow
    <3>3. a + PageSize - 1 < behind + PageSize
      BY <1>5, <1>6, <2>3, <3>2
    <3> QED
      BY <1>5, <1>6, <3>3
  <2>5. ASSUME NEW n \in Owed' PROVE Cardinality(After(L, n)) < behind
    <3>1. n \in L
      BY <1>4, <1>7
    <3>2. After(L, n) \in SUBSET (L \ {n}) /\ L \ {n} \in SUBSET (0 .. MaxRecords)
      BY <1>7, <3>1 DEF After
    <3>3. Cardinality(After(L, n)) <= Cardinality(L \ {n})
      BY <1>5, <3>2, NumbersFinite
    <3>4. IsFiniteSet(L)
      BY <1>5, <1>7, NumbersFinite
    <3>5. Cardinality(L \ {n}) = a - 1
      BY <2>1, <3>1, <3>4, FS_RemoveElement
    <3> QED
      BY <1>6, <1>11, <2>4, <3>3, <3>5
  <2> QED
    BY <2>5 DEF BehindAt
<1>15. PagesInv'
  <2>1. /\ view'.due \subseteq view'.query /\ view'.opened <= recorded'
        /\ \A k \in view'.due : k <= view'.opened
    BY <1>1, <1>2, <1>3 DEF ViewInv, PagesInv
  <2>2. ASSUME NothingReturned'
        PROVE  /\ \A k \in Listed' : k \in view'.due \/ k > view'.opened
               /\ view'.at = "paging" =>
                    Explained(BehindAt(Owed', Listed', (view'.page - 1) * PageSize), Gone')
               /\ view'.at = "read" => Explained(Owed', Gone')
    <3>1. Explained(BehindAt(Owed', L, behind), Gone)
      BY <1>13, <2>2
    <3>2. view'.at = "read" => Explained(Owed', Gone)
      BY <1>14, <3>1
    <3> QED
      BY <1>4, <1>6, <1>13, <2>2, <3>1, <3>2
  <2> QED
    BY <2>1, <2>2 DEF PagesInv
<1> QED
  BY <1>3, <1>15 DEF ViewInv, ViewType

LEMMA ViewStart == ViewInit => ViewInv
BY DEF ViewInit, ViewInv, ViewType, PagesInv, Paging, NoView

LEMMA ViewsStep ==
  ASSUME UsageInv, UsageInv', InStep, ViewInv, [ViewsNext]_viewVars
  PROVE  ViewInv'
<1>1. CASE UNCHANGED view /\ [Next]_vars
  BY <1>1, ListKept
<1>2. CASE OpenList /\ UNCHANGED vars
  BY <1>2, ListOpened
<1>3. CASE HandleAudits /\ UNCHANGED vars
  BY <1>3, PageRead
<1>4. CASE (AskDashboard \/ HandleDashboard \/ view' = NoView) /\ UNCHANGED vars
  <2>1. now \in Nat
    BY UsageConstants DEF UsageInv, TypeOK
  <2>2. ViewType' /\ view'.at \in {"none", "asked", "shown"}
    BY <1>4, <2>1 DEF AskDashboard, HandleDashboard, ViewType, NoView
  <2>3. PagesInv'
    BY <2>2 DEF PagesInv, Paging
  <2> QED
    BY <2>2, <2>3 DEF ViewInv
<1> QED
  BY <1>1, <1>2, <1>3, <1>4 DEF ViewsNext, ViewStep, viewVars

(* The list misses a record only for one that was removed.                   *)
LEMMA NothingMissed ==
  ASSUME UsageInv, ViewInv
  PROVE  PagesMissNothing
<1> SUFFICES ASSUME view.at = "read", NothingReturned, NEW m \in Missed
             PROVE  Cardinality({n \in Missed : n >= m}) <= Cardinality(RemovedAfter(m))
  BY DEF PagesMissNothing
<1>1. view \in Paging
  BY DEF ViewInv, ViewType, NoView
<1>2. Explained(Owed, Gone) /\ Missed = Owed /\ RemovedAfter(m) = After(Gone, m)
  BY <1>1 DEF ViewInv, PagesInv, Missed, Owed, RemovedAfter, Gone, After
<1>3. m \in Nat
  BY PresentNumbers DEF Missed
<1> QED
  BY <1>2, <1>3 DEF Explained

LEMMA ViewsAreSteps == ViewsSpec => Spec
<1>1. ViewInit => Init
  BY DEF ViewInit
<1>2. [ViewsNext]_viewVars => [Next]_vars
  BY DEF ViewsNext, viewVars
<1> QED
  BY <1>1, <1>2, PTL DEF ViewsSpec, Spec

(* A complete list misses a record that was due and still exists only for another one that *)
(* was removed while the pages were read, and the bars of the dashboard hold each record    *)
(* before its clock once, whatever is recorded, cleaned up or restarted between the         *)
(* requests for pages (a restart that brings records back excepted), for any page size, any *)
(* queries and timestamps of any length (api.go).                                           *)
THEOREM ViewsAddUpHolds == ViewsSpec => ViewsAddUp
<1>1. ViewsSpec => [](UsageInv /\ InStep)
  BY ViewsAreSteps, UsageHolds, InStepHolds, PTL
<1>2. UsageInv /\ InStep /\ (UsageInv /\ InStep)' /\ ViewInv /\ [ViewsNext]_viewVars => ViewInv'
  BY ViewsStep
<1>3. ViewsSpec => []ViewInv
  <2>1. ViewsSpec => ViewInit /\ [][ViewsNext]_viewVars
    BY DEF ViewsSpec
  <2> QED
    BY <1>1, <1>2, <2>1, ViewStart, PTL
<1>4. UsageInv /\ ViewInv => PagesMissNothing
  BY NothingMissed
<1>5. UsageInv /\ ViewInv /\ [ViewsNext]_viewVars => TrendAddsUp
  <2> SUFFICES ASSUME UsageInv, ViewInv, [ViewsNext]_viewVars, view.at = "asked", view'.at = "shown"
               PROVE  TrendAddsUp
    BY DEF TrendAddsUp
  <2>1. HandleDashboard
    BY DEF ViewsNext, ViewStep, viewVars, OpenList, HandleAudits, AskDashboard, NoView
  <2>2. TypeOK /\ IsFiniteSet(usage)
    BY DEF UsageInv, Numbered
  <2>3. view.clock \in Nat
    BY DEF ViewInv, ViewType, NoView, Paging
  <2> QED
    BY <2>1, <2>2, <2>3, TrendIsTotal
<1> QED
  BY <1>1, <1>3, <1>4, <1>5, PTL DEF ViewsAddUp, ViewsSpec
-----------------------------------------------------------------------------
(* The components beside each other.                                         *)

LEMMA ComponentsFollow ==
  AdministrationSpec => Spec /\ ConfigSpec /\ AuthSpec /\ CatalogSpec
<1>1. AdministrationInit => Init /\ ConfigInit /\ AuthInit /\ CatalogInit
  BY DEF AdministrationInit, ViewInit
<1>2. [AdministrationNext]_allVars => [Next]_vars
  BY DEF AdministrationNext, allVars, viewVars, Follow, ViewsNext
<1>3. [AdministrationNext]_allVars => [ConfigNext]_configVars
  BY DEF AdministrationNext, allVars, Follow
<1>4. [AdministrationNext]_allVars => [AuthNext]_authVars
  BY DEF AdministrationNext, allVars, Follow
<1>5. [AdministrationNext]_allVars => [CatalogNext]_catalogVars
  BY DEF AdministrationNext, allVars, Follow
<1> QED
  BY <1>1, <1>2, <1>3, <1>4, <1>5, PTL DEF AdministrationSpec, Spec, ConfigSpec, AuthSpec, CatalogSpec

(* The components that an administrator reads and changes keep their types beside each     *)
(* other: the records and their table, the configuration and what is on its way to its     *)
(* file, the logins and sessions, and the models' settings (store_sqlite.go, config.go,    *)
(* admin_auth.go, api.go).                                                                 *)
THEOREM AdministrationTypeCorrect == AdministrationSpec => []TypesOK
<1>1. TypeOK /\ ConfigTypeOK /\ AuthTypeOK /\ CatalogTypeOK => TypesOK
  BY DEF TypesOK
<1> QED
  BY <1>1, ComponentsFollow, UsageTypeCorrect, ConfigTypeCorrect, AuthTypeCorrect, CatalogTypeCorrect, PTL
=============================================================================
