---------------------------- MODULE ModelCatalog ----------------------------
(***************************************************************************)
(* The names of models: the settings of the Store, the models that the     *)
(* accounts offer, the catalog computed from both (Catalog in models.go)   *)
(* and the handlers that change it (api.go).                               *)
(*                                                                         *)
(* A handler compares a name with one catalog and stores it later; other   *)
(* requests and synchronisations fall in between.  Models are selected by  *)
(* upstream name or alias, so a name should belong to one model.           *)
(*                                                                         *)
(* The enabled flag, the attributes of a model and the rows on disk are    *)
(* left out: no name depends on them.                                      *)
(***************************************************************************)
EXTENDS Integers

CONSTANTS
  Editors,   \* slots for requests about models in flight
  Upstreams, \* names of upstream models
  Aliases,   \* further names
  NoSetting

ASSUME CatalogConstants ==
  NoSetting \notin [alias : Upstreams \cup Aliases, manual : BOOLEAN]

VARIABLES
  offered, \* the models of the accounts' plans
  setting, \* setting[u]: the ModelSetting of u, or NoSetting
  editor   \* editor[e]: a request; "fresh" says that the catalog is still the one it checked

catalogVars == <<offered, setting, editor>>

Names == Upstreams \cup Aliases
NoRequest == [pc |-> "idle", upstream |-> NoSetting, alias |-> NoSetting, manual |-> FALSE,
              fresh |-> FALSE]

(***************************************************************************)
(* Catalog                                                                 *)
(***************************************************************************)
\* Models of accounts, and models that an administrator added
Catalog == offered \cup {u \in Upstreams : setting[u] # NoSetting /\ setting[u].manual}
Alias(u) == IF setting[u] = NoSetting THEN u ELSE setting[u].alias
NamesOf(u) == {u, Alias(u)}
View == [u \in Catalog |-> Alias(u)]

\* Resolve finds two models under one name and takes whichever is sorted first.
Ambiguous == {p \in Catalog \X Catalog : p[1] # p[2] /\ NamesOf(p[1]) \cap NamesOf(p[2]) # {}}

CatalogInit ==
  /\ offered \in SUBSET Upstreams
  /\ setting = [u \in Upstreams |-> NoSetting]
  /\ editor = [e \in Editors |-> NoRequest]

\* Request e goes on as r; a changed catalog is new to every other request.
Proceed(e, r) ==
  editor' = [x \in Editors |-> IF x = e THEN r
                               ELSE [editor[x] EXCEPT !.fresh = @ /\ View' = View]]

Request(pc, u, n, m) == [pc |-> pc, upstream |-> u, alias |-> n, manual |-> m, fresh |-> TRUE]

(***************************************************************************)
(* The handlers                                                            *)
(***************************************************************************)
\* HandleCreateModel; an alias that is missing becomes the upstream name.
WrongTaken(u, n) == \E v \in Catalog : u \in NamesOf(v) \/ n = Alias(v)
Taken(u, n) == \E v \in Catalog : u \in NamesOf(v) \/ n \in NamesOf(v)

CheckCreate(e) ==
  /\ editor[e].pc = "idle"
  /\ UNCHANGED <<offered, setting>>
  /\ \E u \in Upstreams, n \in Names :
       /\ ~Taken(u, n)
       /\ Proceed(e, Request("store", u, n, TRUE))

\* HandleModelSetting; a missing alias is not compared with anything.
TakenByOther(u, n) == \E v \in Catalog \ {u} : n \in NamesOf(v)

CheckSetting(e) ==
  /\ editor[e].pc = "idle"
  /\ UNCHANGED <<offered, setting>>
  /\ \E u \in Catalog, n \in Names, missing \in BOOLEAN, m \in BOOLEAN :
       /\ IF missing THEN n = u ELSE ~TakenByOther(u, n)
       /\ Proceed(e, Request("keep manual", u, n, m))

\* A stored setting keeps its origin; without one the request decides.
KeepManual(e) ==
  /\ editor[e].pc = "keep manual"
  /\ UNCHANGED <<offered, setting>>
  /\ LET s == setting[editor[e].upstream] IN
       Proceed(e, [editor[e] EXCEPT !.pc = "store",
                                    !.manual = IF s = NoSetting THEN @ ELSE s.manual])

\* SetModelSetting
SetModelSetting(e) ==
  /\ editor[e].pc = "store"
  /\ setting' = [setting EXCEPT ![editor[e].upstream] =
                   [alias |-> editor[e].alias, manual |-> editor[e].manual]]
  /\ UNCHANGED offered
  /\ Proceed(e, NoRequest)

\* HandleDeleteModel
CheckDelete(e) ==
  /\ editor[e].pc = "idle"
  /\ UNCHANGED <<offered, setting>>
  /\ \E u \in Upstreams :
       /\ setting[u] # NoSetting /\ setting[u].manual
       /\ Proceed(e, Request("delete", u, u, FALSE))

DeleteModelSetting(e) ==
  /\ editor[e].pc = "delete"
  /\ setting' = [setting EXCEPT ![editor[e].upstream] = NoSetting]
  /\ UNCHANGED offered
  /\ Proceed(e, NoRequest)

\* A synchronisation, an import or the deletion of an account changes what is offered.
Offer ==
  /\ offered' \in SUBSET Upstreams
  /\ UNCHANGED setting
  /\ editor' = [x \in Editors |-> [editor[x] EXCEPT !.fresh = @ /\ View' = View]]

CatalogNext ==
  \/ \E e \in Editors : CheckCreate(e) \/ CheckSetting(e) \/ KeepManual(e)
                        \/ SetModelSetting(e) \/ CheckDelete(e) \/ DeleteModelSetting(e)
  \/ Offer

CatalogSpec == CatalogInit /\ [][CatalogNext]_catalogVars

(***************************************************************************)
(* Properties                                                              *)
(***************************************************************************)
\* The state has its type.
CatalogTypeOK ==
  /\ offered \subseteq Upstreams
  /\ setting \in [Upstreams -> [alias : Names, manual : BOOLEAN] \cup {NoSetting}]
  /\ editor \in [Editors -> [pc : {"idle", "keep manual", "store", "delete"},
                             upstream : Upstreams \cup {NoSetting},
                             alias : Names \cup {NoSetting},
                             manual : BOOLEAN, fresh : BOOLEAN]]

\* api.go:456, api.go:493: the comparison is enough as long as the catalog is the one that
\* was compared with: a name becomes ambiguous only through a request that overlaps
\* another change, or through models that a synchronisation brings.
NamesStayUnique ==
  [][\A e \in Editors :
       editor[e].pc \in {"store", "delete"} /\ editor[e].fresh /\ editor'[e].pc = "idle"
         => Ambiguous' \subseteq Ambiguous]_catalogVars
=============================================================================
