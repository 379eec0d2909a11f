-------------------------- MODULE MCAdministration --------------------------
(***************************************************************************)
(* What an administrator reads and changes: the usage records and their    *)
(* views, the configuration, the models, the administrator's own sessions  *)
(* and the check for a release, on small instances.                        *)
(*                                                                         *)
(* The five components share no state, so a behaviour of one says          *)
(* everything about it: part names the one that a behaviour follows, and   *)
(* the others stay where they began.                                       *)
(***************************************************************************)
EXTENDS AuditViews, ConfigStore, AdminAuth, ModelCatalog, ReleaseCheck

VARIABLE part

\* Versions 1.0.minor, with and without pre-release identifiers: 9 and 10 differ as numbers
\* and as texts, 01 and 21 are refused, 12 and 13 stand for words, -1 for a hyphen.
Stable(minor) == [core |-> << <<1>>, <<0>>, minor >>, pre |-> << >>]
Pre(ids) == [core |-> << <<1>>, <<0>>, <<0>> >>, pre |-> ids]
SomeLabels ==
  {Stable(n) : n \in {<<0>>, <<9>>, <<1, 0>>, <<0, 1>>, <<2, 1>>}}
    \cup {Pre(ids) : ids \in {<< <<9>> >>, << <<1, 0>> >>, << <<12>> >>, << <<12>>, <<9>> >>,
                              << <<12>>, <<13>> >>, << <<12, -1>> >>, << << >> >>}}
    \cup {[core |-> << <<1>>, <<0>> >>, pre |-> << >>]}
AllRecords == 1 .. MaxRecords
SomeQueries == {AllRecords, AllRecords \ {2}}
LaterLabels == {Stable(<<1, 0>>)}

allVars == <<part, viewVars, configVars, authVars, catalogVars, releaseVars>>

AdministrationInit ==
  /\ part \in {"usage", "config", "auth", "catalog", "release"}
  /\ ViewInit /\ ConfigInit /\ AuthInit /\ CatalogInit /\ ReleaseInit
  /\ part = "config" \/ file = NoConfig
  /\ part = "catalog" \/ offered = {}
  /\ part = "release" \/ (current = Stable(<<0>>) /\ releases[1].label = current)

Follow(p) ==
  /\ part = p /\ UNCHANGED part
  /\ p # "usage" => UNCHANGED viewVars
  /\ p # "config" => UNCHANGED configVars
  /\ p # "auth" => UNCHANGED authVars
  /\ p # "catalog" => UNCHANGED catalogVars
  /\ p # "release" => UNCHANGED releaseVars

\* A bound: the views are read while no transaction fails and the process runs; a restart
\* without a failed transaction and a misread row shows the same records
\* (ReloadShowsTheSame).
ViewsInOrder == view' = NoView \/ (failures' = 0 /\ restarts' = 0)

AdministrationNext ==
  \/ Follow("usage") /\ ViewsNext /\ ViewsInOrder
  \/ Follow("config") /\ ConfigNext
  \/ Follow("auth") /\ AuthNext
  \/ Follow("catalog") /\ CatalogNext
  \/ Follow("release") /\ ReleaseNext

AdministrationSpec == AdministrationInit /\ [][AdministrationNext]_allVars

\* Every component's state has its type.
TypesOK == TypeOK /\ ConfigTypeOK /\ AuthTypeOK /\ CatalogTypeOK
=============================================================================
