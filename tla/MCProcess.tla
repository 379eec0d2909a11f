------------------------------ MODULE MCProcess ------------------------------
(***************************************************************************)
(* What the process does on its own behalf: the start on old files, the    *)
(* refresh of quotas, the sessions of logins and the claims of an account, *)
(* on small instances.                                                     *)
(*                                                                         *)
(* The four components share no state, so a behaviour of one says          *)
(* everything about it: part names the one that a behaviour follows, and   *)
(* the others stay where they began.                                       *)
(***************************************************************************)
EXTENDS LegacyMigration, QuotaRefresh, OAuthSessions, PlanClaims

VARIABLE part

allVars == <<part, migrationVars, refreshVars, oauthVars, vars>>

ProcessInit ==
  /\ part \in {"migration", "refresh", "login", "claims"}
  /\ MigrationInit /\ RefreshInit /\ OAuthInit /\ Init
  /\ part = "migration" \/ Present = {}
  /\ part = "refresh" \/ (deadline = [r \in Resets |-> 0] /\ plan = [a \in Watched |-> NoReset])
  /\ part = "login" \/ account = [s \in Sessions |-> FALSE]

Follow(p) ==
  /\ part = p /\ UNCHANGED part
  /\ p # "migration" => UNCHANGED migrationVars
  /\ p # "refresh" => UNCHANGED refreshVars
  /\ p # "login" => UNCHANGED oauthVars
  /\ p # "claims" => UNCHANGED vars

ProcessNext ==
  \/ Follow("migration") /\ MigrationNext
  \/ Follow("refresh") /\ RefreshNext
  \/ Follow("login") /\ OAuthNext
  \/ Follow("claims") /\ Next

\* The fairness of each component, where a behaviour follows it
ProcessSpec ==
  /\ ProcessInit /\ [][ProcessNext]_allVars
  /\ WF_migrationVars(part = "migration" /\ StartStep) /\ WF_migrationVars(part = "migration" /\ Exit)
  /\ WF_refreshVars(part = "refresh" /\ Second)
  /\ WF_refreshVars(part = "refresh" /\ RefreshDue)
  /\ WF_refreshVars(part = "refresh" /\ RoundEnds)
  /\ \A a \in Watched : WF_refreshVars(part = "refresh" /\ SyncEnds(a))
  /\ \A p \in Polls : WF_oauthVars(part = "login" /\ PollStep(p))
  /\ \A c \in Claims : WF_vars(part = "claims" /\ ClaimStep(c))
=============================================================================
