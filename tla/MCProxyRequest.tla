-------------------------- MODULE MCProxyRequest --------------------------
(***************************************************************************)
(* One account, a request, an import, login or synchronisation, and an     *)
(* automatic refresh: enough for two refreshes with one token to overlap   *)
(* with an import.                                                         *)
(***************************************************************************)
EXTENDS ProxyRequest, TLC

CONSTANTS a1, q1, s1, r1

AccountsValue == {a1}
RequestsValue == {q1}
SyncsValue == {s1}
RefreshersValue == {r1}
=============================================================================
