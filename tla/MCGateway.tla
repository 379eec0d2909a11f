------------------------------ MODULE MCGateway ------------------------------
(***************************************************************************)
(* What the gateway is asked for: requests under the limits of their key,  *)
(* requests of the Responses API, and changes of the schedules by which    *)
(* accounts claim their plan, on small instances.                          *)
(*                                                                         *)
(* The three components share no state, so a behaviour of one says         *)
(* everything about it: part names the one that a behaviour follows, and   *)
(* the others stay where they began.                                       *)
(***************************************************************************)
EXTENDS MCKeyLimiter, MCResponsesStream, PlanClaims

VARIABLE part

gatewayVars == <<part, limiterVars, responsesVars, vars>>

GatewayInit ==
  /\ part \in {"limits", "responses", "schedules"}
  /\ LimiterInit /\ ResponsesInit /\ Init
  /\ part = "limits" \/ limits = Both
  /\ part = "responses" \/ ~streaming

Follow(p) ==
  /\ part = p /\ UNCHANGED part
  /\ p # "limits" => UNCHANGED limiterVars
  /\ p # "responses" => UNCHANGED responsesVars
  /\ p # "schedules" => UNCHANGED vars

GatewayNext ==
  \/ Follow("limits") /\ LimiterNext
  \/ Follow("responses") /\ ResponsesNext
  \/ Follow("schedules") /\ Next

GatewaySpec == GatewayInit /\ [][GatewayNext]_gatewayVars
=============================================================================
