----------------------------- MODULE MCServices -----------------------------
(* The services on small instances, the agent as in MCAssistantAgent.      *)
EXTENDS Services, MCAssistantAgent, MCEconomy

CONSTANTS b1, b2, b3

(* A one-shot and an interval schedule. *)
MCEvery == <<0, 1>>

MCPhase == (b1 :> 0) @@ (b2 :> 1) @@ (b3 :> 1)
=============================================================================
