-------------------------- MODULE MCAgentTransport --------------------------
(* Instances of AgentTransport for TLC.                                    *)
EXTENDS AgentTransport

CONSTANTS j1, j2

MCNeeds == [j \in Jobs |-> IF j = j1 THEN "deploy:nginx" ELSE "challenge:http-01"]

(* A healthy agent, one that lost a capability, one too old to be used.    *)
MCFacts == {[status |-> "online", capabilities |-> {"deploy:nginx", "challenge:http-01"}],
            [status |-> "degraded", capabilities |-> {"challenge:http-01"}],
            [status |-> "incompatible", capabilities |-> {}]}
=============================================================================
