------------------------------ MODULE MCAgent -------------------------------
(* Instances of AgentTunnel: the shutdowns the application chooses from. *)
EXTENDS AgentTunnel

Shutdowns == {{"cancel", "stop", "close"},   \* cmd/agent
              {"stop", "close"}}             \* Stop with Start's context alive
=============================================================================
