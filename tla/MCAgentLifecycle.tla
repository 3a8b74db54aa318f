-------------------------- MODULE MCAgentLifecycle --------------------------
(* The instance of AgentLifecycle that TLC explores: see AgentLifecycle.cfg. *)
EXTENDS AgentLifecycle
=============================================================================
