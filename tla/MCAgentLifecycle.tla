-------------------------- MODULE MCAgentLifecycle --------------------------
(* AgentLifecycle for TLC: requests are interchangeable. *)
EXTENDS AgentLifecycle, TLC

Symmetry == Permutations(User)
=============================================================================
