---------------------------- MODULE MCAgentRegistry ----------------------------
(* Small instances of AgentRegistry for TLC.                               *)
EXTENDS AgentRegistry

\* One coin below the minimum stake, one at it.
MCAmounts == {1, 2}
\* Weights are compared with 0 only.
MCAdminWeights == {1}
=============================================================================
