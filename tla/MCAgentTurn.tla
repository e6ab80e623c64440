---------------------------- MODULE MCAgentTurn ----------------------------
(* Instances of AgentTurn for TLC.                                           *)
EXTENDS AgentTurn

CONSTANTS k1, k2, k3, w1, r1
=============================================================================
