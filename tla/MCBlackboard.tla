---------------------------- MODULE MCBlackboard ----------------------------
(* Small instance of Blackboard: one task, two agents, and two executions   *)
(* that may work for the same agent or for different ones.                  *)
EXTENDS Blackboard

CONSTANTS t1, a1, a2, e1, e2
=============================================================================
