---------------------------- MODULE MCAgentDrafts ----------------------------
(* Instances of AgentDrafts for TLC. *)
EXTENDS AgentDrafts, TLC

CONSTANTS c1, t1, t2, d1, d2, r1, r2

DraftSymmetry == Permutations(Task) \cup Permutations(Draft) \cup Permutations(Request)
=============================================================================
