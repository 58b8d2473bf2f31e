--------------------------- MODULE MCAgentThread ---------------------------
(* Instances of AgentThread for TLC. *)
EXTENDS AgentThread, TLC

CONSTANTS t1, t2

MCTask2 == {t1, t2}
Symmetry2 == Permutations(MCTask2)
=============================================================================
