--------------------------- MODULE MCCollaboration ---------------------------
(* Instances of Collaboration for TLC: threads that share a repository. *)
EXTENDS Collaboration

CONSTANTS t1, r1, d1, a1

MCDeviceOf == [w \in Worker |-> d1]
MCRepos == [t \in Thread |-> {r1}]
=============================================================================
