---------------------------- MODULE MCAdmission ----------------------------
(* Instance: two clients of one project, one unscoped client, capacities up
   to 2 (so that resize both grows and shrinks below the running count). *)
EXTENDS Admission

CONSTANTS c1, c2, c3, p

MCClient == {c1, c2, c3}
MCScopeOf == [c \in MCClient |-> IF c = c3 THEN NoScope ELSE p]
=============================================================================
