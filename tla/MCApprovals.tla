---------------------------- MODULE MCApprovals ----------------------------
(* Instance: two requests of one run and one caller, so that the caller may be
   between taking and announcing one request while the timer or the end of the
   run settles either of them. *)
EXTENDS Approvals

CONSTANTS q1, q2, r1, c1

MCRunOf == [q \in {q1, q2} |-> r1]
=============================================================================
