----------------------------- MODULE MCWorkPlan -----------------------------
(* Instance: two tasks that share a repository and a milestone.  Either the
   milestone stands between them, the second edge being a handoff, which gates
   the plan and not run_work_node; or it follows the first task and the second
   one is independent. *)
EXTENDS WorkPlan, TLC

CONSTANTS n1, n2, ms, r1, r2, d1

Blocks == n1 :> {} @@ ms :> {n1} @@ n2 :> {}
Chain == n1 :> {} @@ ms :> {n1} @@ n2 :> {ms}

MCPlans ==
    {[gate |-> "manual", fail |-> "halt", gates |-> Chain, blocks |-> Blocks],
     [gate |-> "auto_evaluate", fail |-> "continue", gates |-> Blocks, blocks |-> Blocks],
     [gate |-> "autonomous", fail |-> "retry", gates |-> Chain, blocks |-> Blocks]}

(* The independent tasks interleave most and get the fewest interventions. *)
MCActs ==
    [manual |-> {"stop", "run", "send_back", "restart", "gate_error"},
     auto_evaluate |-> {"restart", "gate_error"},
     autonomous |-> {"stop", "message", "send_back", "restart"}]
=============================================================================
