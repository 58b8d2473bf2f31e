------------------------------ MODULE WorkPlan ------------------------------
(***************************************************************************)
(* Plans over the work graph: the driver of am-core/src/work_graph.rs that  *)
(* reads the graph, passes gates, retries failures and starts ready nodes,  *)
(* the launch and the consumer of a task's session (orchestrate.rs), the    *)
(* repository locks, the scheduler's continuations, and the users who       *)
(* approve, run, stop and resume in between.                                *)
(*                                                                         *)
(* No operation here holds a lock over its awaits: every database statement *)
(* is its own step and a driver works on the graph it read at the top of    *)
(* its pass.  A run is one launch and, once registered, the session's       *)
(* consumer; its record stays as the work_runs row after the session.       *)
(***************************************************************************)
EXTENDS Naturals, FiniteSets

CONSTANTS
    Task,        \* nodes backed by a task
    Milestone,   \* nodes that only gate
    Plan,        \* plans: [gate, fail : modes, gates, blocks : node -> prerequisites]
    Run,         \* bounds the sessions of a behaviour
    Driver,      \* bounds the drivers alive at once
    None,        \* no node, no run, no driver
    Events,      \* what a session may report before it ends
    MaxActive,   \* max_active_runs
    MaxRetries,  \* max_node_retries
    Cap,         \* the session capacity
    MaxResuming, \* bounds the resume calls in flight
    MaxMail,     \* bounds the follow-ups queued per task
    Acts,        \* the interventions in a plan of each gate mode: of users,
                 \* restarts, errors in a gate
    MaxActs      \* bounds their number

Node == Task \cup Milestone
GateMode == {"manual", "auto_evaluate", "autonomous"}
FailureMode == {"halt", "retry", "continue"}

(* validate_gating_edges_acyclic, run before a plan is made and in every pass
   of its driver: every set of nodes has one gated on none of them. *)
AcyclicGates(p) ==
    \A S \in SUBSET Node : S # {} => \E n \in S : p.gates[n] \cap S = {}

ASSUME PlanAssumption ==
    /\ Plan \subseteq [gate : GateMode, fail : FailureMode,
                      gates : [Node -> SUBSET Node], blocks : [Node -> SUBSET Node]]
    /\ \A p \in Plan : AcyclicGates(p)
    /\ IsFiniteSet(Node) /\ Task \cap Milestone = {}
    /\ Driver \cap {"user", "scheduler", None} = {}
    /\ Events \subseteq {"limit", "network", "approval"}
    /\ {MaxActive, MaxRetries, Cap, MaxResuming, MaxMail, MaxActs} \subseteq Nat

VARIABLES
    spec,     \* the options of the plan and its graph, fixed for a behaviour
    status,   \* the status of each node, mirrored from its task by triggers
    plan,     \* the work_plan_runs row
    lock,     \* the node whose write lock the repository carries
    active,   \* the registered session of each task
    run,      \* launches, consumers and work_runs rows
    drv,      \* the plan's drivers
    resuming, \* resume_work_plan calls that have read a paused plan
    stopping, \* stop_work_plan has written its state and not stopped the nodes
    mail,     \* follow-ups queued in memory
    acts,     \* interventions so far
    passed    \* nodes a user or a gate has declared done (for the properties)

vars == <<spec, status, plan, lock, active, run, drv, resuming, stopping, mail, acts, passed>>

------------------------------------------------------------------------------
Success == {"done", "cancelled"}
Active == {"running", "awaiting_approval", "waiting_for_limit", "waiting_for_network"}
Status == Success \cup Active \cup {"draft", "queued", "paused", "review", "failed"}

NoRun == [at |-> "off", node |-> None, by |-> None, locked |-> FALSE, saw |-> {},
          row |-> "none", plan |-> FALSE]
NoDriver == [at |-> "off", seen |-> [n \in Node |-> "draft"], todo |-> {}, changed |-> FALSE,
             ready |-> FALSE, started |-> 0]

AtTop == [NoDriver EXCEPT !.at = "top"]

Launching == {"lock", "insert", "admit", "register"}
Consuming == {"live", "ended", "tail"}

WorkPlanRun ==
    [state : {"running", "paused", "completed", "failed", "cancelled"},
     after : Node \cup {None},
     error : {None, "halted", "exhausted", "skipped", "stalled", "start", "gate"}]

WorkRun ==
    [at : Launching \cup Consuming \cup {"off", "over"}, node : Task \cup {None},
     by : Driver \cup {"user", "scheduler", None}, locked : BOOLEAN, saw : SUBSET Events,
     row : {"none", "due", "running", "ended"}, plan : BOOLEAN]

PlanDriver ==
    [at : {"off", "top", "gate", "pause", "start", "launch"},
     seen : [Node -> Status], todo : SUBSET Node, changed : BOOLEAN,
     ready : BOOLEAN, started : 0..MaxActive]

(* Rows, runs, drivers and the lock have their types. *)
TypeOK ==
    /\ spec \in Plan
    /\ status \in [Node -> Status]
    /\ plan \in WorkPlanRun
    /\ lock \in Task \cup {None}
    /\ active \in [Task -> Run \cup {None}]
    /\ run \in [Run -> WorkRun]
    /\ drv \in [Driver -> PlanDriver]
    /\ resuming \in 0..MaxResuming /\ stopping \in BOOLEAN
    /\ mail \in [Task -> 0..MaxMail] /\ acts \in 0..MaxActs
    /\ passed \subseteq Node

(* run_work_plan_with_options: the row and the first driver. *)
Init ==
    /\ spec \in Plan
    /\ status = [n \in Node |-> "draft"]
    /\ plan = [state |-> "running", after |-> None, error |-> None]
    /\ lock = None
    /\ active = [t \in Task |-> None]
    /\ run = [r \in Run |-> NoRun]
    /\ \E d \in Driver : /\ d = CHOOSE e \in Driver : TRUE
                        /\ drv = [e \in Driver |-> IF e = d THEN AtTop ELSE NoDriver]
    /\ resuming = 0 /\ stopping = FALSE
    /\ mail = [t \in Task |-> 0] /\ acts = 0
    /\ passed = {}

------------------------------------------------------------------------------
(* New launches and drivers take the first free identifier. *)
FreeRun(r) == run[r].at = "off" /\ r = CHOOSE q \in Run : run[q].at = "off"
FreeDriver(d) == drv[d].at = "off" /\ d = CHOOSE e \in Driver : drv[e].at = "off"

(* What the driver computes from a graph s it has read. *)

(* Seeded fault: only the edges run_work_node checks count as prerequisites. *)
PrerequisitesBlocking(n, s) == \A p \in spec.blocks[n] : s[p] \in Success

PrerequisitesComplete(n, s) == \A p \in spec.gates[n] : s[p] \in Success

GatePending(n, s) ==
    \/ s[n] = "review"
    \/ n \in Milestone /\ s[n] # "done" /\ PrerequisitesComplete(n, s)

ReadyNodes(s) ==
    {n \in Task : s[n] \in {"draft", "queued", "paused"} /\ PrerequisitesComplete(n, s)}

Completed(s) == {n \in Node : s[n] \in Success}
ActiveNodes(s) == {n \in Node : s[n] \in Active}
FailedNodes(s) == {n \in Node : s[n] = "failed"}

(* Seeded fault: after a failure everything unfinished counts as lost. *)
GatingSubtreeWide(roots, s) == IF roots = {} THEN {} ELSE {n \in Node : s[n] \notin Success}

(* gating_subtree_size: the roots and what is transitively gated on them and
   not finished. *)
GatingSubtree(roots, s) ==
    LET next(S) == S \cup {n \in Node : s[n] \notin Success /\ spec.gates[n] \cap S # {}}
        grow[k \in 0..Cardinality(Node)] == IF k = 0 THEN roots ELSE next(grow[k - 1])
    IN  grow[Cardinality(Node)]

(* count_runs_for_node_in_plan *)
Attempts(n) == Cardinality({r \in Run : run[r].node = n /\ run[r].plan})

------------------------------------------------------------------------------
(* Stop, resume, approve. *)

(* Users start, stop, send and reset things at any time, the daemon restarts,
   a database call in a gate fails: MaxActs times. *)
Act(kind) == kind \in Acts[spec.gate] /\ acts < MaxActs /\ acts' = acts + 1

Spawn(d) == drv' = [drv EXCEPT ![d] = AtTop]

(* stop_work_plan: the state is written whatever it was, ... *)
StopWorkPlan ==
    /\ Act("stop")
    /\ plan.state \in {"running", "paused"}
    /\ ~stopping
    /\ plan' = [plan EXCEPT !.state = "cancelled"]
    /\ stopping' = TRUE
    /\ UNCHANGED <<spec, status, lock, active, run, drv, resuming, mail, passed>>

(* list_running_runs_for_plan *)
RunningForPlan == {run[r].node : r \in {q \in Run : run[q].plan /\ run[q].row = "running"}}

(* stop_work_node: the session is cancelled and will end later, the locks of
   the node are released at once; without a session it fails. *)
StopWorkNodes(S) == lock' = IF lock \in S /\ active[lock] # None THEN None ELSE lock

(* ... then every node with an attached row still marked running is stopped. *)
StopNodes ==
    /\ stopping
    /\ StopWorkNodes(RunningForPlan)
    /\ stopping' = FALSE
    /\ UNCHANGED <<spec, status, plan, active, run, drv, resuming, mail, acts, passed>>

(* resume_work_plan reads a paused plan and, under a manual gate, that no gate
   is pending ... *)
CanResume ==
    /\ plan.state = "paused"
    /\ ~(spec.gate = "manual" /\ \E n \in Node : GatePending(n, status))

ResumeRead ==
    /\ CanResume
    /\ resuming < MaxResuming
    /\ resuming' = resuming + 1
    /\ UNCHANGED <<spec, status, plan, lock, active, run, drv, stopping, mail, acts, passed>>

(* resume_plan_run *)
ResumePlanRun ==
    IF plan.state = "paused"
    THEN [plan EXCEPT !.state = "running", !.after = None, !.error = None] ELSE plan

(* ... and writes if it is still paused; a driver is spawned in any case. *)
ResumeWrite(d) ==
    /\ resuming > 0
    /\ FreeDriver(d)
    /\ resuming' = resuming - 1
    /\ plan' = ResumePlanRun
    /\ Spawn(d)
    /\ UNCHANGED <<spec, status, lock, active, run, stopping, mail, acts, passed>>

(* Seeded fault: the scheduler leaves paused plans to their users. *)
SchedulerResumesNothing ==
    /\ FALSE
    /\ UNCHANGED vars

(* run_resumable_work_plans *)
SchedulerResume ==
    /\ plan.after # None /\ status[plan.after] = "done"
    /\ resuming = 0
    /\ ResumeRead

(* update_work_node by a user: a review is approved, or sent back.  A paused
   plan that waits for the approved node is resumed by a task spawned here. *)
Approve(n) ==
    /\ status[n] = "review"
    /\ status' = [status EXCEPT ![n] = "done"]
    /\ passed' = passed \cup {n}
    /\ resuming' = IF plan.after = n /\ plan.state = "paused" /\ resuming < MaxResuming
                      /\ ~(spec.gate = "manual" /\ \E m \in Node : GatePending(m, status'))
                   THEN resuming + 1 ELSE resuming
    /\ UNCHANGED <<spec, plan, lock, active, run, drv, stopping, mail, acts>>

SendBack(n) ==
    /\ Act("send_back")
    /\ status[n] \in {"review", "awaiting_approval", "failed"}
    /\ status' = [status EXCEPT ![n] = "draft"]
    /\ UNCHANGED <<spec, plan, lock, active, run, drv, resuming, stopping, mail, passed>>

------------------------------------------------------------------------------
(* One pass of drive_work_plan.  The graph is read once, at the top; the
   gating links of a graph were acyclic when they were made and are not
   edited here. *)

DriverRead(d) ==
    /\ drv[d].at = "top"
    /\ drv' = [drv EXCEPT ![d] =
         IF plan.state # "running" THEN NoDriver
         ELSE [NoDriver EXCEPT !.at = "gate", !.seen = status,
               !.todo = {n \in Node : GatePending(n, status) /\ status[n] \notin Active}]]
    /\ UNCHANGED <<spec, status, plan, lock, active, run, resuming, stopping, mail, acts, passed>>

(* set_plan_run_resume_after_node *)
ResumeAfter(n) == plan' = [plan EXCEPT !.after = n]

(* apply_gate_mode, manual: the first pending gate is put up for review and
   named in the plan's row. *)
ManualGate(d, n) ==
    /\ drv[d].at = "gate" /\ spec.gate = "manual"
    /\ n \in drv[d].todo
    /\ status' = [status EXCEPT ![n] = IF drv[d].seen[n] = "review" THEN @ ELSE "review"]
    /\ ResumeAfter(n)
    /\ drv' = [drv EXCEPT ![d].at = "pause"]
    /\ UNCHANGED <<spec, lock, active, run, resuming, stopping, mail, acts, passed>>

(* run_evaluator_agent: the agent's text by what it says, or nothing, when it
   cannot run, is at capacity, or times out. *)
Answers == {"pass", "fail", "other", "none"}

(* parse_evaluator_output: a verdict, if the text holds one. *)
Parsed(answer) == IF answer \in {"pass", "fail"} THEN {answer} ELSE {}

(* evaluate_work_gate: without a valid answer a human must look
   (fallback_needs_human). *)
Verdict(answer) ==
    IF Parsed(answer) # {} THEN CHOOSE v \in Parsed(answer) : TRUE ELSE "needs_human"

(* apply_gate_mode, auto_evaluate: each pending gate in turn; a verdict other
   than pass pauses the plan and names no node. *)
EvaluateGate(d, n, answer) ==
    /\ drv[d].at = "gate" /\ spec.gate = "auto_evaluate"
    /\ n \in drv[d].todo
    /\ LET v == Verdict(answer) IN
         /\ status' = [status EXCEPT ![n] = CASE v = "pass" -> "done" [] v = "fail" -> "paused"
                                              [] v = "needs_human" -> "review"]
         /\ passed' = IF v = "pass" THEN passed \cup {n} ELSE passed
         /\ drv' = [drv EXCEPT ![d].at = IF v = "pass" THEN @ ELSE "pause",
                               ![d].todo = @ \ {n}, ![d].changed = TRUE]
    /\ UNCHANGED <<spec, plan, lock, active, run, resuming, stopping, mail, acts>>

(* An error in a gate counts as "continue" and the graph is not read again. *)
GateError(d) ==
    /\ Act("gate_error")
    /\ drv[d].at = "gate" /\ drv[d].todo # {}
    /\ drv' = [drv EXCEPT ![d].todo = {}, ![d].changed = FALSE]
    /\ UNCHANGED <<spec, status, plan, lock, active, run, resuming, stopping, mail, passed>>

(* apply_gate_mode, autonomous: each pending gate is declared done. *)
PassGate(d, n) ==
    /\ drv[d].at = "gate" /\ spec.gate = "autonomous"
    /\ n \in drv[d].todo
    /\ status' = [status EXCEPT ![n] = "done"]
    /\ passed' = passed \cup {n}
    /\ drv' = [drv EXCEPT ![d].todo = @ \ {n}, ![d].changed = TRUE]
    /\ UNCHANGED <<spec, plan, lock, active, run, resuming, stopping, mail, acts>>

(* update_plan_run_progress: the counts, the state and the error, whatever
   the state is by now. *)
SaveProgress(s, e) == plan' = [plan EXCEPT !.state = s, !.error = e]

Finish(d, s, e) ==
    /\ SaveProgress(s, e)
    /\ drv' = [drv EXCEPT ![d] = NoDriver]

PausePlan(d) ==
    /\ drv[d].at = "pause"
    /\ Finish(d, "paused", "gate")
    /\ UNCHANGED <<spec, status, lock, active, run, resuming, stopping, mail, acts, passed>>

(* retry_failed_plan_nodes: the failed nodes with attempts left. *)
Retryable(s) == {n \in FailedNodes(s) : Attempts(n) <= MaxRetries}

(* Seeded fault: paused work counts as finished. *)
AttainedPaused(s) == \A n \in Node : s[n] \in Success \cup {"paused"}

(* Seeded fault: one more node must be completed than there is. *)
AttainedOffByOne(s) ==
    LET excluded == IF spec.fail = "continue" THEN GatingSubtree(FailedNodes(s), s) ELSE {}
        attainable == Cardinality(Node) - Cardinality(excluded)
    IN  attainable > 0 /\ Cardinality(Completed(s)) > attainable

(* completed >= attainable, where the failed subtrees are taken out in
   continue mode *)
Attained(s) ==
    LET excluded == IF spec.fail = "continue" THEN GatingSubtree(FailedNodes(s), s) ELSE {}
        attainable == Cardinality(Node) - Cardinality(excluded)
    IN  attainable > 0 /\ Cardinality(Completed(s)) >= attainable

(* No gate holds; the graph is read again if a gate changed it. *)
Read(d) == IF drv[d].changed THEN status ELSE drv[d].seen

(* The failures, then the end of the plan, or the nodes that are ready. *)
Decide(d) ==
    /\ drv[d].at = "gate" /\ drv[d].todo = {}
    /\ LET s == Read(d)
           failed == FailedNodes(s)
           retry == IF spec.fail = "retry" THEN Retryable(s) ELSE {}
       IN \/ /\ failed # {} /\ spec.fail = "halt"
             /\ Finish(d, "failed", "halted") /\ UNCHANGED status
          \/ /\ failed # {} /\ spec.fail = "retry" /\ retry = {}
             /\ Finish(d, "failed", "exhausted") /\ UNCHANGED status
          \/ /\ failed = {} \/ spec.fail = "continue" \/ retry # {}
             /\ status' = [n \in Node |-> IF n \in retry THEN "queued" ELSE status[n]]
             /\ IF Attained(s)
                THEN IF failed = {} THEN Finish(d, "completed", None)
                                    ELSE Finish(d, "failed", "skipped")
                ELSE /\ drv' = [drv EXCEPT ![d].at = "start", ![d].seen = s, ![d].todo = ReadyNodes(s),
                                           ![d].ready = ReadyNodes(s) # {}]
                     /\ UNCHANGED plan
    /\ UNCHANGED <<spec, lock, active, run, resuming, stopping, mail, acts, passed>>

StartBudget(d) == MaxActive - Cardinality(ActiveNodes(drv[d].seen))

(* run_work_node for the next ready node (the order by priority is left
   open). *)
StartNode(d, n, r) ==
    /\ drv[d].at = "start"
    /\ n \in drv[d].todo /\ drv[d].started < StartBudget(d)
    /\ FreeRun(r)
    /\ drv' = [drv EXCEPT ![d].at = "launch", ![d].todo = @ \ {n}]
    /\ run' = [run EXCEPT ![r] = [NoRun EXCEPT !.at = "lock", !.node = n, !.by = d]]
    /\ UNCHANGED <<spec, status, plan, lock, active, resuming, stopping, mail, acts, passed>>

(* The stall breaker of continue mode, or the progress is saved, which writes
   "running", and the driver sleeps until it is notified or 30 s have passed. *)
EndPass(d) ==
    /\ drv[d].at = "start"
    /\ drv[d].todo = {} \/ drv[d].started >= StartBudget(d)
    /\ LET s == drv[d].seen IN
         IF /\ spec.fail = "continue" /\ FailedNodes(s) # {} /\ ActiveNodes(s) = {}
            /\ drv[d].started = 0 /\ ~drv[d].ready
            /\ Cardinality(Completed(s)) <
                 Cardinality(Node) - Cardinality(GatingSubtree(FailedNodes(s), s))
         THEN Finish(d, "failed", "stalled")
         ELSE /\ SaveProgress("running", None)
              /\ drv' = [drv EXCEPT ![d] = AtTop]
    /\ UNCHANGED <<spec, status, lock, active, run, resuming, stopping, mail, acts, passed>>

------------------------------------------------------------------------------
(* A launch: run_work_node, then run_task_inner. *)

(* The launch returns an error to whoever asked: the driver goes on or gives
   the plan up, the scheduler pauses the task, others are told.  (A user's
   refused launch uses up its run, which bounds how often users ask.) *)
Refused(r, retryable, release) ==
    LET b == run[r].by  n == run[r].node IN
    /\ run' = [run EXCEPT ![r] = IF b = "user" THEN [NoRun EXCEPT !.at = "over"] ELSE NoRun]
    /\ lock' = IF release /\ run[r].locked /\ lock = n THEN None ELSE lock
    /\ \/ /\ b \in Driver /\ retryable
          /\ drv' = [drv EXCEPT ![b].at = "start"] /\ UNCHANGED <<plan, status>>
       \/ /\ b \in Driver /\ ~retryable
          /\ Finish(b, "failed", "start") /\ UNCHANGED status
       \/ /\ b = "scheduler" /\ ~retryable
          /\ status' = [status EXCEPT ![n] = "paused"] /\ UNCHANGED <<plan, drv>>
       \/ /\ b \in {"user", None} \/ (b = "scheduler" /\ retryable)
          /\ UNCHANGED <<status, plan, drv>>

(* A user starts a node, or the scheduler and the consumers a task. *)
UserRun(n, r) ==
    /\ Act("run")
    /\ FreeRun(r)
    /\ run' = [run EXCEPT ![r] = [NoRun EXCEPT !.at = "lock", !.node = n, !.by = "user"]]
    /\ UNCHANGED <<spec, status, plan, lock, active, drv, resuming, stopping, mail, passed>>

RunTask(n, r, by) ==
    /\ FreeRun(r)
    /\ run' = [run EXCEPT ![r] = [NoRun EXCEPT !.at = "admit", !.node = n, !.by = by]]

(* run_queued_, run_network_ and run_reset_continuations; that the limit has
   been lifted and the network is back is left open. *)
SchedulerStart(n, r) ==
    /\ status[n] \in {"queued", "waiting_for_network", "waiting_for_limit"}
    /\ active[n] = None
    /\ \A q \in Run : ~(run[q].by = "scheduler" /\ run[q].at \in Launching)
    /\ RunTask(n, r, "scheduler")
    /\ UNCHANGED <<spec, status, plan, lock, active, drv, resuming, stopping, mail, acts, passed>>

(* blocking_edges_for_node: unfinished nodes that n is blocked on *)
BlockingEdges(n) == {p \in spec.blocks[n] : status[p] \notin Success}

(* blocking edges, then conflicting_locks *)
CheckLocks(r) ==
    /\ run[r].at = "lock"
    /\ LET n == run[r].node IN
         \/ /\ BlockingEdges(n) # {}
            /\ Refused(r, FALSE, FALSE)
         \/ /\ BlockingEdges(n) = {} /\ lock \notin {None, n}
            /\ Refused(r, TRUE, FALSE)
         \/ /\ BlockingEdges(n) = {} /\ lock \in {None, n}
            /\ run' = [run EXCEPT ![r].at = "insert"]
            /\ UNCHANGED <<status, plan, drv, lock>>
    /\ UNCHANGED <<spec, active, resuming, stopping, mail, acts, passed>>

(* acquire_locks inserts the row; the table's key admits one lock of a
   repository, the node's own included. *)
AcquireLocks(r) ==
    /\ run[r].at = "insert"
    /\ \/ /\ lock = None
          /\ lock' = run[r].node
          /\ run' = [run EXCEPT ![r].at = "admit", ![r].locked = TRUE]
          /\ UNCHANGED <<status, plan, drv>>
       \/ /\ lock # None
          /\ Refused(r, FALSE, FALSE)
    /\ UNCHANGED <<spec, active, resuming, stopping, mail, acts, passed>>

(* build_context_packet reads the graph, the repositories, knowledge, notes and
   earlier runs of a node whose locks are held; any of these may fail. *)
PacketError(r) == run[r].at = "admit" /\ run[r].locked

(* The context packet is built, stored, and the model options are set; an
   error in between returns without releasing the locks. *)
BuildPacketFails(r) ==
    /\ PacketError(r)
    /\ Refused(r, FALSE, FALSE)
    /\ UNCHANGED <<spec, active, resuming, stopping, mail, acts, passed>>

Permits == Cardinality({r \in Run : run[r].at \in {"register", "live", "ended"}})

(* session::create, and the task marked running *)
InsertSession(r) ==
    /\ status' = [status EXCEPT ![run[r].node] = "running"]
    /\ run' = [run EXCEPT ![r].at = "register"]

(* The last thing a launch needs before its session row is the task's
   worktree, made on first use (ensure_worktree); it may not get one. *)
NoWorktree(r) == Refused(r, FALSE, TRUE)

(* run_task_inner: refused when the task is already running or no slot is
   free, or by the repository, policy, adapter, account, sign-in, worktree or
   context; else the session row is created and the task is running.  Nothing
   keeps a second launch of the task from passing here as well. *)
CreateSession(r) ==
    /\ run[r].at = "admit"
    /\ \/ /\ active[run[r].node] # None \/ Permits >= Cap
          /\ Refused(r, TRUE, TRUE)
       \/ /\ active[run[r].node] = None /\ Permits < Cap
          /\ NoWorktree(r)
       \/ /\ active[run[r].node] = None /\ Permits < Cap
          /\ InsertSession(r)
          /\ UNCHANGED <<plan, drv, lock>>
    /\ UNCHANGED <<spec, active, resuming, stopping, mail, acts, passed>>

(* The adapter starts and the session is registered, over any other of the
   task; or it fails and the task is left running. *)
Register(r) ==
    /\ run[r].at = "register"
    /\ \/ /\ active' = [active EXCEPT ![run[r].node] = r]
          /\ run' = [run EXCEPT ![r].at = "live",
                     ![r].row = IF run[r].by \in Driver \cup {"user"} THEN "due" ELSE "none"]
          /\ UNCHANGED <<status, plan, drv, lock>>
       \/ Refused(r, FALSE, TRUE) /\ UNCHANGED active
    /\ UNCHANGED <<spec, resuming, stopping, mail, acts, passed>>

(* record_run, and attach_run_to_plan by the driver, which goes on; the
   session may be over by now. *)
RecordRun(r) ==
    /\ run[r].row = "due"
    /\ LET b == run[r].by IN
         /\ run' = [run EXCEPT ![r].row = "running", ![r].plan = b \in Driver]
         /\ drv' = IF b \in Driver /\ drv[b].at = "launch"
                   THEN [drv EXCEPT ![b].at = "start", ![b].started = @ + 1] ELSE drv
    /\ UNCHANGED <<spec, status, plan, lock, active, resuming, stopping, mail, acts, passed>>

------------------------------------------------------------------------------
(* consume_session *)

Report(r, e) ==
    /\ run[r].at = "live" /\ e \notin run[r].saw
    /\ run' = [run EXCEPT ![r].saw = @ \cup {e}]
    /\ status' = CASE e = "limit" -> [status EXCEPT ![run[r].node] = "waiting_for_limit"]
                   [] e = "network" -> [status EXCEPT ![run[r].node] = "waiting_for_network"]
                   [] e = "approval" -> status
    /\ UNCHANGED <<spec, plan, lock, active, drv, resuming, stopping, mail, acts, passed>>

EndStatus(saw, outcome) ==
    CASE "network" \in saw -> "waiting_for_network"
      [] "limit" \in saw /\ "network" \notin saw -> "waiting_for_limit"
      [] saw \cap {"limit", "network"} = {} ->
           CASE outcome = "completed" -> IF "approval" \in saw THEN "awaiting_approval" ELSE "review"
             [] outcome = "interrupted" -> "paused"
             [] outcome = "failed" -> "failed"

(* SessionEnded: the row of the run, if there is one yet, and the status. *)
SessionEnded(r, outcome) ==
    /\ run[r].at = "live"
    /\ run' = [run EXCEPT ![r].at = "ended", ![r].row = IF @ = "running" THEN "ended" ELSE @]
    /\ status' = [status EXCEPT ![run[r].node] = EndStatus(run[r].saw, outcome)]
    /\ UNCHANGED <<spec, plan, lock, active, drv, resuming, stopping, mail, acts, passed>>

(* The stream closes: the registry entry of the task, the permit, and the
   node's locks go, whichever launch of it registered or took them. *)
RemoveSession(r) ==
    /\ run[r].at = "ended"
    /\ active' = [active EXCEPT ![run[r].node] = None]
    /\ lock' = IF lock = run[r].node THEN None ELSE lock
    /\ run' = [run EXCEPT ![r].at = "tail"]
    /\ UNCHANGED <<spec, status, plan, drv, resuming, stopping, mail, acts, passed>>

(* After a limit or a lost network the task waits for the scheduler, or is
   requeued and started at once; otherwise a queued follow-up is run.  No
   work lock is taken for these. *)
Over(e) == [e EXCEPT !.at = "over", !.saw = {}, !.locked = FALSE]

TailWaits(r) ==
    /\ run[r].at = "tail"
    /\ \/ run[r].saw \cap {"limit", "network"} # {}
       \/ mail[run[r].node] = 0
    /\ run' = [run EXCEPT ![r] = Over(run[r])]
    /\ UNCHANGED <<spec, status, plan, lock, active, drv, resuming, stopping, mail, acts, passed>>

(* apply_fallback_decision, when it finds another agent *)
SwitchQueued(n) == status' = [status EXCEPT ![n] = "queued"] /\ UNCHANGED mail

TailContinues(r, q) ==
    /\ run[r].at = "tail" /\ FreeRun(q)
    /\ LET n == run[r].node IN
         /\ IF run[r].saw \cap {"limit", "network"} # {}
            THEN SwitchQueued(n)
            ELSE mail[n] > 0 /\ mail' = [mail EXCEPT ![n] = @ - 1] /\ UNCHANGED status
         /\ run' = [run EXCEPT ![r] = Over(run[r]),
                               ![q] = [NoRun EXCEPT !.at = "admit", !.node = n]]
    /\ UNCHANGED <<spec, plan, lock, active, drv, resuming, stopping, acts, passed>>

(* send_message: queued for a running task, else a turn of its own. *)
SendMessage(n, r) ==
    /\ Act("message")
    /\ \/ /\ active[n] # None /\ mail[n] < MaxMail
          /\ mail' = [mail EXCEPT ![n] = @ + 1]
          /\ UNCHANGED run
       \/ /\ active[n] = None
          /\ RunTask(n, r, "user")
          /\ UNCHANGED mail
    /\ UNCHANGED <<spec, status, plan, lock, active, drv, resuming, stopping, passed>>

(* AppCore::new: running tasks are queued again.  The locks, the rows of the
   runs and of the plan stay as they are, and no driver is started. *)
Restart ==
    /\ Act("restart")
    /\ status' = [n \in Node |-> IF n \in Task /\ status[n] = "running" THEN "queued" ELSE status[n]]
    /\ active' = [t \in Task |-> None]
    /\ run' = [r \in Run |-> IF run[r].at \in Consuming \cup {"over"}
                             THEN [Over(run[r]) EXCEPT !.row = IF @ = "due" THEN "none" ELSE @]
                             ELSE NoRun]
    /\ drv' = [d \in Driver |-> NoDriver]
    /\ resuming' = 0 /\ stopping' = FALSE
    /\ mail' = [t \in Task |-> 0]
    /\ UNCHANGED <<spec, plan, lock, passed>>

------------------------------------------------------------------------------
DriverStep(d) ==
    \/ DriverRead(d) \/ GateError(d) \/ PausePlan(d) \/ Decide(d) \/ EndPass(d)
    \/ \E n \in Node : ManualGate(d, n) \/ PassGate(d, n)
                       \/ \E answer \in Answers : EvaluateGate(d, n, answer)
    \/ \E n \in Task, r \in Run : StartNode(d, n, r)

RunStep(r) ==
    \/ CheckLocks(r) \/ AcquireLocks(r) \/ BuildPacketFails(r) \/ CreateSession(r)
    \/ Register(r) \/ RecordRun(r)
    \/ \E o \in {"completed", "interrupted", "failed"} : SessionEnded(r, o)
    \/ RemoveSession(r) \/ TailWaits(r)
    \/ \E q \in Run : TailContinues(r, q)

Users ==
    \/ StopWorkPlan \/ StopNodes \/ ResumeRead
    \/ \E n \in Node : Approve(n) \/ SendBack(n)
    \/ \E n \in Task, r \in Run : UserRun(n, r) \/ SendMessage(n, r)

Next ==
    \/ Users \/ SchedulerResume \/ Restart
    \/ \E d \in Driver : DriverStep(d) \/ ResumeWrite(d)
    \/ \E r \in Run : RunStep(r) \/ \E e \in Events : Report(r, e)
    \/ \E n \in Task, r \in Run : SchedulerStart(n, r)

Spec == Init /\ [][Next]_vars

(* The runtime polls drivers, launches and consumers, a provider ends its
   session, and the scheduler ticks.  Users need not do anything. *)
LiveSpec ==
    /\ Spec
    /\ \A d \in Driver : WF_vars(DriverStep(d))
    /\ \A r \in Run : WF_vars(RunStep(r))
    /\ WF_vars(\E d \in Driver : ResumeWrite(d))
    /\ WF_vars(SchedulerResume)
    /\ \A n \in Task : WF_vars(\E r \in Run : SchedulerStart(n, r))

------------------------------------------------------------------------------
(* A plan starts a node only after each of its gating prerequisites, handoffs
   included, has been declared done by a user or by a gate of the plan,
   although the driver works on a graph it read before it awaited gates,
   evaluations and other launches. *)
PlanRespectsGates ==
    \A r \in Run : run[r].by \in Driver => spec.gates[run[r].node] \subseteq passed

(* A plan that ended as completed has seen every node through its review or
   its gate; what failed, waits or was skipped is not counted, in any mode. *)
CompletedIsComplete == plan.state = "completed" => passed = Node

(* The nodes a failure makes unreachable: the least set with the failed nodes
   and every unfinished node gated on one of them. *)
Lost(s) ==
    {n \in Node : \A S \in SUBSET Node :
        (FailedNodes(s) \subseteq S
         /\ \A m \in Node : s[m] \notin Success /\ spec.gates[m] \cap S # {} => m \in S)
        => n \in S}

(* A continue-mode plan that ends with skipped work skipped only that: every
   other node of the graph its driver had read was finished. *)
SkipsOnlyLost ==
    [][\A d \in Driver :
         drv[d].at = "gate" /\ drv'[d].at = "off"
         /\ plan.error # "skipped" /\ plan'.error = "skipped"
         => \A n \in Node : Read(d)[n] \in Success \/ n \in Lost(Read(d))]_vars

(* What a running plan can wait for that no part of the program provides: a
   driver after a restart; a user's approval; the end of a session that never
   started, whose task was left running; a lock whose launch failed before it
   reached the task, or whose session died with the daemon; any node at all
   when every node is lost to a failure.  The last case is the bound on runs. *)
NeedsHelp ==
    \/ \A d \in Driver : drv[d].at = "off"
    \/ \E n \in Task : status[n] = "awaiting_approval"
    \/ \E n \in Task : /\ status[n] = "running"
                       /\ ~\E r \in Run : run[r].node = n /\ run[r].at \in {"register", "live"}
    \/ lock # None /\ ~\E r \in Run : run[r].node = lock /\ run[r].at \in Launching \cup Consuming
    \/ spec.fail = "continue" /\ FailedNodes(status) # {} /\ Lost(status) = Node
    \/ /\ \A r \in Run : run[r].at # "off"
       /\ \/ \E d \in Driver : drv[d].at = "start" /\ drv[d].todo # {}
          \/ \E n \in Task : status[n] \in {"draft", "queued", "paused", "waiting_for_limit",
                                           "waiting_for_network"}

(* A running plan ends or pauses, unless it needs help of one of the kinds
   above: locks held by others, limits, lost networks, failures, retries and a
   full session pool do not stop it for good. *)
PlanFinishes == plan.state = "running" ~> (plan.state # "running" \/ NeedsHelp)

(* A plan paused at a gate that its user has approved goes on by itself, also
   when the approval came before the driver had written "paused" and found no
   paused plan to resume. *)
Resumable == plan.after # None /\ status[plan.after] = "done" /\ CanResume
ApprovedPlanResumes == Resumable ~> ~Resumable

(* The plan is well typed, starts nothing behind an open gate and is completed
   only when all of it was accepted. *)
PlanSound == TypeOK /\ PlanRespectsGates /\ CompletedIsComplete

(* A running plan ends, pauses or asks for help, and a paused one whose gate
   was approved goes on: no wait of the driver is for ever. *)
PlanMovesOn == PlanFinishes /\ ApprovedPlanResumes
=============================================================================
