----------------------------- MODULE AgentThread -----------------------------
(***************************************************************************)
(* The life of one agent thread (crates/am-core/src/agent_thread.rs): the  *)
(* calls that start a provider session, the consumer of its events, the    *)
(* queue of follow-up messages, usage limits and provider fallback, task   *)
(* budgets, the scheduler's continuations, deletion and process restarts.  *)
(*                                                                         *)
(* A task is one tokio task: a caller of send_thread_message or            *)
(* run_agent_thread, which turns into the consumer of the session it       *)
(* started and then into the run that consumer spawns; the scheduler's     *)
(* attempt at the thread; or a caller of delete_agent_thread.  A step is   *)
(* the code between two awaits at which another task can interfere.        *)
(*                                                                         *)
(* Host execution with unmanaged provider sign-in: provider accounts,      *)
(* local models, cloud runs and collaboration assignments are not in use.  *)
(***************************************************************************)
EXTENDS Naturals, Sequences, FiniteSets

CONSTANTS
    Task,           \* tokio tasks that work on the thread
    Agent,          \* AgentKind
    Msg,            \* user messages; each is sent at most once
    None,           \* Option::None
    BudgetKind,     \* modes of TaskBudget: "unlimited", "tokens", "weekly"
    Codex,          \* the agent that reports the weekly quota window
    AutoSwitch,     \* LimitPolicy.auto_switch
    SwitchBack,     \* LimitPolicy.switch_back
    ResumeEarliest, \* LimitPolicy.resume_with_earliest
    MaxLimit,       \* bound: the largest cap the user sets
    MaxSpend,       \* bound: the largest recorded usage
    Events          \* bound: what happens to the thread in this instance

ASSUME ConstantsAssumption ==
    /\ BudgetKind \subseteq {"unlimited", "tokens", "weekly"}
    /\ {AutoSwitch, SwitchBack, ResumeEarliest} \subseteq BOOLEAN
    /\ Codex \in Agent
    /\ MaxLimit \in Nat \ {0}
    /\ MaxSpend \in Nat
    /\ Events \subseteq {"limit", "network", "delete", "restart"}
    /\ None \notin Task \cup Agent \cup Msg \cup [m : Msg, echo : BOOLEAN]

VARIABLES
    \* the database
    exists,     \* the agent_threads row is there
    thread,     \* its columns agent, original, back (switch_back), kind and limit (task_budget)
    status,     \* its column status
    started,    \* agent_turns has a row for this thread
    spent,      \* usage_ledger total, or weekly_consumed_percent
    queue,      \* queued_turns in (created_at, id) order
    echoes,     \* user rows of agent_thread_messages, per message
    limited,    \* agents.availability is Limited with its reset ahead
    \* the daemon's memory
    active,     \* SessionManager.active: the task whose session it is
    launch,     \* SessionManager.launches: the task that owns the launch lock
    cancelled,  \* SessionControl::cancel was called on the active session
    pc,         \* where each task is
    job,        \* the locals of each task
    \* the user
    sent        \* messages sent so far

database == <<exists, thread, status, started, spent, queue, echoes, limited>>
memory == <<active, launch, cancelled, pc, job>>
vars == <<database, memory, sent>>

Status == {"draft", "queued", "running", "waiting_for_limit",
           "waiting_for_network", "paused", "review", "failed"}

(* agent is active_agent, or preferred_agent as long as that is unset. *)
Thread == [agent : Agent, original : Agent \cup {None}, back : BOOLEAN,
           kind : BudgetKind, limit : 1..MaxLimit]

(* The launch lock is held in Launching and the session is registered in
   Session; "requeue".."drain" is what the consumer does after removing it. *)
Pc == {"idle", "enqueue", "lock", "load", "limited", "pop", "wait", "turn",
       "start", "live", "ended", "requeue", "requeue_order", "tail", "drain",
       "sched", "sched_error", "delete_wait", "delete_rows"}
Launching == {"load", "pop", "wait", "turn", "start"}
Session == {"live", "ended"}

(* PendingThreadMessage: echo is echo_user_message. *)
Message == [m : Msg, echo : BOOLEAN]

(* who asked for the run, its agent argument, the message it holds, the row it
   loaded and will save back, the cap the consumer read, the consumer's flags
   and the queue ids its requeue listed. *)
Flag == {"limit", "net", "exhausted", "telemetry", "completed"}
Job == [who : {"user", "spawn", "queued", "reset", "network"},
        agt : Agent \cup {None}, msg : Message \cup {None}, row : Thread \cup {None},
        cap : 0..MaxLimit, saw : SUBSET Flag, ids : Seq(Msg)]
NewJob(by, a, m) == [who |-> by, agt |-> a, msg |-> m, row |-> None, cap |-> 0,
                     saw |-> {}, ids |-> << >>]
NoJob == NewJob("user", None, None)
Scheduled == {"queued", "reset", "network"}

(* Every column and every local has its type, the budget columns included. *)
TypeOK ==
    /\ exists \in BOOLEAN
    /\ thread \in Thread
    /\ status \in Status
    /\ started \in BOOLEAN
    /\ spent \in 0..MaxSpend
    /\ queue \in Seq(Message)
    /\ echoes \in [Msg -> Nat]
    /\ limited \in [Agent -> BOOLEAN]
    /\ active \in Task \cup {None}
    /\ launch \in Task \cup {None}
    /\ cancelled \in BOOLEAN
    /\ pc \in [Task -> Pc]
    /\ job \in [Task -> Job]
    /\ sent \in SUBSET Msg

Init ==
    /\ exists = TRUE
    /\ \E k \in BudgetKind :
         thread = [agent |-> Codex, original |-> None, back |-> FALSE, kind |-> k, limit |-> 1]
    /\ status = "draft" /\ started = FALSE /\ spent = 0
    /\ queue = << >>
    /\ echoes = [m \in Msg |-> 0]
    /\ limited = [a \in Agent |-> FALSE]
    /\ active = None /\ launch = None /\ cancelled = FALSE
    /\ pc = [t \in Task |-> "idle"]
    /\ job = [t \in Task |-> NoJob]
    /\ sent = {}

Budgeted(r) == r.kind # "unlimited"

------------------------------------------------------------------------------
(* Task bookkeeping shared by the actions. *)

Goto(t, p) == pc' = [pc EXCEPT ![t] = p]

(* The call is over: what it held in memory is gone. *)
Leave(t) == Goto(t, "idle") /\ job' = [job EXCEPT ![t] = NoJob]

(* The task enters run_agent_thread_inner and waits in lock_start. *)
Enter(t, by, a, m) ==
    /\ Goto(t, "lock")
    /\ job' = [job EXCEPT ![t] = NewJob(by, a, m)]

(* A write to a deleted row changes nothing. *)
SaveStatus(st) == status' = IF exists THEN st ELSE status

(* Inserting a queued turn for a deleted thread violates its foreign key. *)
Enqueue(m) == queue' = IF exists THEN Append(queue, m) ELSE queue

Unlock(t) == launch' = IF launch = t THEN None ELSE launch

------------------------------------------------------------------------------
(* Requests of the user. *)

(* send_thread_message up to its active check. *)
SendMessage(t, m, a) ==
    /\ pc[t] = "idle" /\ m \notin sent /\ exists
    /\ sent' = sent \cup {m}
    /\ IF active # None
       THEN /\ Goto(t, "enqueue")
            /\ job' = [job EXCEPT ![t].msg = [m |-> m, echo |-> TRUE]]
       ELSE Enter(t, "user", a, [m |-> m, echo |-> TRUE])
    /\ UNCHANGED <<database, active, launch, cancelled>>

(* run_agent_thread without a message: the user starts or resumes the thread. *)
RunThread(t, a) ==
    /\ pc[t] = "idle" /\ exists
    /\ Enter(t, "user", a, None)
    /\ UNCHANGED <<database, active, launch, cancelled, sent>>

(* stop_agent_thread. *)
StopThread ==
    /\ active # None /\ ~cancelled
    /\ cancelled' = TRUE
    /\ UNCHANGED <<database, active, launch, pc, job, sent>>

(* validate_change, for another cap of the same kind: after its first turn a
   thread is only topped up. *)
ValidateChange(n) == started => n >= thread.limit

(* update_agent_thread with another cap: refused while a session is active. *)
UpdateBudget(n) ==
    /\ Budgeted(thread) /\ exists /\ active = None
    /\ n # thread.limit /\ ValidateChange(n)
    /\ thread' = [thread EXCEPT !.limit = n]
    /\ UNCHANGED <<exists, status, started, spent, queue, echoes, limited, memory, sent>>

(* delete_agent_thread with force: cancel, wait until the registry entry is
   gone (the wait may time out), clean up the workspace and delete. *)
DeleteThread(t) ==
    /\ "delete" \in Events /\ pc[t] = "idle" /\ exists
    /\ \A u \in Task : pc[u] \notin {"delete_wait", "delete_rows"}
    /\ cancelled' = (cancelled \/ active # None)
    /\ Goto(t, IF active # None THEN "delete_wait" ELSE "delete_rows")
    /\ UNCHANGED <<database, active, launch, job, sent>>

DeleteWait(t) ==
    /\ pc[t] = "delete_wait"
    /\ Goto(t, IF active = None THEN "delete_rows" ELSE "idle")
    /\ UNCHANGED <<database, active, launch, cancelled, job, sent>>

DeleteRows(t) ==
    /\ pc[t] = "delete_rows"
    /\ exists' = FALSE
    /\ queue' = << >>
    /\ Goto(t, "idle")
    /\ UNCHANGED <<thread, status, started, spent, echoes, limited, active, launch,
                   cancelled, job, sent>>

------------------------------------------------------------------------------
(* run_agent_thread_inner: one launch at a time per thread.  The lock is a
   fair tokio mutex, but a task may take any time to reach it. *)

(* A session is registered: a message is kept as a follow-up, a bare start is
   refused (an error the scheduler regards as retryable). *)
AlreadyRunning(t) ==
    /\ pc[t] = "lock" /\ launch = None /\ active # None
    /\ IF job[t].msg # None
       THEN launch' = t /\ Goto(t, "enqueue") /\ UNCHANGED job
       ELSE Leave(t) /\ UNCHANGED launch
    /\ UNCHANGED <<database, active, cancelled, sent>>

(* The insert send_thread_message or the launch decided on. *)
EnqueueMessage(t) ==
    /\ pc[t] = "enqueue"
    /\ Enqueue(job[t].msg)
    /\ Unlock(t)
    /\ Leave(t)
    /\ UNCHANGED <<exists, thread, status, started, spent, echoes, limited, active,
                   cancelled, sent>>

(* Seeded fault: the active check is left to send_thread_message. *)
NotRunningUnchecked(t) ==
    /\ pc[t] = "lock" /\ launch = None
    /\ launch' = t
    /\ Goto(t, "load")
    /\ UNCHANGED <<database, active, cancelled, job, sent>>

NotRunning(t) ==
    /\ pc[t] = "lock" /\ launch = None /\ active = None
    /\ launch' = t
    /\ Goto(t, "load")
    /\ UNCHANGED <<database, active, cancelled, job, sent>>

(* The run ends with an error.  The scheduler handles it, a user's caller
   reports it, the tasks spawned by a consumer drop it. *)
RunError(t) ==
    /\ IF job[t].who \in Scheduled
       THEN Goto(t, "sched_error") /\ job' = [job EXCEPT ![t] = NoJob]
       ELSE Leave(t)
    /\ Unlock(t)
    /\ UNCHANGED <<exists, thread, started, spent, queue, echoes, limited, active,
                   cancelled, sent>>

(* The row is gone, validate_runtime_budget, the sign-in probe or the
   workspace refuse. *)
Refused(t) ==
    /\ pc[t] = "load"
    /\ RunError(t) /\ UNCHANGED status

(* Seeded fault: validate_runtime_budget forgets the agent. *)
WeeklyAnyAgent(t) == TRUE

WeeklyNeedsCodex(t) == thread.kind = "weekly" => job[t].agt = Codex

(* A percentage budget is paused when the agent is known to be limited. *)
PercentageLimited(t) ==
    /\ pc[t] = "load" /\ exists /\ WeeklyNeedsCodex(t)
    /\ limited[job[t].agt] /\ thread.kind = "weekly"
    /\ SaveStatus("paused") /\ RunError(t)

(* Seeded fault: startup ownership is kept across the recursion. *)
KnownLimitedKeepsLock(t) ==
    /\ pc[t] = "load" /\ exists
    /\ limited[job[t].agt] /\ thread.kind # "weekly"
    /\ job' = [job EXCEPT ![t].row = thread]
    /\ Goto(t, "limited")
    /\ UNCHANGED <<database, active, launch, cancelled, sent>>

(* Otherwise startup ownership is released, and the message goes to another
   agent or to the queue. *)
KnownLimited(t) ==
    /\ pc[t] = "load" /\ exists
    /\ limited[job[t].agt] /\ thread.kind # "weekly"
    /\ job' = [job EXCEPT ![t].row = thread]
    /\ Unlock(t)
    /\ Goto(t, "limited")
    /\ UNCHANGED <<database, active, cancelled, sent>>

BudgetSpent(t) ==
    /\ pc[t] = "load" /\ exists /\ WeeklyNeedsCodex(t)
    /\ ~limited[job[t].agt] /\ Budgeted(thread) /\ spent >= thread.limit
    /\ SaveStatus("paused") /\ RunError(t)

(* Seeded fault: a budget that is spent to the last token passes. *)
PreflightOffByOne(t) ==
    /\ pc[t] = "load" /\ exists /\ WeeklyNeedsCodex(t)
    /\ ~limited[job[t].agt]
    /\ Budgeted(thread) => spent <= thread.limit
    /\ job' = [job EXCEPT ![t].row = thread]
    /\ Goto(t, "pop")
    /\ UNCHANGED <<database, active, launch, cancelled, sent>>

(* The preflight passed; the row just read is what will be saved back. *)
Preflight(t) ==
    /\ pc[t] = "load" /\ exists /\ WeeklyNeedsCodex(t)
    /\ ~limited[job[t].agt]
    /\ Budgeted(thread) => spent < thread.limit
    /\ job' = [job EXCEPT ![t].row = thread]
    /\ Goto(t, "pop")
    /\ UNCHANGED <<database, active, launch, cancelled, sent>>

(* A run without a message delivers the oldest queued one. *)
Pops(t) == job[t].msg = None /\ queue # << >>
Pending(t) == IF Pops(t) THEN Head(queue) ELSE job[t].msg
AfterPop(t) == IF Pops(t) THEN Tail(queue) ELSE queue

(* Seeded fault: pop_next returns the row without deleting it. *)
AdmittedKeepsRow(t) ==
    /\ pc[t] = "pop"
    /\ job' = [job EXCEPT ![t].msg = Pending(t)]
    /\ Goto(t, "turn")
    /\ UNCHANGED <<database, active, launch, cancelled, sent>>

(* try_acquire succeeds. *)
Admitted(t) ==
    /\ pc[t] = "pop"
    /\ job' = [job EXCEPT ![t].msg = Pending(t)]
    /\ queue' = AfterPop(t)
    /\ Goto(t, "turn")
    /\ UNCHANGED <<exists, thread, status, started, spent, echoes, limited, active,
                   launch, cancelled, sent>>

(* No slot: the message goes to the end of the queue, the whole row read
   earlier is saved over whatever was changed in between, and the call waits in
   acquire_queued, launch lock held. *)
AtCapacity(t) ==
    /\ pc[t] = "pop" /\ exists
    /\ queue' = IF Pending(t) # None THEN Append(AfterPop(t), Pending(t)) ELSE queue
    /\ job' = [job EXCEPT ![t].msg = None]
    /\ thread' = job[t].row
    /\ status' = "queued"
    /\ Goto(t, "wait")
    /\ UNCHANGED <<exists, started, spent, echoes, limited, active, launch, cancelled,
                   sent>>

(* user_thread_event, appended to the transcript unless it was shown before. *)
UserThreadEvent(p) ==
    echoes' = IF p # None /\ p.echo THEN [echoes EXCEPT ![p.m] = @ + 1] ELSE echoes

(* The slot is there: the turn row, the user's message in the transcript and
   the whole row with status Running. *)
CreateTurn(t) ==
    /\ pc[t] \in {"turn", "wait"} /\ exists
    /\ queue' = AfterPop(t)
    /\ started' = TRUE
    /\ LET p == Pending(t) IN
         /\ UserThreadEvent(p)
         /\ job' = [job EXCEPT ![t].msg = p, ![t].row = None]
    /\ thread' = [job[t].row EXCEPT !.agent = job[t].agt]
    /\ status' = "running"
    /\ Goto(t, "start")
    /\ UNCHANGED <<exists, spent, limited, active, launch, cancelled, sent>>

(* The thread was deleted under the launch: the next insert or save fails. *)
ThreadGone(t) ==
    /\ pc[t] \in {"limited", "pop", "turn", "wait"} /\ ~exists
    /\ RunError(t) /\ UNCHANGED status

(* adapter.start or adapter.resume succeeds: the control handle is registered
   and the consumer spawned, which reads the thread's budget. *)
StartSession(t) ==
    /\ pc[t] = "start"
    /\ active' = t /\ cancelled' = FALSE
    /\ Unlock(t)
    /\ job' = [job EXCEPT ![t].who = "spawn", ![t].cap = IF Budgeted(thread) THEN thread.limit ELSE 0]
    /\ Goto(t, "live")
    /\ UNCHANGED <<database, sent>>

(* The adapter fails: the error is returned and nothing is rolled back. *)
StartFailed(t) ==
    /\ pc[t] = "start"
    /\ RunError(t) /\ UNCHANGED status

------------------------------------------------------------------------------
(* start_known_limited_thread_fallback, after the launch lock was dropped.   *)

Ready(a) == ~limited[a]

(* fallback_decision: with auto_switch, another ready agent (the priority order
   only picks which one); without one, or without auto_switch, wait. *)
SwitchTargets(a) == IF AutoSwitch THEN {b \in Agent \ {a} : Ready(b)} ELSE {}

(* The row with the switch from agent a to agent b recorded. *)
Switched(r, a, b) ==
    [r EXCEPT !.agent = b, !.back = SwitchBack, !.original = IF @ = None THEN a ELSE @]

(* Switch: the copy loaded by the launch is saved with the new agent and the
   run is entered again with the same message. *)
LimitedSwitch(t) ==
    /\ pc[t] = "limited" /\ exists
    /\ \E b \in SwitchTargets(job[t].agt) :
         /\ thread' = Switched(job[t].row, job[t].agt, b)
         /\ Enter(t, job[t].who, b, job[t].msg)
    /\ status' = "queued"
    /\ UNCHANGED <<exists, started, spent, queue, echoes, limited, active, launch,
                   cancelled, sent>>

(* Wait or Disabled: the message goes to the end of the queue. *)
LimitedWait(t) ==
    /\ pc[t] = "limited" /\ exists
    /\ SwitchTargets(job[t].agt) = {}
    /\ IF job[t].msg # None THEN Enqueue(job[t].msg) ELSE UNCHANGED queue
    /\ thread' = job[t].row
    /\ status' = "waiting_for_limit"
    /\ Leave(t)
    /\ UNCHANGED <<exists, started, spent, echoes, limited, active, launch, cancelled,
                   sent>>

------------------------------------------------------------------------------
(* consume_agent_thread_turn: the events of the provider session. *)

Note(t, flags) == job' = [job EXCEPT ![t].saw = @ \cup flags]
Saw(t, f) == f \in job[t].saw

(* observe: a sample adds what the reading rose by; a window that falls gives
   nothing back. *)
Consumed(n) == spent + n

(* The budget the consumer read when the session started is used up; a token
   report of zero is not compared. *)
UsedUp(t, n) == Consumed(n) >= job[t].cap /\ (n > 0 \/ thread.kind = "weekly")

(* TokenUsage, or a QuotaWindow of the weekly window, whose last sample is
   final: usage is recorded and a spent budget cancels the session. *)
Usage(t, n, final) ==
    /\ pc[t] = "live" /\ Budgeted(thread)
    /\ Consumed(n) <= MaxSpend
    /\ spent' = Consumed(n)
    /\ Note(t, {f \in {"telemetry", "exhausted"} :
                  \/ f = "telemetry" /\ (thread.kind = "tokens" \/ final)
                  \/ f = "exhausted" /\ UsedUp(t, n)})
    /\ cancelled' = (cancelled \/ (UsedUp(t, n) /\ active # None))
    /\ UNCHANGED <<exists, thread, status, started, queue, echoes, limited, active,
                   launch, pc, sent>>

(* mark_agent_limited: until a reset time, the provider's or a synthesised
   one that backs off with every unknown reset. *)
MarkAgentLimited(a) == limited' = [limited EXCEPT ![a] = TRUE]

UsageLimitReached(t) ==
    /\ "limit" \in Events /\ pc[t] = "live" /\ ~Saw(t, "limit")
    /\ Note(t, {"limit"})
    /\ MarkAgentLimited(job[t].agt)
    /\ SaveStatus(IF thread.kind = "weekly" THEN "paused" ELSE "waiting_for_limit")
    /\ UNCHANGED <<exists, thread, started, spent, queue, echoes, active, launch,
                   cancelled, pc, sent>>

NetworkUnavailable(t) ==
    /\ "network" \in Events /\ pc[t] = "live" /\ ~Saw(t, "net")
    /\ Note(t, {"net"})
    /\ SaveStatus("waiting_for_network")
    /\ UNCHANGED <<exists, thread, started, spent, queue, echoes, limited, active,
                   launch, cancelled, pc, sent>>

(* A budgeted turn whose usage was not reported is stopped like a spent one. *)
BudgetStops(t) == Saw(t, "exhausted") \/ (Budgeted(thread) /\ ~Saw(t, "telemetry"))

(* The status a turn leaves behind.  asked: an approval was still open. *)
EndStatus(t, outcome, asked) ==
    CASE BudgetStops(t) -> "paused"
      [] ~BudgetStops(t) /\ Saw(t, "net") -> "waiting_for_network"
      [] ~BudgetStops(t) /\ ~Saw(t, "net") /\ Saw(t, "limit") -> "waiting_for_limit"
      [] OTHER -> [completed |-> IF asked THEN "paused" ELSE "review",
                   interrupted |-> "paused", failed |-> "failed"][outcome]

(* SessionEnded, or the provider's channel closing (a failed end): the turn is
   finished, the thread gets its resting status and the handoff summary. *)
SessionEnded(t, outcome, asked) ==
    /\ pc[t] = "live"
    /\ LET done == outcome = "completed" /\ ~Saw(t, "net") IN
         /\ limited' = IF done /\ ~Saw(t, "limit")
                       THEN [limited EXCEPT ![job[t].agt] = FALSE] ELSE limited
         /\ Note(t, IF done THEN {"completed"} ELSE {})
    /\ SaveStatus(EndStatus(t, outcome, asked))
    /\ Goto(t, "ended")
    /\ UNCHANGED <<exists, thread, started, spent, queue, echoes, active, launch,
                   cancelled, sent>>

(* sessions.remove, drop(permit), the repository locks are released; the ids
   of the queue are listed for the requeue. *)
RemoveSession(t) ==
    /\ pc[t] = "ended"
    /\ active' = None /\ cancelled' = FALSE
    /\ LET again == ~Saw(t, "exhausted") /\ (Saw(t, "limit") \/ Saw(t, "net"))
                      /\ job[t].msg # None
       IN  /\ Goto(t, IF again THEN "requeue" ELSE "tail")
           /\ job' = [job EXCEPT ![t].ids =
                        IF again THEN [i \in 1..Len(queue) |-> queue[i].m] ELSE << >>,
                        ![t].msg = IF again THEN @ ELSE None]
    /\ UNCHANGED <<database, launch, sent>>

(* Seeded fault: the interrupted message is queued as if never shown. *)
RequeueEchoes(t) ==
    /\ pc[t] = "requeue"
    /\ Enqueue(job[t].msg)
    /\ job' = [job EXCEPT ![t].ids = <<job[t].msg.m>> \o @, ![t].msg = None]
    /\ Goto(t, IF exists THEN "requeue_order" ELSE "tail")
    /\ UNCHANGED <<exists, thread, status, started, spent, echoes, limited, active,
                   launch, cancelled, sent>>

(* The interrupted message is inserted again ... *)
RequeueInsert(t) ==
    /\ pc[t] = "requeue"
    /\ Enqueue([job[t].msg EXCEPT !.echo = FALSE])
    /\ job' = [job EXCEPT ![t].ids = <<job[t].msg.m>> \o @, ![t].msg = None]
    /\ Goto(t, IF exists THEN "requeue_order" ELSE "tail")
    /\ UNCHANGED <<exists, thread, status, started, spent, echoes, limited, active,
                   launch, cancelled, sent>>

(* ... and queued_turn::reorder rewrites created_at: the listed rows are
   stamped from now on in the order of the list, a row that is not listed keeps
   its older stamp and comes first. *)
CreatedAt(q, order, i) ==
    LET at == {n \in DOMAIN order : order[n] = q[i].m}
    IN  IF at = {} THEN i ELSE Len(q) + (CHOOSE n \in at : TRUE)

(* The queue in the new order of created_at: its rows, each once, by stamp. *)
Reordered(q, order) ==
    {[i \in DOMAIN q |-> q[at[i]]] : at \in {f \in [DOMAIN q -> DOMAIN q] :
        \A i, k \in DOMAIN q : i < k => /\ f[i] # f[k]
                                       /\ CreatedAt(q, order, f[i]) <= CreatedAt(q, order, f[k])}}

RequeueOrder(t) ==
    /\ pc[t] = "requeue_order"
    /\ queue' \in Reordered(queue, job[t].ids)
    /\ job' = [job EXCEPT ![t].ids = << >>]
    /\ Goto(t, "tail")
    /\ UNCHANGED <<exists, thread, status, started, spent, echoes, limited, active,
                   launch, cancelled, sent>>

------------------------------------------------------------------------------
(* What the consumer does last. *)

(* A stopped budget, or an interrupted budgeted turn, starts nothing. *)
TailStops(t) ==
    /\ pc[t] = "tail"
    /\ \/ BudgetStops(t)
       \/ Saw(t, "net") /\ Budgeted(thread)
       \/ Saw(t, "limit") /\ ~Saw(t, "net") /\ thread.kind = "weekly"
    /\ Leave(t)
    /\ UNCHANGED <<database, active, launch, cancelled, sent>>

(* resume_thread_cloud_after_network: back to the original agent, unless a
   session is running (then only switch_back_pending is noted). *)
ResumeAfterNetwork(t, current) ==
    IF exists /\ active = None
    THEN LET a == IF thread.original # None THEN thread.original ELSE current IN
         /\ thread' = [thread EXCEPT !.agent = a, !.original = None]
         /\ status' = "queued"
         /\ Enter(t, "spawn", a, None)
    ELSE Leave(t) /\ UNCHANGED <<thread, status>>

(* handle_thread_network_loss: resume when the probe finds the network stable,
   otherwise leave the thread to the scheduler. *)
NetworkLost(t, stable) ==
    /\ pc[t] = "tail" /\ Saw(t, "net") /\ ~Budgeted(thread)
    /\ IF stable THEN ResumeAfterNetwork(t, job[t].agt)
                 ELSE Leave(t) /\ UNCHANGED <<thread, status>>
    /\ UNCHANGED <<exists, started, spent, queue, echoes, limited, active, launch,
                   cancelled, sent>>

TailLimited(t) ==
    /\ pc[t] = "tail" /\ ~BudgetStops(t)
    /\ Saw(t, "limit") /\ ~Saw(t, "net") /\ thread.kind # "weekly"

(* start_thread_fallback: Switch. *)
FallbackSwitch(t) ==
    /\ TailLimited(t)
    /\ \E b \in SwitchTargets(job[t].agt) :
         IF exists
         THEN thread' = Switched(thread, job[t].agt, b) /\ Enter(t, "spawn", b, None)
         ELSE Leave(t) /\ UNCHANGED thread
    /\ SaveStatus("queued")
    /\ UNCHANGED <<exists, started, spent, queue, echoes, limited, active, launch,
                   cancelled, sent>>

(* start_thread_fallback: Wait writes the waiting status again, Disabled
   leaves the one the turn ended with. *)
FallbackWait(t) ==
    /\ TailLimited(t)
    /\ SwitchTargets(job[t].agt) = {}
    /\ IF AutoSwitch THEN SaveStatus("waiting_for_limit") ELSE UNCHANGED status
    /\ Leave(t)
    /\ UNCHANGED <<exists, thread, started, spent, queue, echoes, limited, active,
                   launch, cancelled, sent>>

(* maybe_mark_thread_switchback_ready after a completed turn; due: the
   recorded reset time of the original agent has passed. *)
SwitchBackReady(t, due) ==
    /\ pc[t] = "tail" /\ ~BudgetStops(t) /\ ~Saw(t, "net") /\ ~Saw(t, "limit")
    /\ thread' = IF /\ Saw(t, "completed") /\ exists /\ due
                    /\ thread.original # None /\ thread.back
                 THEN [thread EXCEPT !.agent = thread.original, !.original = None]
                 ELSE thread
    /\ job' = [job EXCEPT ![t].saw = {}, ![t].cap = 0]
    /\ Goto(t, "drain")
    /\ UNCHANGED <<exists, status, started, spent, queue, echoes, limited, active,
                   launch, cancelled, sent>>

(* The oldest follow-up is popped and handed to a new run. *)
DrainQueue(t) ==
    /\ pc[t] = "drain"
    /\ queue' = IF queue # << >> THEN Tail(queue) ELSE queue
    /\ IF queue # << >> THEN Enter(t, "spawn", thread.agent, Head(queue)) ELSE Leave(t)
    /\ UNCHANGED <<exists, thread, status, started, spent, echoes, limited, active,
                   launch, cancelled, sent>>

------------------------------------------------------------------------------
(* scheduler.rs.  The loop awaits each run it starts, so it has at most one
   attempt in progress; the list it works from was read earlier. *)

SchedulerIdle ==
    \A t \in Task : pc[t] # "sched_error" /\ job[t].who \notin Scheduled

ListThread(t, why) ==
    /\ pc[t] = "idle" /\ exists /\ SchedulerIdle
    /\ status = [queued |-> "queued", reset |-> "waiting_for_limit",
                 network |-> "waiting_for_network"][why]
    /\ Goto(t, "sched")
    /\ job' = [job EXCEPT ![t].who = why]
    /\ UNCHANGED <<database, active, launch, cancelled, sent>>

(* Seeded fault: only another agent resumes the thread. *)
ResumeOthersOnly == {a \in Agent : Ready(a) /\ ResumeEarliest /\ a # thread.agent}

(* thread_resume_agent: the active agent once it is ready, or with
   resume_with_earliest any ready one in priority order. *)
ResumeAgents ==
    IF Ready(thread.agent) THEN {thread.agent}
    ELSE {a \in Agent : Ready(a) /\ ResumeEarliest}

(* A session is running by now, no agent is ready or the network probe fails:
   nothing to do in this tick. *)
SkipThread(t) ==
    /\ pc[t] = "sched"
    /\ \/ active # None
       \/ job[t].who = "reset" /\ ResumeAgents = {}
       \/ job[t].who = "network"
    /\ Leave(t)
    /\ UNCHANGED <<database, active, launch, cancelled, sent>>

ContinueQueued(t) ==
    /\ pc[t] = "sched" /\ job[t].who = "queued" /\ active = None
    /\ Enter(t, "queued", thread.agent, None)
    /\ UNCHANGED <<database, active, launch, cancelled, sent>>

(* try_thread_scheduler_start records a switch of agents before it runs. *)
ContinueAfterReset(t, a) ==
    /\ pc[t] = "sched" /\ job[t].who = "reset" /\ active = None
    /\ a \in ResumeAgents
    /\ thread' = IF a # thread.agent /\ exists
                 THEN [thread EXCEPT !.agent = a,
                         !.original = IF @ = None THEN thread.agent ELSE @]
                 ELSE thread
    /\ Enter(t, "reset", a, None)
    /\ UNCHANGED <<exists, status, started, spent, queue, echoes, limited, active,
                   launch, cancelled, sent>>

ContinueAfterNetwork(t) ==
    /\ pc[t] = "sched" /\ job[t].who = "network" /\ active = None
    /\ ResumeAfterNetwork(t, thread.agent)
    /\ UNCHANGED <<exists, started, spent, queue, echoes, limited, active, launch,
                   cancelled, sent>>

(* handle_thread_scheduler_start_error of an error that is not retryable. *)
PauseAfterError(t) ==
    /\ pc[t] = "sched_error"
    /\ SaveStatus("paused")
    /\ Goto(t, "idle")
    /\ UNCHANGED <<exists, thread, started, spent, queue, echoes, limited, active,
                   launch, cancelled, job, sent>>

------------------------------------------------------------------------------
(* A limit's reset time passes (detect_agents probes the agent again). *)
LimitLifts(a) ==
    /\ limited[a]
    /\ limited' = [limited EXCEPT ![a] = FALSE]
    /\ UNCHANGED <<exists, thread, status, started, spent, queue, echoes, memory, sent>>

(* The daemon dies and AppCore::new reconciles what it left. *)
Restart ==
    /\ "restart" \in Events /\ \E t \in Task : pc[t] # "idle"
    /\ status' = IF status = "running" THEN "queued" ELSE status
    /\ active' = None /\ launch' = None /\ cancelled' = FALSE
    /\ pc' = [t \in Task |-> "idle"]
    /\ job' = [t \in Task |-> NoJob]
    /\ UNCHANGED <<exists, thread, started, spent, queue, echoes, limited, sent>>

Outcome == {"completed", "interrupted", "failed"}

Request ==
    \/ \E t \in Task, m \in Msg, a \in Agent : SendMessage(t, m, a)
    \/ \E t \in Task, a \in Agent : RunThread(t, a)
    \/ \E t \in Task : DeleteThread(t)
    \/ \E n \in 1..MaxLimit : UpdateBudget(n)
    \/ StopThread

(* What a task does by itself, without the provider. *)
Step(t) ==
    \/ EnqueueMessage(t) \/ AlreadyRunning(t) \/ NotRunning(t) \/ Refused(t)
    \/ PercentageLimited(t) \/ KnownLimited(t) \/ BudgetSpent(t) \/ Preflight(t)
    \/ Admitted(t) \/ AtCapacity(t) \/ CreateTurn(t) \/ ThreadGone(t)
    \/ StartSession(t) \/ StartFailed(t) \/ LimitedSwitch(t) \/ LimitedWait(t)
    \/ RemoveSession(t) \/ RequeueInsert(t) \/ RequeueOrder(t) \/ TailStops(t)
    \/ FallbackSwitch(t) \/ FallbackWait(t) \/ DrainQueue(t)
    \/ \E b \in BOOLEAN : NetworkLost(t, b) \/ SwitchBackReady(t, b)
    \/ SkipThread(t) \/ ContinueQueued(t) \/ ContinueAfterNetwork(t)
    \/ \E a \in Agent : ContinueAfterReset(t, a)
    \/ DeleteWait(t) \/ DeleteRows(t) \/ PauseAfterError(t)

Ends(t) == \E o \in Outcome, asked \in BOOLEAN : SessionEnded(t, o, asked)

Provider(t) ==
    \/ \E n \in {0, 1}, final \in BOOLEAN : Usage(t, n, final)
    \/ UsageLimitReached(t) \/ NetworkUnavailable(t) \/ Ends(t)

Tick == \E t \in Task, why \in Scheduled : ListThread(t, why)

Next ==
    \/ Request
    \/ \E t \in Task : Step(t) \/ Provider(t)
    \/ Tick
    \/ \E a \in Agent : LimitLifts(a)
    \/ Restart

Spec == Init /\ [][Next]_vars

(* The runtime polls every runnable task, the launch lock is a fair mutex, a
   provider turn ends, a reset time passes, and the scheduler ticks again as
   long as there is something to continue. *)
Fairness ==
    /\ \A t \in Task : /\ WF_vars(Step(t))
                      /\ SF_vars(AlreadyRunning(t) \/ NotRunning(t))
                      /\ WF_vars(Ends(t))
    /\ \A a \in Agent : WF_vars(LimitLifts(a))
    /\ SF_vars(Tick)

LiveSpec == Spec /\ Fairness

------------------------------------------------------------------------------
(* At most one provider session per thread, and the registry names it: two
   sends, a scheduler tick, a fallback and a drained follow-up that all want to
   start one cannot overlap, also while the old process is shutting down. *)
SingleSession ==
    /\ \A t \in Task : pc[t] \in Session <=> active = t
    /\ \A t \in Task : pc[t] \in Launching => active = None

(* Where a message is: queued rows and tasks that hold it. *)
QueuedAt(m) == {i \in 1..Len(queue) : queue[i].m = m}
HeldBy(m) == {t \in Task : job[t].msg # None /\ job[t].msg.m = m}

(* A message is never in two places at once: pop_next hands a row to one run
   only, and an interrupted turn's message is put back once. *)
NoDuplicateMessage ==
    \A m \in Msg : Cardinality(QueuedAt(m)) + Cardinality(HeldBy(m)) <= 1

(* However often a message is queued, interrupted and delivered again, the
   transcript shows it once. *)
EchoedOnce == \A m \in Msg : echoes[m] <= 1

(* A turn of a budgeted thread only starts while budget is left, whatever
   happened between the check and the start. *)
TurnsStartWithinBudget ==
    [][\A t \in Task : CreateTurn(t) /\ Budgeted(thread') => spent < thread'.limit]_vars

(* A percentage budget never runs on another provider, whichever agent a
   fallback, a resume or the user names: quota percentages do not compare. *)
PercentageStaysOnCodex ==
    thread.kind = "weekly" => \A t \in Task : pc[t] \in Session => job[t].agt = Codex

(* Every call gets through the launch lock: no path through a launch, the
   recursive one of a known limit included, keeps the lock forever. *)
LaunchesGetThrough == \A t \in Task : pc[t] = "lock" ~> pc[t] # "lock"

(* A thread that waits for a provider's limit does not wait forever: the reset
   passes and the scheduler continues it, or the user does. *)
LimitWaitEnds == status = "waiting_for_limit" ~> status # "waiting_for_limit"

(* Rows and locals are well typed, and a message is in one place and shown
   once: the queue, the turns that hold it and the transcript agree however
   often it is interrupted, requeued and delivered again. *)
MessagesSound == TypeOK /\ NoDuplicateMessage /\ EchoedOnce
==============================================================================
