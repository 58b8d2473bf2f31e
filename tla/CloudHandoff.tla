---------------------------- MODULE CloudHandoff ----------------------------
(***************************************************************************)
(* Cloud continuation of threads (src/crates/am-core/src/cloud_handoff.rs, *)
(* src/crates/am-agents/src/cloud, src/crates/am-db/src/repos/cloud_run.rs *)
(* and the power monitors of src/crates/am-daemon/src/power.rs).           *)
(*                                                                         *)
(* A thread is handed to a provider's cloud by a manual request or by a    *)
(* power event, monitored by the scheduler, and reclaimed into the local   *)
(* worktree by the monitor or by the user.  Requesters run concurrently    *)
(* with each other, with local sessions, with messages of the user and     *)
(* crashes.  Git is abstracted to commits of the cloud the worktree does    *)
(* not have and commits of the worktree the pushed branch does not have.   *)
(***************************************************************************)
EXTENDS Naturals, FiniteSets, Sequences

CONSTANTS
    Threads,
    Agents,      \* providers with a cloud offering
    Providers,   \* the same in the order the code lists them
    StartAgents, \* agents the threads run with at first
    Codex,       \* the provider whose tasks can be polled and applied
    Endings,     \* ways a provider ends a task
    Policies,    \* cloud policies the user may have set
    MaxRuns,     \* bound: cloud runs ever recorded
    MaxEvents    \* bound: requests, power events, messages and crashes together

ASSUME AgentAssumption ==
    /\ Codex \in Agents /\ StartAgents \subseteq Agents
    /\ Providers \in Seq(Agents) /\ {Providers[i] : i \in DOMAIN Providers} = Agents
ASSUME BoundAssumption == MaxRuns \in Nat /\ MaxEvents \in Nat
ASSUME EndingsAssumption == Endings \subseteq {"completed", "failed", "expired"}
ASSUME PolicyAssumption ==
    Policies \subseteq [enabled : BOOLEAN, sleep : BOOLEAN, shutdown : BOOLEAN, cross : BOOLEAN,
                        approval : BOOLEAN, cap : Nat, priority : Seq(Agents)]

None == "none"
Runs == 1..MaxRuns
PowerRequesters == {"native", "client"}   \* the power monitor and prepare_shutdown
Requesters == {"manual"} \cup PowerRequesters
Reclaimers == {"monitor", "user"}

(* What the power monitors report to the core (logind's PrepareForSleep and
   PrepareForShutdown), and what a client that tears the daemon down does.   *)
PowerSignals(h) == IF h = "native" THEN {"sleep", "shutdown"} ELSE {"shutdown"}

(* What the clients' availability probes find in the way of a launch; the
   probe of the Codex cloud itself comes last.                               *)
CodexBlockers == {"not_installed", "signed_out", "no_environment", "unreachable"}
ClaudeBlockers == {"not_installed", "signed_out", "other_auth", "unparsed"}
Blockers(ag) == IF ag = Codex THEN CodexBlockers ELSE ClaudeBlockers
Probes == {b \in [Agents -> {None} \cup CodexBlockers \cup ClaudeBlockers] :
             \A ag \in Agents : b[ag] \in {None} \cup Blockers(ag)}

(* CloudRunStatus: the first three are the ones list_active selects. *)
ActiveStatus == {"provisioning", "running", "stalled"}
ClosedStatus == {"reclaimed", "failed", "expired"}

(* CloudPollStatus *)
PollStatus == {"provisioning", "running", "completed", "failed", "expired", "unknown"}

VARIABLES
    policy,    \* the stored cloud policy
    limited,   \* agents the database has as usage-limited
    status,    \* thread -> its stored status
    agent,     \* thread -> its active agent
    local,     \* thread -> its local session and the launch of one
    queue,     \* thread -> queued messages
    sending,   \* thread -> messages accepted for the queue and not inserted yet
    run,       \* cloud run -> its row, with what the provider has of it
    ahead,     \* cloud runs whose pushed commits the worktree does not have
    diverged,  \* threads whose worktree has commits the pushed branch lacks
    lock,      \* holder of cloud_handoff_lock
    hand,      \* requester -> its handoff
    mon,       \* the monitor tick
    rec,       \* reclaimer -> its reclaim
    events

db == <<policy, limited, status, agent, queue, run>>
git == <<ahead, diverged>>
procs == <<lock, hand, mon, rec>>
vars == <<db, local, sending, git, procs, events>>

NoHand == [pc |-> "idle", t |-> None, trigger |-> "manual", ag |-> None, left |-> <<>>,
           ready |-> {}, count |-> 0, ses |-> FALSE, r |-> 0]
NoMon == [pc |-> "idle", left |-> {}, r |-> 0, copy |-> None, progress |-> FALSE, poll |-> "unknown"]
NoRec == [pc |-> "idle", r |-> 0, why |-> None, conflict |-> FALSE, review |-> FALSE]
NoRun == [t |-> None, ag |-> None, st |-> None, prov |-> None,
          unseen |-> FALSE, why |-> None, closed |-> FALSE]

(* cloud_run::active_for_thread and list_active *)
Active(r) == run[r].st \in ActiveStatus
ActiveRuns == {r \in Runs : Active(r)}
ActiveFor(t) == {r \in ActiveRuns : run[r].t = t}

(* SessionManager::is_active: a launch in progress is not registered yet. *)
IsActive(t) == local[t] \in {"live", "stopping"}

(* normalize_cloud_policy: the cap is clamped to 1..64, and the priority list
   names every provider once.                                                *)
MaxCap == 64
Clamp(n) == IF n < 1 THEN 1 ELSE IF n > MaxCap THEN MaxCap ELSE n
Dedup(seq) ==
    LET priority[n \in 0..Len(seq)] ==
          IF n = 0 THEN <<>>
          ELSE IF \E i \in 1..(n - 1) : seq[i] = seq[n] THEN priority[n - 1]
          ELSE Append(priority[n - 1], seq[n])
    IN  priority[Len(seq)]
Normalize(p) == [p EXCEPT !.cap = Clamp(@), !.priority = Dedup(@ \o Providers)]
Stored == {Normalize(p) : p \in Policies}

Init ==
    /\ policy \in Stored
    /\ limited = {}
    /\ status = [t \in Threads |-> "running"]
    /\ agent \in [Threads -> StartAgents]
    /\ local = [t \in Threads |-> "live"]
    /\ queue = [t \in Threads |-> 0]
    /\ sending = [t \in Threads |-> 0]
    /\ run = [r \in Runs |-> NoRun]
    /\ ahead = {}
    /\ diverged = {}
    /\ lock = None
    /\ hand = [h \in Requesters |-> NoHand]
    /\ mon = NoMon
    /\ rec = [p \in Reclaimers |-> NoRec]
    /\ events = 0

-----------------------------------------------------------------------------
(* Choosing a provider *)

(* Where the priority list has its first ready agent. *)
Preferred(ready) ==
    {i \in DOMAIN policy.priority : /\ policy.priority[i] \in ready
                                    /\ \A j \in 1..(i - 1) : policy.priority[j] \notin ready}

(* cloud_decision: the agent to launch, or None for Pause and Disabled.  A
   ready agent the list does not name comes last.                            *)
CloudDecision(trigger, ag, ready, active) ==
    IF \/ ~policy.enabled
       \/ trigger = "sleep" /\ ~policy.sleep
       \/ trigger = "shutdown" /\ ~policy.shutdown
       \/ active >= policy.cap
    THEN None
    ELSE IF ag \in ready THEN ag
    ELSE IF ~policy.cross \/ ready = {} THEN None
    ELSE IF Preferred(ready) = {} THEN CHOOSE other \in ready : TRUE
    ELSE policy.priority[CHOOSE i \in Preferred(ready) : TRUE]

-----------------------------------------------------------------------------
(* The handoff of one thread: start_thread_cloud_handoff.  A requester's ses is
   true while the session it cancelled has not ended.                        *)

(* Whatever fails, the lock guard is dropped; a power event goes on with the
   next thread, a manual request ends.                                       *)
Next1(h) == [hand EXCEPT ![h] = IF h \in PowerRequesters /\ @.left # <<>> THEN [@ EXCEPT !.pc = "choose"]
                                ELSE NoHand]
Release(h) ==
    /\ lock' = IF lock = h THEN None ELSE lock
    /\ hand' = Next1(h)

Goto(h, pc) == hand' = [hand EXCEPT ![h].pc = pc]

(* continue_on_cloud of the UI *)
RequestHandoff(t, ag) ==
    /\ hand["manual"].pc = "idle" /\ events < MaxEvents
    /\ hand' = [hand EXCEPT !["manual"] = [NoHand EXCEPT !.pc = "lock", !.t = t, !.ag = ag]]
    /\ events' = events + 1
    /\ UNCHANGED <<db, local, sending, git, lock, mon, rec>>

(* cloud_availability: the clients without a blocker, less the agents known
   as limited.                                                               *)
CloudAvailability(found) == {ag \in Agents : found[ag] = None} \ limited

(* handle_power_event, called by the power monitor and by prepare_shutdown. *)
PowerEvent(h, trigger, order, found) ==
    /\ hand[h].pc = "idle" /\ events < MaxEvents
    /\ policy.enabled /\ (trigger = "sleep" => policy.sleep) /\ (trigger = "shutdown" => policy.shutdown)
    /\ {order[i] : i \in DOMAIN order} = {t \in Threads : status[t] = "running"}
    /\ Len(order) = Cardinality({t \in Threads : status[t] = "running"})
    /\ order # <<>>
    /\ hand' = [hand EXCEPT ![h] =
                  [NoHand EXCEPT !.pc = "choose", !.trigger = trigger, !.left = order,
                                 !.ready = CloudAvailability(found), !.count = Cardinality(ActiveRuns)]]
    /\ events' = events + 1
    /\ UNCHANGED <<db, local, sending, git, lock, mon, rec>>

(* The loop of handle_power_event, with the availability and the number of
   active runs read before it.                                               *)
ChooseThread(h) ==
    LET p == hand[h]
        t == Head(p.left)
        target == CloudDecision(p.trigger, agent[t], p.ready, p.count)
        rest == [p EXCEPT !.left = Tail(@), !.count = IF Tail(p.left) = <<>> THEN 0 ELSE @ + 1]
    IN  /\ p.pc = "choose"
        /\ hand' = [hand EXCEPT ![h] =
              IF target # None
              THEN [rest EXCEPT !.pc = "lock", !.t = t, !.ag = target,
                                !.ready = IF rest.left = <<>> THEN {} ELSE @]
              ELSE IF rest.left # <<>> THEN rest ELSE NoHand]
        /\ UNCHANGED <<db, local, sending, git, lock, mon, rec, events>>

(* Mutant: each requester has a gate of its own. *)
CheckUnlocked(h) ==
    LET p == hand[h] IN
    /\ p.pc = "lock"
    /\ \/ /\ policy.enabled /\ ActiveFor(p.t) = {} /\ Cardinality(ActiveRuns) < policy.cap
          /\ p.ag \notin limited
          /\ Goto(h, IF policy.approval /\ p.trigger = "manual" THEN "approval" ELSE "stop")
          /\ UNCHANGED lock
       \/ Release(h)
    /\ UNCHANGED <<db, local, sending, git, mon, rec, events>>

(* The gate and the checks behind it: policy, an active run of the thread, the
   cap, the provider's readiness, its usage limit, the worktree, the policy
   preflight.  Readiness, worktree and preflight may refuse at any time.     *)
Check(h) ==
    LET p == hand[h] IN
    /\ p.pc = "lock" /\ lock = None
    /\ \/ /\ policy.enabled /\ ActiveFor(p.t) = {} /\ Cardinality(ActiveRuns) < policy.cap
          /\ p.ag \notin limited
          /\ lock' = h
          /\ Goto(h, IF policy.approval /\ p.trigger = "manual" THEN "approval" ELSE "stop")
       \/ Release(h)
    /\ UNCHANGED <<db, local, sending, git, mon, rec, events>>

Approval(h) ==
    /\ hand[h].pc = "approval"
    /\ \/ Goto(h, "stop") /\ UNCHANGED lock
       \/ Release(h)
    /\ UNCHANGED <<db, local, sending, git, mon, rec, events>>

(* The local session is cancelled; the worktree must be quiescent. *)
StopLocal(h) ==
    LET t == hand[h].t IN
    /\ hand[h].pc = "stop"
    /\ local' = [local EXCEPT ![t] = IF @ = "live" THEN "stopping" ELSE @]
    /\ hand' = [hand EXCEPT ![h].pc = IF IsActive(t) THEN "settle" ELSE "push",
                            ![h].ses = IsActive(t)]
    /\ UNCHANGED <<db, sending, git, lock, mon, rec, events>>

(* Mutant: the checkpoint does not wait for the session to end. *)
SettleNow(h) ==
    /\ hand[h].pc = "settle"
    /\ Goto(h, "push")
    /\ UNCHANGED <<db, local, sending, git, lock, mon, rec, events>>

(* wait_until_inactive: ended, or the time to settle ran out. *)
Settle(h) ==
    /\ hand[h].pc = "settle"
    /\ IF IsActive(hand[h].t) THEN Release(h) ELSE Goto(h, "push") /\ UNCHANGED lock
    /\ UNCHANGED <<db, local, sending, git, mon, rec, events>>

(* commit_all leaves the worktree ahead of its branch, or finds it clean;
   push_branch, without force, is refused when the cloud has pushed commits. *)
CommitAll(t) == {diverged, diverged \cup {t}}
MayPush(t) == \A r \in ahead : run[r].t # t
PushBranch(t) == diverged' = diverged \ {t}

(* Context files, the commit and the push.  What fails after the commit
   leaves it in the worktree.                                                *)
Checkpoint(h) ==
    LET t == hand[h].t IN
    /\ hand[h].pc = "push"
    /\ \/ MayPush(t) /\ PushBranch(t) /\ Goto(h, "launch") /\ UNCHANGED lock
       \/ Release(h) /\ diverged' \in CommitAll(t)
    /\ UNCHANGED <<db, local, sending, ahead, mon, rec, events>>

Unused == {r \in Runs : run[r].prov = None}
NewRun == CHOOSE r \in Unused : \A q \in Unused : r <= q

(* CloudTaskClient::launch: the task exists at the provider from here on, the
   row comes with the next step.                                             *)
Launch(h) ==
    /\ hand[h].pc = "launch" /\ Unused # {}
    /\ run' = [run EXCEPT ![NewRun] = [NoRun EXCEPT !.t = hand[h].t, !.ag = hand[h].ag, !.prov = "working"]]
    /\ hand' = [hand EXCEPT ![h].pc = "record", ![h].r = NewRun]
    /\ UNCHANGED <<policy, limited, status, agent, queue, local, sending, git, lock, mon, rec, events>>

(* launch_failure: a usage limit in the output marks the agent limited. *)
LaunchFails(h) ==
    /\ hand[h].pc = "launch"
    /\ limited' \in {limited, limited \cup {hand[h].ag}}
    /\ Release(h)
    /\ UNCHANGED <<policy, status, agent, queue, run, local, sending, git, mon, rec, events>>

(* claude --cloud is stopped, or ends, before a session id is seen: the session
   may exist at the provider and the launch is an error.                     *)
LaunchUnseen(h) ==
    /\ hand[h].pc = "launch" /\ Unused # {} /\ hand[h].ag # Codex
    /\ run' = [run EXCEPT ![NewRun] = [NoRun EXCEPT !.t = hand[h].t, !.ag = hand[h].ag, !.prov = "working"]]
    /\ Release(h)
    /\ UNCHANGED <<policy, limited, status, agent, queue, local, sending, git, mon, rec, events>>

(* cloud_run::create *)
Record(h) ==
    /\ hand[h].pc = "record"
    /\ run' = [run EXCEPT ![hand[h].r].st = "provisioning"]
    /\ Goto(h, "save")
    /\ UNCHANGED <<policy, limited, status, agent, queue, local, sending, git, lock, mon, rec, events>>

(* The thread is saved as running in the cloud and the gate opens. *)
SaveThread(h) ==
    /\ hand[h].pc = "save"
    /\ status' = [status EXCEPT ![hand[h].t] = "running_in_cloud"]
    /\ agent' = [agent EXCEPT ![hand[h].t] = hand[h].ag]
    /\ Release(h)
    /\ UNCHANGED <<policy, limited, queue, run, local, sending, git, mon, rec, events>>

-----------------------------------------------------------------------------
(* The provider *)

CloudPushes(r) ==
    /\ run[r].prov = "working"
    /\ ahead' = ahead \cup {r}
    /\ run' = [run EXCEPT ![r].unseen = TRUE]
    /\ UNCHANGED <<policy, limited, status, agent, queue, local, sending, diverged, procs, events>>

CloudEnds(r, how) ==
    /\ run[r].prov = "working"
    /\ run' = [run EXCEPT ![r].prov = how]
    /\ UNCHANGED <<policy, limited, status, agent, queue, local, sending, git, procs, events>>

(* map_status *)
MapStatus(prov) == IF prov = "working" THEN {"running", "provisioning"} ELSE {prov}

(* poll: Claude has no status surface; Codex may not answer, or its launch may
   have printed no task id.                                                  *)
Poll(r) == {"unknown"} \cup (IF run[r].ag = Codex THEN MapStatus(run[r].prov) ELSE {})

-----------------------------------------------------------------------------
(* The monitor: run_cloud_monitor_tick, monitor_cloud_run *)

NextRun(m, left) ==
    IF left = {} THEN NoMon
    ELSE LET r == CHOOSE x \in left : \A y \in left : x <= y
         IN  [NoMon EXCEPT !.pc = "observe", !.left = left, !.r = r, !.copy = m[r]]

MonitorTick ==
    /\ mon.pc = "idle" /\ ActiveRuns # {}
    /\ mon' = NextRun([r \in Runs |-> run[r].st], ActiveRuns)
    /\ UNCHANGED <<db, local, sending, git, lock, hand, rec, events>>

Skip == mon' = NextRun([r \in Runs |-> run[r].st], mon.left \ {mon.r})

(* remote_branch_sha: whether ls-remote shows commits not seen yet; it may fail. *)
RemoteMoved(r) == IF run[r].unseen THEN BOOLEAN ELSE {FALSE}

RecordActivity(r, seen) == run' = [run EXCEPT ![r].unseen = @ /\ ~seen]
SetStatus(r, st) == run' = [run EXCEPT ![r].st = st]

(* The remote branch is looked at, then the provider asked. *)
Observe(seen, answer) ==
    /\ mon.pc = "observe"
    /\ seen \in RemoteMoved(mon.r)
    /\ answer \in Poll(mon.r)
    /\ RecordActivity(mon.r, seen)
    /\ mon' = [mon EXCEPT !.pc = "act", !.progress = seen, !.poll = answer]
    /\ UNCHANGED <<policy, limited, status, agent, queue, local, sending, git, lock, hand, rec, events>>

(* A terminal answer: reclaim with that reason. *)
MonitorReclaims ==
    /\ mon.pc = "act" /\ mon.poll \in {"completed", "failed", "expired"}
    /\ rec' = [rec EXCEPT !["monitor"] = [NoRec EXCEPT !.pc = "fetch", !.r = mon.r, !.why = mon.poll]]
    /\ mon' = [mon EXCEPT !.pc = "reclaim"]
    /\ UNCHANGED <<db, local, sending, git, lock, hand, events>>

(* Running is written over a row the copy has as provisioning or stalled, and a
   running task counts as a sign of life.                                    *)
MonitorRunning ==
    /\ mon.pc = "act" /\ mon.poll = "running"
    /\ SetStatus(mon.r, IF mon.copy # "running" THEN "running" ELSE run[mon.r].st)
    /\ Skip
    /\ UNCHANGED <<policy, limited, status, agent, queue, local, sending, git, lock, hand, rec, events>>

(* A new commit, or a stall window that is not over yet. *)
MonitorWaits ==
    /\ mon.pc = "act" /\ mon.poll \in {"unknown", "provisioning"}
    /\ Skip
    /\ UNCHANGED <<db, local, sending, git, lock, hand, rec, events>>

(* Mutant: an unanswered poll counts as a sign of life. *)
MonitorPatient ==
    /\ mon.pc = "act" /\ mon.poll \in {"unknown", "provisioning"}
    /\ ~mon.progress
    /\ Skip
    /\ UNCHANGED <<db, local, sending, git, lock, hand, rec, events>>

(* Nothing observed within the window: the run is stalled and reclaimed. *)
MonitorStalls ==
    /\ mon.pc = "act" /\ mon.poll \in {"unknown", "provisioning"}
    /\ ~mon.progress
    /\ SetStatus(mon.r, "stalled")
    /\ rec' = [rec EXCEPT !["monitor"] = [NoRec EXCEPT !.pc = "fetch", !.r = mon.r, !.why = "stalled"]]
    /\ mon' = [mon EXCEPT !.pc = "reclaim"]
    /\ UNCHANGED <<policy, limited, status, agent, queue, local, sending, git, lock, hand, events>>

-----------------------------------------------------------------------------
(* reclaim_thread_from_cloud *)

RequestReclaim(r) ==
    /\ rec["user"].pc = "idle" /\ Active(r) /\ events < MaxEvents
    /\ rec' = [rec EXCEPT !["user"] = [NoRec EXCEPT !.pc = "fetch", !.r = r, !.why = "manual"]]
    /\ events' = events + 1
    /\ UNCHANGED <<db, local, sending, git, lock, hand, mon>>

(* Mutant: a branch that cannot be fast-forwarded is taken for one without
   new commits.                                                              *)
FetchBlind(p) ==
    LET r == rec[p].r IN
    /\ rec[p].pc = "fetch"
    /\ ahead' = IF run[r].t \in diverged THEN ahead ELSE ahead \ {r}
    /\ rec' = [rec EXCEPT ![p].pc = "close"]
    /\ UNCHANGED <<db, local, sending, diverged, lock, hand, mon, events>>

(* merge --ff-only of what fetch_branch fetched *)
FastForwards(r) == r \in ahead => run[r].t \notin diverged

(* A fetch that fails and a branch that cannot be fast-forwarded both leave
   the cloud's commits on the remote and are reported as a conflict.         *)
Fetch(p) ==
    LET r == rec[p].r IN
    /\ rec[p].pc = "fetch"
    /\ \/ /\ FastForwards(r)
          /\ ahead' = ahead \ {r}
          /\ rec' = [rec EXCEPT ![p].pc = "close"]
       \/ /\ ahead' = ahead
          /\ rec' = [rec EXCEPT ![p].pc = "close", ![p].conflict = TRUE]
    /\ UNCHANGED <<db, local, sending, diverged, lock, hand, mon, events>>

(* close_status *)
CloseStatus(why, conflict) ==
    IF conflict \/ why = "failed" THEN "failed"
    ELSE IF why = "expired" THEN "expired" ELSE "reclaimed"

(* cloud_run::close, and the queue that decides between Review and Queued ... *)
Close(p) ==
    LET r == rec[p].r IN
    /\ rec[p].pc = "close"
    /\ run' = [run EXCEPT ![r].st = CloseStatus(rec[p].why, rec[p].conflict),
                          ![r].why = rec[p].why, ![r].closed = TRUE]
    /\ rec' = [rec EXCEPT ![p].pc = "finish",
                          ![p].review = \/ rec[p].conflict
                                        \/ rec[p].why = "completed" /\ queue[run[r].t] = 0]
    /\ UNCHANGED <<policy, limited, status, agent, queue, local, sending, git, lock, hand, mon, events>>

(* ... and the thread is saved; the monitor goes on with its list. *)
FinishReclaim(p) ==
    /\ rec[p].pc = "finish"
    /\ status' = [status EXCEPT ![run[rec[p].r].t] = IF rec[p].review THEN "review" ELSE "queued"]
    /\ rec' = [rec EXCEPT ![p] = NoRec]
    /\ IF p = "monitor" THEN Skip ELSE UNCHANGED mon
    /\ UNCHANGED <<policy, limited, agent, queue, run, local, sending, git, lock, hand, events>>

-----------------------------------------------------------------------------
(* Local sessions and messages *)

(* run_agent_thread_inner refuses a thread with a session or a cloud run. *)
MayStart(t) == local[t] = "off" /\ ActiveFor(t) = {}

SendMessage(t) ==
    /\ events < MaxEvents
    /\ events' = events + 1
    /\ IF IsActive(t) \/ ActiveFor(t) # {}
       THEN sending' = [sending EXCEPT ![t] = @ + 1] /\ UNCHANGED local
       ELSE /\ local[t] = "off"
            /\ local' = [local EXCEPT ![t] = "starting"]
            /\ UNCHANGED sending
    /\ UNCHANGED <<db, git, procs>>

Enqueue(t) ==
    /\ sending[t] > 0
    /\ sending' = [sending EXCEPT ![t] = @ - 1]
    /\ queue' = [queue EXCEPT ![t] = @ + 1]
    /\ UNCHANGED <<policy, limited, status, agent, run, local, git, procs, events>>

(* The scheduler continues a queued thread. *)
ContinueQueued(t) ==
    /\ status[t] = "queued" /\ MayStart(t)
    /\ local' = [local EXCEPT ![t] = "starting"]
    /\ UNCHANGED <<db, sending, git, procs, events>>

(* The session is registered, with the head of the queue as its turn. *)
SessionStarts(t) ==
    /\ local[t] = "starting"
    /\ local' = [local EXCEPT ![t] = "live"]
    /\ status' = [status EXCEPT ![t] = "running"]
    /\ queue' = [queue EXCEPT ![t] = IF @ > 0 THEN @ - 1 ELSE 0]
    /\ UNCHANGED <<policy, limited, agent, run, sending, git, procs, events>>

(* A cancelled session leaves its thread paused, a finished one in review or,
   with messages queued, on its way to the next turn.                        *)
SessionEnds(t) ==
    /\ IsActive(t)
    /\ local' = [local EXCEPT ![t] = "off"]
    /\ status' = [status EXCEPT ![t] = IF local[t] = "stopping" THEN "paused"
                                       ELSE IF queue[t] > 0 THEN "queued" ELSE "review"]
    /\ hand' = [h \in Requesters |-> IF hand[h].t = t THEN [hand[h] EXCEPT !.ses = FALSE]
                                     ELSE hand[h]]
    /\ UNCHANGED <<policy, limited, agent, queue, run, sending, git, lock, mon, rec, events>>

(* The agent of a local session commits, or run_cloud_checkpoints commits. *)
LocalCommit(t) ==
    /\ local[t] = "live" /\ t \notin diverged
    /\ diverged' = diverged \cup {t}
    /\ UNCHANGED <<db, local, sending, ahead, procs, events>>

(* run_cloud_checkpoints pushes the branch of a running thread; a branch the
   cloud has pushed to refuses it.                                           *)
CloudCheckpoint(t) ==
    /\ policy.enabled /\ status[t] = "running" /\ t \in diverged
    /\ MayPush(t) /\ PushBranch(t)
    /\ UNCHANGED <<db, local, sending, ahead, procs, events>>

(* The daemon dies and a new one reconciles: running threads are queued, rows
   of cloud runs are kept.                                                   *)
Crash ==
    /\ events < MaxEvents
    /\ events' = events + 1
    /\ status' = [t \in Threads |-> IF status[t] = "running" THEN "queued" ELSE status[t]]
    /\ local' = [t \in Threads |-> "off"]
    /\ sending' = [t \in Threads |-> 0]
    /\ lock' = None
    /\ hand' = [h \in Requesters |-> NoHand]
    /\ mon' = NoMon
    /\ rec' = [p \in Reclaimers |-> NoRec]
    /\ UNCHANGED <<policy, limited, agent, queue, run, git>>

-----------------------------------------------------------------------------
HandoffStep(h) ==
    \/ Check(h) \/ Approval(h) \/ StopLocal(h) \/ Settle(h) \/ Checkpoint(h)
    \/ Launch(h) \/ LaunchFails(h) \/ LaunchUnseen(h) \/ Record(h) \/ SaveThread(h)

MonitorStep ==
    \/ \E seen \in BOOLEAN, answer \in PollStatus : Observe(seen, answer)
    \/ MonitorReclaims \/ MonitorRunning \/ MonitorWaits \/ MonitorStalls

ReclaimStep(p) == Fetch(p) \/ Close(p) \/ FinishReclaim(p)

Orders == UNION {[1..n -> Threads] : n \in 1..Cardinality(Threads)}

Next ==
    \/ \E t \in Threads, ag \in Agents : RequestHandoff(t, ag)
    \/ \E h \in PowerRequesters, order \in Orders, found \in Probes :
          \E trigger \in PowerSignals(h) : PowerEvent(h, trigger, order, found)
    \/ \E h \in PowerRequesters : ChooseThread(h)
    \/ \E h \in Requesters : HandoffStep(h)
    \/ \E r \in Runs : CloudPushes(r) \/ RequestReclaim(r)
    \/ \E r \in Runs, how \in Endings : CloudEnds(r, how)
    \/ MonitorTick \/ MonitorStep
    \/ \E p \in Reclaimers : ReclaimStep(p)
    \/ \E t \in Threads : \/ SendMessage(t) \/ Enqueue(t) \/ ContinueQueued(t) \/ SessionStarts(t)
                          \/ SessionEnds(t) \/ LocalCommit(t) \/ CloudCheckpoint(t)
    \/ Crash

Spec == Init /\ [][Next]_vars

(* The scheduler ticks, its monitor and the reclaims make progress, and a stall
   window ends.  Nothing is assumed of the provider or the user.             *)
Fairness ==
    /\ WF_vars(MonitorTick) /\ WF_vars(MonitorStep)
    /\ \A p \in Reclaimers : WF_vars(ReclaimStep(p))
    /\ SF_vars(MonitorStalls)

LiveSpec == Spec /\ Fairness

-----------------------------------------------------------------------------
(* Properties *)

(* The rows, the requesters and the reclaimers have the shapes the code gives them. *)
TypeOK ==
    /\ policy \in Stored /\ limited \subseteq Agents
    /\ status \in [Threads -> {"running", "paused", "queued", "review", "running_in_cloud"}]
    /\ agent \in [Threads -> Agents]
    /\ \A t \in Threads : /\ local[t] \in {"off", "starting", "live", "stopping"}
                          /\ queue[t] \in 0..MaxEvents /\ sending[t] \in 0..MaxEvents
    /\ \A r \in Runs : /\ run[r].st \in {None} \cup ActiveStatus \cup ClosedStatus
                       /\ run[r].t \in Threads \cup {None} /\ run[r].ag \in Agents \cup {None}
    /\ ahead \subseteq Runs /\ diverged \subseteq Threads
    /\ lock \in Requesters \cup {None}
    /\ \A h \in Requesters : hand[h].pc \in {"idle", "choose", "lock", "approval", "stop", "settle",
                                             "push", "launch", "record", "save"}
    /\ mon.pc \in {"idle", "observe", "act", "reclaim"}
    /\ \A p \in Reclaimers : rec[p].pc \in {"idle", "fetch", "close", "finish"}

(* The runs that were never closed, with those launched at the provider and not
   recorded yet, stay within the policy's cap and a thread has at most one of
   them, however a sleep, a shutdown and a manual request interleave
   (cloud_handoff_lock).                                                     *)
CapKept ==
    LET open == {r \in Runs : \/ Active(r) /\ ~run[r].closed
                              \/ \E h \in Requesters : hand[h].pc = "record" /\ hand[h].r = r}
    IN  /\ Cardinality(open) <= policy.cap
        /\ \A r, q \in open : run[r].t = run[q].t => r = q

(* The session that ran when the handoff began is over before the worktree is
   committed and pushed ("so the worktree is quiescent").                    *)
Quiescent ==
    \A h \in Requesters : hand[h].pc \in {"push", "launch", "record", "save"} => ~hand[h].ses

(* A run closed as reclaimed after the provider completed it left nothing on
   the remote branch that the worktree does not have: what could not be
   merged is a failed run and a thread in review.                            *)
CompletedWorkArrives ==
    \A r \in Runs : run[r].st = "reclaimed" /\ run[r].why = "completed" => r \notin ahead

(* A run whose provider ended it, or shows no sign of life, does not stay
   active for ever: it is reclaimed however often the monitor misses it.     *)
CloudLegEnds ==
    \A r \in Runs : (Active(r) /\ run[r].prov # "working") ~> ~Active(r)

(* A handoff is sound: within the cap, once per thread, and from a quiescent
   worktree.                                                                 *)
HandoffSound == TypeOK /\ CapKept /\ Quiescent
=============================================================================
