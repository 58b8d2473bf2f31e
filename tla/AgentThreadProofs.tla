-------------------------- MODULE AgentThreadProofs --------------------------
(***************************************************************************)
(* One session per thread, for any number of tasks, agents and messages.   *)
(*                                                                         *)
(* SingleSession is not inductive by itself: StartSession registers its    *)
(* task without looking at the registry.  What makes it safe is the launch *)
(* lock, so the inductive invariant adds who owns the lock.                *)
(***************************************************************************)
EXTENDS AgentThread, FiniteSetTheorems, TLAPS

(* The control state has its type. *)
ControlType ==
    /\ pc \in [Task -> Pc]
    /\ active \in Task \cup {None}
    /\ launch \in Task \cup {None}

(* A task that is launching owns the launch lock. *)
LaunchOwned == \A t \in Task : pc[t] \in Launching => launch = t

LaunchInv == ControlType /\ LaunchOwned /\ SingleSession

USE ConstantsAssumption

(* Every action of a task: its program counter, the lock and the registry
   change together so that LaunchInv is kept. *)
LEMMA StepKeepsLaunchInv ==
    ASSUME NEW t \in Task, LaunchInv, Step(t)
    PROVE  LaunchInv'
<1> USE DEF LaunchInv, ControlType, LaunchOwned, SingleSession, Launching, Session, Pc
<1> USE DEF Goto, Leave, Enter, Unlock, RunError
<1>1. CASE EnqueueMessage(t)
  BY <1>1 DEF EnqueueMessage
<1>2. CASE AlreadyRunning(t)
  BY <1>2 DEF AlreadyRunning
<1>3. CASE NotRunning(t)
  BY <1>3 DEF NotRunning
<1>4. CASE Refused(t) \/ PercentageLimited(t) \/ BudgetSpent(t)
  BY <1>4 DEF Refused, PercentageLimited, BudgetSpent
<1>5. CASE KnownLimited(t)
  BY <1>5 DEF KnownLimited
<1>6. CASE Preflight(t)
  BY <1>6 DEF Preflight
<1>7. CASE Admitted(t) \/ AtCapacity(t) \/ CreateTurn(t)
  BY <1>7 DEF Admitted, AtCapacity, CreateTurn
<1>8. CASE ThreadGone(t) \/ StartFailed(t)
  BY <1>8 DEF ThreadGone, StartFailed
<1>9. CASE StartSession(t)
  BY <1>9 DEF StartSession
<1>10. CASE LimitedSwitch(t) \/ LimitedWait(t)
  BY <1>10 DEF LimitedSwitch, LimitedWait
<1>11. CASE RemoveSession(t)
  BY <1>11 DEF RemoveSession
<1>12. CASE RequeueInsert(t) \/ RequeueOrder(t) \/ TailStops(t)
  BY <1>12 DEF RequeueInsert, RequeueOrder, TailStops
<1>13. CASE FallbackSwitch(t) \/ FallbackWait(t) \/ DrainQueue(t)
  BY <1>13 DEF FallbackSwitch, FallbackWait, TailLimited, DrainQueue
<1>14. CASE \E b \in BOOLEAN : NetworkLost(t, b) \/ SwitchBackReady(t, b)
  BY <1>14 DEF NetworkLost, ResumeAfterNetwork, SwitchBackReady
<1>15. CASE SkipThread(t) \/ ContinueQueued(t) \/ ContinueAfterNetwork(t)
  BY <1>15 DEF SkipThread, ContinueQueued, ContinueAfterNetwork, ResumeAfterNetwork
<1>16. CASE \E a \in Agent : ContinueAfterReset(t, a)
  BY <1>16 DEF ContinueAfterReset
<1>17. CASE DeleteWait(t) \/ DeleteRows(t) \/ PauseAfterError(t)
  BY <1>17 DEF DeleteWait, DeleteRows, PauseAfterError
<1> QED
  BY <1>1, <1>2, <1>3, <1>4, <1>5, <1>6, <1>7, <1>8, <1>9, <1>10, <1>11, <1>12,
     <1>13, <1>14, <1>15, <1>16, <1>17 DEF Step

(* The provider's events do not touch the registry. *)
LEMMA ProviderKeepsLaunchInv ==
    ASSUME NEW t \in Task, LaunchInv, Provider(t)
    PROVE  LaunchInv'
<1> USE DEF LaunchInv, ControlType, LaunchOwned, SingleSession, Launching, Session, Pc
<1>1. CASE \E n \in {0, 1}, final \in BOOLEAN : Usage(t, n, final)
  BY <1>1 DEF Usage, Consumed, UsedUp
<1>2. CASE UsageLimitReached(t) \/ NetworkUnavailable(t)
  BY <1>2 DEF UsageLimitReached, MarkAgentLimited, NetworkUnavailable
<1>3. CASE Ends(t)
  BY <1>3 DEF Ends, SessionEnded, Goto
<1> QED
  BY <1>1, <1>2, <1>3 DEF Provider

(* Neither do requests: they only send a task on its way. *)
LEMMA RequestKeepsLaunchInv ==
    ASSUME LaunchInv, Request \/ Tick
    PROVE  LaunchInv'
<1> USE DEF LaunchInv, ControlType, LaunchOwned, SingleSession, Launching, Session, Pc
<1>1. CASE \E t \in Task, m \in Msg, a \in Agent : SendMessage(t, m, a)
  BY <1>1 DEF SendMessage, Goto, Enter
<1>2. CASE \E t \in Task, a \in Agent : RunThread(t, a)
  BY <1>2 DEF RunThread, Goto, Enter
<1>3. CASE \E t \in Task : DeleteThread(t)
  BY <1>3 DEF DeleteThread, Goto
<1>4. CASE (\E n \in 1..MaxLimit : UpdateBudget(n)) \/ StopThread
  BY <1>4 DEF UpdateBudget, ValidateChange, StopThread, memory
<1>5. CASE Tick
  BY <1>5 DEF Tick, ListThread, Goto
<1> QED
  BY <1>1, <1>2, <1>3, <1>4, <1>5 DEF Request

(* LaunchInv is inductive. *)
LEMMA LaunchInvHolds == Spec => []LaunchInv
<1>1. Init => LaunchInv
  BY DEF Init, LaunchInv, ControlType, LaunchOwned, SingleSession, Launching, Session, Pc
<1>2. LaunchInv /\ [Next]_vars => LaunchInv'
  <2> SUFFICES ASSUME LaunchInv, [Next]_vars PROVE LaunchInv'
    OBVIOUS
  <2>1. CASE Request \/ Tick
    BY <2>1, RequestKeepsLaunchInv
  <2>2. CASE \E t \in Task : Step(t) \/ Provider(t)
    BY <2>2, StepKeepsLaunchInv, ProviderKeepsLaunchInv
  <2>3. CASE \E a \in Agent : LimitLifts(a)
    BY <2>3 DEF LimitLifts, memory, LaunchInv, ControlType, LaunchOwned, SingleSession
  <2>4. CASE Restart
    BY <2>4 DEF Restart, LaunchInv, ControlType, LaunchOwned, SingleSession, Launching,
         Session, Pc
  <2>5. CASE UNCHANGED vars
    BY <2>5 DEF vars, memory, LaunchInv, ControlType, LaunchOwned, SingleSession
  <2> QED
    BY <2>1, <2>2, <2>3, <2>4, <2>5 DEF Next
<1> QED
  BY <1>1, <1>2, PTL DEF Spec

(* Two sends, a scheduler tick, a fallback and a drained follow-up never run
   two provider sessions of one thread, however many tasks race for it: the
   launch lock and the registry check behind it are enough. *)
THEOREM OneSession == Spec => []SingleSession
<1>1. LaunchInv => SingleSession
  BY DEF LaunchInv
<1> QED
  BY <1>1, LaunchInvHolds, PTL

------------------------------------------------------------------------------
(* Budgets.  The check and the start of a turn are far apart; what carries the
   check over is that nothing is spent in between, because spending needs a
   session and a launch excludes one. *)

(* The locals of a task, whatever the messages and queue ids are. *)
JobRec(M, I) ==
    [who : {"user", "spawn"} \cup Scheduled, agt : Agent \cup {None}, msg : M,
     row : Thread \cup {None}, cap : 0..MaxLimit, saw : SUBSET Flag, ids : I]
JobShape == \E M, I : job \in [Task -> JobRec(M, I)]

(* Where a task has an agent, and where it has a row to save back. *)
NoAgent == {"idle", "enqueue", "sched", "sched_error", "delete_wait", "delete_rows"}
Loaded == {"pop", "turn", "wait"}

AgentKnown == \A t \in Task : pc[t] \notin NoAgent => job[t].agt \in Agent
RowKnown == \A t \in Task : pc[t] \in Loaded \cup {"limited"} => job[t].row \in Thread
BudgetLeft ==
    \A t \in Task : pc[t] \in Loaded /\ Budgeted(job[t].row) => spent < job[t].row.limit

BudgetInv == thread \in Thread /\ JobShape /\ AgentKnown /\ RowKnown /\ BudgetLeft

(* A task that moves to p with locals j keeps the invariant if j has what p
   needs, and nothing is spent. *)
LEMMA TaskMoves ==
    ASSUME NEW t \in Task, NEW p \in Pc, NEW M, NEW I, NEW j \in JobRec(M, I),
           BudgetInv, ControlType, job \in [Task -> JobRec(M, I)],
           pc' = [pc EXCEPT ![t] = p], job' = [job EXCEPT ![t] = j],
           thread' \in Thread, spent' = spent,
           p \notin NoAgent => j.agt \in Agent,
           p \in Loaded \cup {"limited"} => j.row \in Thread,
           p \in Loaded /\ Budgeted(j.row) => spent < j.row.limit
    PROVE  BudgetInv'
<1>1. job' \in [Task -> JobRec(M, I)]
  OBVIOUS
<1>2. JobShape'
  BY <1>1 DEF JobShape
<1>3. \A u \in Task : /\ pc'[u] = IF u = t THEN p ELSE pc[u]
                      /\ job'[u] = IF u = t THEN j ELSE job[u]
  BY DEF ControlType
<1>4. AgentKnown' /\ RowKnown' /\ BudgetLeft'
  BY <1>3 DEF BudgetInv, AgentKnown, RowKnown, BudgetLeft
<1> QED
  BY <1>2, <1>4 DEF BudgetInv

(* The shape can be widened to any further message and id list. *)
LEMMA Widen ==
    ASSUME NEW m, NEW s, JobShape
    PROVE  \E M, I : /\ job \in [Task -> JobRec(M, I)]
                     /\ m \in M /\ None \in M /\ s \in I /\ << >> \in I
<1>1. PICK M, I : job \in [Task -> JobRec(M, I)]
  BY DEF JobShape
<1> DEFINE M2 == M \cup {m, None}
           I2 == I \cup {s, << >>}
<1>2. JobRec(M, I) \subseteq JobRec(M2, I2)
  BY DEF JobRec
<1>3. job \in [Task -> JobRec(M2, I2)]
  BY <1>1, <1>2
<1> QED
  BY <1>3

(* A call that is over. *)
LEMMA LeaveKeeps ==
    ASSUME NEW t \in Task, NEW p \in NoAgent, BudgetInv, ControlType,
           pc' = [pc EXCEPT ![t] = p], job' = [job EXCEPT ![t] = NoJob],
           thread' \in Thread, spent' = spent
    PROVE  BudgetInv'
<1>1. PICK M, I : job \in [Task -> JobRec(M, I)] /\ None \in M /\ << >> \in I
  BY Widen DEF BudgetInv
<1>2. NoJob \in JobRec(M, I)
  BY <1>1 DEF NoJob, NewJob, JobRec, Scheduled
<1>3. p \in Pc /\ p \notin Loaded \cup {"limited"}
  BY DEF NoAgent, Pc, Loaded
<1> QED
  BY <1>1, <1>2, <1>3, TaskMoves

(* A run that is entered. *)
LEMMA EnterKeeps ==
    ASSUME NEW t \in Task, NEW by \in {"user", "spawn"} \cup Scheduled, NEW a \in Agent,
           NEW m, BudgetInv, ControlType, Enter(t, by, a, m),
           thread' \in Thread, spent' = spent
    PROVE  BudgetInv'
<1>1. PICK M, I : job \in [Task -> JobRec(M, I)] /\ m \in M /\ << >> \in I
  BY Widen DEF BudgetInv
<1>2. NewJob(by, a, m) \in JobRec(M, I) /\ NewJob(by, a, m).agt = a
  <2>1. {} \in SUBSET Flag /\ 0 \in 0..MaxLimit
    OBVIOUS
  <2> QED
    BY <1>1, <2>1 DEF NewJob, JobRec
<1>3. "lock" \in Pc /\ "lock" \notin Loaded \cup {"limited"}
  BY DEF Pc, Loaded
<1> QED
  BY <1>1, <1>2, <1>3, TaskMoves DEF Enter, Goto

(* A task that only moves on. *)
LEMMA GotoKeeps ==
    ASSUME NEW t \in Task, NEW p \in Pc, BudgetInv, ControlType,
           Goto(t, p), job' = job, thread' \in Thread, spent' = spent,
           p \notin NoAgent => pc[t] \notin NoAgent,
           p \in Loaded \cup {"limited"} => pc[t] \in Loaded \cup {"limited"},
           p \in Loaded => pc[t] \in Loaded
    PROVE  BudgetInv'
<1>1. PICK M, I : job \in [Task -> JobRec(M, I)]
  BY DEF BudgetInv, JobShape
<1>2. job' = [job EXCEPT ![t] = job[t]] /\ job[t] \in JobRec(M, I)
  BY <1>1
<1>3. /\ p \notin NoAgent => job[t].agt \in Agent
      /\ p \in Loaded \cup {"limited"} => job[t].row \in Thread
      /\ p \in Loaded /\ Budgeted(job[t].row) => spent < job[t].row.limit
  BY DEF BudgetInv, AgentKnown, RowKnown, BudgetLeft
<1> QED
  BY <1>1, <1>2, <1>3, TaskMoves DEF Goto

(* The columns an automatic switch writes. *)
LEMMA SwitchedType ==
    ASSUME NEW r \in Thread, NEW a \in Agent, NEW b \in Agent
    PROVE  Switched(r, a, b) \in Thread
  BY DEF Switched, Thread

(* Every step of a task keeps the row it will save within the budget. *)
LEMMA StepKeepsBudgetInv ==
    ASSUME NEW t \in Task, LaunchInv, BudgetInv, Step(t)
    PROVE  BudgetInv'
<1>1. ControlType /\ thread \in Thread /\ AgentKnown /\ RowKnown /\ BudgetLeft
  BY DEF LaunchInv, BudgetInv
<1>2. {"idle", "sched_error"} \subseteq NoAgent
  BY DEF NoAgent
<1>3. \A by \in {job[u].who : u \in Task} : by \in {"user", "spawn"} \cup Scheduled
  BY DEF BudgetInv, JobShape, JobRec
<1>4. CASE RunError(t)
  BY <1>1, <1>2, <1>4, LeaveKeeps DEF RunError, Leave, Goto
<1>10. CASE EnqueueMessage(t)
  BY <1>1, <1>2, <1>10, LeaveKeeps DEF EnqueueMessage, Leave, Goto
<1>11. CASE AlreadyRunning(t)
  <2>1. CASE job[t].msg # None
    BY <1>1, <1>11, <2>1, GotoKeeps DEF AlreadyRunning, database, NoAgent, Loaded, Pc
  <2>2. CASE job[t].msg = None
    BY <1>1, <1>2, <1>11, <2>2, LeaveKeeps DEF AlreadyRunning, Leave, Goto, database
  <2> QED
    BY <2>1, <2>2
<1>12. CASE NotRunning(t)
  BY <1>1, <1>12, GotoKeeps DEF NotRunning, database, NoAgent, Loaded, Pc
<1>13. CASE Refused(t) \/ PercentageLimited(t) \/ BudgetSpent(t) \/ ThreadGone(t)
             \/ StartFailed(t)
  BY <1>4, <1>13 DEF Refused, PercentageLimited, BudgetSpent, ThreadGone, StartFailed
<1>14. CASE KnownLimited(t)
  <2>1. PICK M, I : job \in [Task -> JobRec(M, I)]
    BY DEF BudgetInv, JobShape
  <2> DEFINE j == [job[t] EXCEPT !.row = thread]
  <2>2. j \in JobRec(M, I) /\ j.agt = job[t].agt /\ j.row = thread
    BY <1>1, <2>1 DEF JobRec
  <2>3. job' = [job EXCEPT ![t] = j]
    BY <1>14, <2>1 DEF KnownLimited
  <2>4. j.agt \in Agent /\ j.row \in Thread /\ "limited" \in Pc /\ "limited" \notin Loaded
    BY <1>1, <1>14, <2>2 DEF KnownLimited, AgentKnown, NoAgent, Loaded, Pc
  <2>5. pc' = [pc EXCEPT ![t] = "limited"] /\ thread' = thread /\ spent' = spent
    BY <1>14 DEF KnownLimited, Goto, database
  <2> HIDE DEF j
  <2> QED
    BY <1>1, <2>1, <2>2, <2>3, <2>4, <2>5, TaskMoves
<1>15. CASE Preflight(t)
  <2>1. PICK M, I : job \in [Task -> JobRec(M, I)]
    BY DEF BudgetInv, JobShape
  <2> DEFINE j == [job[t] EXCEPT !.row = thread]
  <2>2. j \in JobRec(M, I) /\ j.agt = job[t].agt /\ j.row = thread
    BY <1>1, <2>1 DEF JobRec
  <2>3. job' = [job EXCEPT ![t] = j]
    BY <1>15, <2>1 DEF Preflight
  <2>4. j.agt \in Agent /\ "pop" \in Pc
    BY <1>1, <1>15, <2>2 DEF Preflight, AgentKnown, NoAgent, Pc
  <2>5. Budgeted(j.row) => spent < j.row.limit
    BY <1>15, <2>2 DEF Preflight
  <2> QED
    BY <1>1, <1>15, <2>1, <2>2, <2>3, <2>4, <2>5, TaskMoves DEF Preflight, Goto, database
<1>16. CASE Admitted(t)
  <2>1. PICK M, I : job \in [Task -> JobRec(M, I)] /\ Pending(t) \in M
    BY Widen DEF BudgetInv
  <2> DEFINE j == [job[t] EXCEPT !.msg = Pending(t)]
  <2>2. j \in JobRec(M, I) /\ j.agt = job[t].agt /\ j.row = job[t].row
    BY <2>1 DEF JobRec
  <2>3. job' = [job EXCEPT ![t] = j]
    BY <1>16, <2>1 DEF Admitted
  <2>4. /\ j.agt \in Agent /\ j.row \in Thread /\ "turn" \in Pc
        /\ Budgeted(j.row) => spent < j.row.limit
    BY <1>1, <1>16, <2>2 DEF Admitted, AgentKnown, RowKnown, BudgetLeft, NoAgent, Loaded, Pc
  <2> QED
    BY <1>1, <1>16, <2>1, <2>2, <2>3, <2>4, TaskMoves DEF Admitted, Goto
<1>17. CASE AtCapacity(t)
  <2>1. PICK M, I : job \in [Task -> JobRec(M, I)] /\ None \in M
    BY Widen DEF BudgetInv
  <2> DEFINE j == [job[t] EXCEPT !.msg = None]
  <2>2. j \in JobRec(M, I) /\ j.agt = job[t].agt /\ j.row = job[t].row
    BY <2>1 DEF JobRec
  <2>3. job' = [job EXCEPT ![t] = j]
    BY <1>17, <2>1 DEF AtCapacity
  <2>4. /\ j.agt \in Agent /\ j.row \in Thread /\ "wait" \in Pc
        /\ Budgeted(j.row) => spent < j.row.limit
    BY <1>1, <1>17, <2>2 DEF AtCapacity, AgentKnown, RowKnown, BudgetLeft, NoAgent, Loaded, Pc
  <2> QED
    BY <1>1, <1>17, <2>1, <2>2, <2>3, <2>4, TaskMoves DEF AtCapacity, Goto
<1>18. CASE CreateTurn(t)
  <2>1. PICK M, I : job \in [Task -> JobRec(M, I)] /\ Pending(t) \in M
    BY Widen DEF BudgetInv
  <2> DEFINE j == [job[t] EXCEPT !.msg = Pending(t), !.row = None]
  <2>2. j \in JobRec(M, I) /\ j.agt = job[t].agt
    BY <2>1 DEF JobRec
  <2>3. job' = [job EXCEPT ![t] = j]
    BY <1>18, <2>1 DEF CreateTurn
  <2>4. /\ job[t].agt \in Agent /\ job[t].row \in Thread
        /\ "start" \in Pc /\ "start" \notin Loaded \cup {"limited"}
    BY <1>1, <1>18 DEF CreateTurn, AgentKnown, RowKnown, NoAgent, Loaded, Pc
  <2>5. thread' \in Thread
    BY <1>18, <2>4 DEF CreateTurn, Thread
  <2> QED
    BY <1>1, <1>18, <2>1, <2>2, <2>3, <2>4, <2>5, TaskMoves DEF CreateTurn, Goto
<1>20. CASE StartSession(t)
  <2>1. PICK M, I : job \in [Task -> JobRec(M, I)]
    BY DEF BudgetInv, JobShape
  <2> DEFINE c == IF Budgeted(thread) THEN thread.limit ELSE 0
             j == [job[t] EXCEPT !.who = "spawn", !.cap = c]
  <2>2. c \in 0..MaxLimit
    BY <1>1 DEF Thread
  <2>3. j \in JobRec(M, I) /\ j.agt = job[t].agt
    BY <2>1, <2>2 DEF JobRec
  <2>4. job' = [job EXCEPT ![t] = j]
    BY <1>20, <2>1 DEF StartSession
  <2>5. job[t].agt \in Agent /\ "live" \in Pc /\ "live" \notin Loaded \cup {"limited"}
    BY <1>1, <1>20 DEF StartSession, AgentKnown, NoAgent, Loaded, Pc
  <2> QED
    BY <1>1, <1>20, <2>1, <2>3, <2>4, <2>5, TaskMoves DEF StartSession, Goto, database
<1>21. CASE LimitedSwitch(t)
  <2>1. job[t].agt \in Agent /\ job[t].row \in Thread
    BY <1>1, <1>21 DEF LimitedSwitch, AgentKnown, RowKnown, NoAgent, Loaded
  <2>2. PICK b \in Agent :
          /\ thread' = IF exists THEN Switched(job[t].row, job[t].agt, b) ELSE thread
          /\ Enter(t, job[t].who, b, job[t].msg)
    BY <1>21 DEF LimitedSwitch, SwitchTargets
  <2>3. thread' \in Thread
    BY <1>1, <2>1, <2>2, SwitchedType
  <2> QED
    BY <1>1, <1>3, <1>21, <2>2, <2>3, EnterKeeps DEF LimitedSwitch
<1>22. CASE LimitedWait(t)
  <2>1. thread' \in Thread
    BY <1>1, <1>22 DEF LimitedWait, RowKnown, Loaded
  <2> QED
    BY <1>1, <1>2, <1>22, <2>1, LeaveKeeps DEF LimitedWait, Leave, Goto
<1>23. CASE RemoveSession(t)
  <2> DEFINE s == [i \in 1..Len(queue) |-> queue[i].m]
  <2>1. PICK M, I : job \in [Task -> JobRec(M, I)] /\ None \in M /\ s \in I /\ << >> \in I
    BY Widen DEF BudgetInv
  <2> HIDE DEF s
  <2>2. PICK j \in JobRec(M, I), p \in {"requeue", "tail"} :
          /\ pc' = [pc EXCEPT ![t] = p]
          /\ job' = [job EXCEPT ![t] = j]
          /\ j.agt = job[t].agt
    <3> DEFINE again == ~Saw(t, "exhausted") /\ (Saw(t, "limit") \/ Saw(t, "net"))
                          /\ job[t].msg # None
               j == [job[t] EXCEPT !.ids = IF again THEN s ELSE << >>,
                                   !.msg = IF again THEN @ ELSE None]
               p == IF again THEN "requeue" ELSE "tail"
    <3>1. j \in JobRec(M, I) /\ j.agt = job[t].agt
      BY <2>1 DEF JobRec
    <3>2. job' = [job EXCEPT ![t] = j]
      BY <1>23, <2>1 DEF RemoveSession, s
    <3>3. pc' = [pc EXCEPT ![t] = p]
      BY <1>23 DEF RemoveSession, Goto
    <3>4. p \in {"requeue", "tail"}
      OBVIOUS
    <3> HIDE DEF j, p
    <3> QED
      BY <3>1, <3>2, <3>3, <3>4
  <2>3. job[t].agt \in Agent /\ p \in Pc /\ p \notin Loaded \cup {"limited"}
    BY <1>1, <1>23 DEF RemoveSession, AgentKnown, NoAgent, Loaded, Pc
  <2> QED
    BY <1>1, <1>23, <2>1, <2>2, <2>3, TaskMoves DEF RemoveSession, database
<1>24. CASE RequeueInsert(t)
  <2> DEFINE s == <<job[t].msg.m>> \o job[t].ids
  <2>1. PICK M, I : job \in [Task -> JobRec(M, I)] /\ None \in M /\ s \in I
    BY Widen DEF BudgetInv
  <2> DEFINE j == [job[t] EXCEPT !.ids = s, !.msg = None]
  <2> HIDE DEF s
  <2>2. j \in JobRec(M, I) /\ j.agt = job[t].agt
    BY <2>1 DEF JobRec
  <2>3. job' = [job EXCEPT ![t] = j]
    BY <1>24, <2>1 DEF RequeueInsert, s
  <2>4. PICK p \in {"requeue_order", "tail"} : pc' = [pc EXCEPT ![t] = p]
    BY <1>24 DEF RequeueInsert, Goto
  <2>5. job[t].agt \in Agent /\ p \in Pc /\ p \notin Loaded \cup {"limited"}
    BY <1>1, <1>24 DEF RequeueInsert, AgentKnown, NoAgent, Loaded, Pc
  <2> QED
    BY <1>1, <1>24, <2>1, <2>2, <2>3, <2>4, <2>5, TaskMoves DEF RequeueInsert
<1>25. CASE RequeueOrder(t)
  <2>1. PICK M, I : job \in [Task -> JobRec(M, I)] /\ << >> \in I
    BY Widen DEF BudgetInv
  <2> DEFINE j == [job[t] EXCEPT !.ids = << >>]
  <2>2. j \in JobRec(M, I) /\ j.agt = job[t].agt
    BY <2>1 DEF JobRec
  <2>3. job' = [job EXCEPT ![t] = j]
    BY <1>25, <2>1 DEF RequeueOrder
  <2>4. job[t].agt \in Agent /\ "tail" \in Pc /\ "tail" \notin Loaded \cup {"limited"}
    BY <1>1, <1>25 DEF RequeueOrder, AgentKnown, NoAgent, Loaded, Pc
  <2> QED
    BY <1>1, <1>25, <2>1, <2>2, <2>3, <2>4, TaskMoves DEF RequeueOrder, Goto
<1>26. CASE TailStops(t) \/ FallbackWait(t) \/ SkipThread(t)
  BY <1>1, <1>2, <1>26, LeaveKeeps DEF TailStops, FallbackWait, SkipThread, Leave, Goto, database
<1>27. CASE FallbackSwitch(t)
  <2>1. job[t].agt \in Agent
    BY <1>1, <1>27 DEF FallbackSwitch, TailLimited, AgentKnown, NoAgent
  <2>2. CASE ~exists
    BY <1>1, <1>2, <1>27, <2>2, LeaveKeeps DEF FallbackSwitch, Leave, Goto
  <2>3. CASE exists
    <3>1. PICK b \in Agent : thread' = Switched(thread, job[t].agt, b)
                              /\ Enter(t, "spawn", b, None)
      BY <1>27, <2>3 DEF FallbackSwitch, SwitchTargets
    <3>2. thread' \in Thread
      BY <1>1, <2>1, <3>1, SwitchedType
    <3> QED
      BY <1>1, <1>27, <3>1, <3>2, EnterKeeps DEF FallbackSwitch
  <2> QED
    BY <2>2, <2>3
<1>28. ASSUME NEW c \in Agent, ResumeAfterNetwork(t, c), spent' = spent
       PROVE  BudgetInv'
  <2>1. CASE exists /\ active = None
    <3> DEFINE a == IF thread.original # None THEN thread.original ELSE c
    <3>1. a \in Agent
      BY <1>1 DEF Thread
    <3>2. thread' = [thread EXCEPT !.agent = a, !.original = None]
          /\ Enter(t, "spawn", a, None)
      BY <1>28, <2>1 DEF ResumeAfterNetwork
    <3> HIDE DEF a
    <3>3. thread' \in Thread
      BY <1>1, <3>1, <3>2 DEF Thread
    <3> QED
      BY <1>1, <1>28, <3>1, <3>2, <3>3, EnterKeeps
  <2>2. CASE ~(exists /\ active = None)
    BY <1>1, <1>2, <1>28, <2>2, LeaveKeeps DEF ResumeAfterNetwork, Leave, Goto
  <2> QED
    BY <2>1, <2>2
<1>29. CASE \E b \in BOOLEAN : NetworkLost(t, b)
  <2>1. PICK b \in BOOLEAN : NetworkLost(t, b)
    BY <1>29
  <2>2. job[t].agt \in Agent
    BY <1>1, <2>1 DEF NetworkLost, AgentKnown, NoAgent
  <2>3. CASE b
    BY <1>28, <2>1, <2>2, <2>3 DEF NetworkLost
  <2>4. CASE ~b
    BY <1>1, <1>2, <2>1, <2>4, LeaveKeeps DEF NetworkLost, Leave, Goto
  <2> QED
    BY <2>3, <2>4
<1>30. CASE \E b \in BOOLEAN : SwitchBackReady(t, b)
  <2>1. PICK M, I : job \in [Task -> JobRec(M, I)]
    BY DEF BudgetInv, JobShape
  <2> DEFINE j == [job[t] EXCEPT !.saw = {}, !.cap = 0]
  <2>2. j \in JobRec(M, I) /\ j.agt = job[t].agt
    <3>1. {} \in SUBSET Flag /\ 0 \in 0..MaxLimit
      OBVIOUS
    <3> QED
      BY <2>1, <3>1 DEF JobRec
  <2>3. job' = [job EXCEPT ![t] = j]
    BY <1>30, <2>1 DEF SwitchBackReady
  <2>4. job[t].agt \in Agent /\ "drain" \in Pc /\ "drain" \notin Loaded \cup {"limited"}
    BY <1>1, <1>30 DEF SwitchBackReady, AgentKnown, NoAgent, Loaded, Pc
  <2>5. thread' \in Thread /\ pc' = [pc EXCEPT ![t] = "drain"] /\ spent' = spent
    BY <1>1, <1>30 DEF SwitchBackReady, Thread, Goto
  <2> QED
    BY <1>1, <2>1, <2>2, <2>3, <2>4, <2>5, TaskMoves
<1>31. CASE DrainQueue(t)
  <2>1. thread.agent \in Agent
    BY <1>1 DEF Thread
  <2>2. CASE queue # << >>
    BY <1>1, <1>31, <2>1, <2>2, EnterKeeps DEF DrainQueue
  <2>3. CASE queue = << >>
    BY <1>1, <1>2, <1>31, <2>3, LeaveKeeps DEF DrainQueue, Leave, Goto
  <2> QED
    BY <2>2, <2>3
<1>32. CASE ContinueQueued(t)
  <2>1. thread.agent \in Agent /\ "queued" \in Scheduled
    BY <1>1 DEF Thread, Scheduled
  <2> QED
    BY <1>1, <1>32, <2>1, EnterKeeps DEF ContinueQueued, database
<1>33. CASE ContinueAfterNetwork(t)
  <2>1. thread.agent \in Agent
    BY <1>1 DEF Thread
  <2> QED
    BY <1>28, <1>33, <2>1 DEF ContinueAfterNetwork
<1>34. CASE \E a \in Agent : ContinueAfterReset(t, a)
  <2>1. PICK a \in Agent : ContinueAfterReset(t, a)
    BY <1>34
  <2>2. thread' \in Thread /\ "reset" \in Scheduled
    BY <1>1, <2>1 DEF ContinueAfterReset, Thread, Scheduled
  <2> QED
    BY <1>1, <2>1, <2>2, EnterKeeps DEF ContinueAfterReset
<1>35. CASE DeleteWait(t) \/ DeleteRows(t) \/ PauseAfterError(t)
  <2>1. PICK p \in {"delete_rows", "idle"} : Goto(t, p)
    BY <1>35 DEF DeleteWait, DeleteRows, PauseAfterError
  <2>2. p \in Pc /\ p \in NoAgent /\ p \notin Loaded \cup {"limited"}
    BY DEF Pc, NoAgent, Loaded
  <2> QED
    BY <1>1, <1>35, <2>1, <2>2, GotoKeeps DEF DeleteWait, DeleteRows, PauseAfterError, database
<1> QED
  BY <1>10, <1>11, <1>12, <1>13, <1>14, <1>15, <1>16, <1>17, <1>18, <1>20, <1>21,
     <1>22, <1>23, <1>24, <1>25, <1>26, <1>27, <1>29, <1>30, <1>31, <1>32, <1>33,
     <1>34, <1>35 DEF Step

(* Usage is only spent by a live session, when no launch is under way. *)
LEMMA ProviderKeepsBudgetInv ==
    ASSUME NEW t \in Task, LaunchInv, BudgetInv, Provider(t)
    PROVE  BudgetInv'
<1>1. ControlType /\ thread \in Thread /\ AgentKnown /\ RowKnown /\ BudgetLeft
  BY DEF LaunchInv, BudgetInv
<1>2. PICK M, I : job \in [Task -> JobRec(M, I)]
  BY DEF BudgetInv, JobShape
<1>3. PICK F \in SUBSET Flag : job' = [job EXCEPT ![t].saw = F]
  <2>1. \A F \in SUBSET Flag : Note(t, F) =>
          /\ job[t].saw \cup F \in SUBSET Flag
          /\ job' = [job EXCEPT ![t].saw = job[t].saw \cup F]
    BY <1>2 DEF Note, JobRec
  <2>2. \E F \in SUBSET Flag : Note(t, F)
    BY DEF Provider, Usage, Consumed, UsedUp, UsageLimitReached, MarkAgentLimited,
           NetworkUnavailable, Ends, SessionEnded, Flag
  <2> QED
    BY <2>1, <2>2
<1> DEFINE j == [job[t] EXCEPT !.saw = F]
<1>4. j \in JobRec(M, I) /\ j.agt = job[t].agt /\ job' = [job EXCEPT ![t] = j]
  BY <1>2, <1>3 DEF JobRec
<1>5. thread' = thread /\ pc[t] = "live" /\ \E p \in {"live", "ended"} : Goto(t, p)
  BY <1>1 DEF Provider, Usage, Consumed, UsedUp, UsageLimitReached, MarkAgentLimited,
              NetworkUnavailable, Ends, SessionEnded,
              Goto, ControlType
<1>6. PICK p \in {"live", "ended"} : Goto(t, p)
  BY <1>5
<1>7. \A u \in Task : pc[u] \notin Loaded
  BY <1>5 DEF LaunchInv, SingleSession, Launching, Session, Loaded, ControlType
<1> HIDE DEF j
<1>8. /\ JobShape' /\ thread' \in Thread
      /\ \A u \in Task : pc'[u] = (IF u = t THEN p ELSE pc[u])
      /\ \A u \in Task : job'[u] = IF u = t THEN j ELSE job[u]
  BY <1>1, <1>2, <1>4, <1>5, <1>6 DEF JobShape, Goto, ControlType
<1>9. AgentKnown' /\ RowKnown' /\ BudgetLeft'
  BY <1>1, <1>4, <1>5, <1>7, <1>8 DEF AgentKnown, RowKnown, BudgetLeft, Loaded, NoAgent
<1> QED
  BY <1>8, <1>9 DEF BudgetInv

(* Requests and the scheduler's list start tasks; a new cap changes the thread,
   not the rows already loaded. *)
LEMMA RequestKeepsBudgetInv ==
    ASSUME LaunchInv, BudgetInv, Request \/ Tick
    PROVE  BudgetInv'
<1>1. ControlType /\ thread \in Thread
  BY DEF LaunchInv, BudgetInv
<1>2. CASE \E t \in Task, m \in Msg, a \in Agent : SendMessage(t, m, a)
  <2>1. PICK t \in Task, m \in Msg, a \in Agent : SendMessage(t, m, a)
    BY <1>2
  <2> DEFINE x == [m |-> m, echo |-> TRUE]
  <2>2. CASE active = None
    BY <1>1, <2>1, <2>2, EnterKeeps DEF SendMessage, database
  <2>3. CASE active # None
    <3>1. PICK M, I : job \in [Task -> JobRec(M, I)] /\ x \in M
      BY Widen DEF BudgetInv
    <3> DEFINE j == [job[t] EXCEPT !.msg = x]
    <3>2. job' = [job EXCEPT ![t] = j]
      BY <2>1, <2>3, <3>1 DEF SendMessage
    <3> HIDE DEF x
    <3>3. j \in JobRec(M, I)
      BY <3>1 DEF JobRec
    <3>4. "enqueue" \in Pc /\ "enqueue" \in NoAgent /\ "enqueue" \notin Loaded \cup {"limited"}
      BY DEF Pc, NoAgent, Loaded
    <3> QED
      BY <1>1, <2>1, <2>3, <3>1, <3>2, <3>3, <3>4, TaskMoves DEF SendMessage, Goto, database
  <2> QED
    BY <2>2, <2>3
<1>3. CASE \E t \in Task, a \in Agent : RunThread(t, a)
  BY <1>1, <1>3, EnterKeeps DEF RunThread, database
<1>4. CASE \E t \in Task : DeleteThread(t)
  <2>1. PICK t \in Task, p \in {"delete_wait", "delete_rows"} :
          Goto(t, p) /\ job' = job /\ thread' = thread /\ spent' = spent
    BY <1>4 DEF DeleteThread, database
  <2>2. p \in Pc /\ p \in NoAgent /\ p \notin Loaded \cup {"limited"}
    BY DEF Pc, NoAgent, Loaded
  <2> QED
    BY <1>1, <2>1, <2>2, GotoKeeps
<1>5. CASE \E n \in 1..MaxLimit : UpdateBudget(n)
  BY <1>1, <1>5 DEF UpdateBudget, ValidateChange, memory, BudgetInv, JobShape, AgentKnown, RowKnown,
     BudgetLeft, Thread
<1>6. CASE StopThread
  BY <1>6 DEF StopThread, database, BudgetInv, JobShape, AgentKnown, RowKnown, BudgetLeft
<1>7. CASE Tick
  <2>1. PICK t \in Task, why \in Scheduled : ListThread(t, why)
    BY <1>7 DEF Tick
  <2>2. PICK M, I : job \in [Task -> JobRec(M, I)]
    BY DEF BudgetInv, JobShape
  <2> DEFINE j == [job[t] EXCEPT !.who = why]
  <2>3. job' = [job EXCEPT ![t] = j] /\ j \in JobRec(M, I)
    BY <2>1, <2>2 DEF ListThread, JobRec
  <2>4. "sched" \in Pc /\ "sched" \in NoAgent /\ "sched" \notin Loaded \cup {"limited"}
    BY DEF Pc, NoAgent, Loaded
  <2> QED
    BY <1>1, <2>1, <2>2, <2>3, <2>4, TaskMoves DEF ListThread, Goto, database
<1> QED
  BY <1>2, <1>3, <1>4, <1>5, <1>6, <1>7 DEF Request

(* BudgetInv is inductive relative to LaunchInv. *)
LEMMA BudgetInvHolds == Spec => []BudgetInv
<1>1. Init => BudgetInv
  <2> SUFFICES ASSUME Init PROVE BudgetInv
    OBVIOUS
  <2>1. NoJob \in JobRec({None}, {<< >>})
    BY DEF NoJob, NewJob, JobRec, Scheduled
  <2>2. JobShape
    BY <2>1 DEF Init, JobShape
  <2>3. thread \in Thread
    BY DEF Init, Thread
  <2> QED
    BY <2>2, <2>3 DEF Init, BudgetInv, AgentKnown, RowKnown, BudgetLeft, NoAgent, Loaded
<1>2. LaunchInv /\ BudgetInv /\ [Next]_vars => BudgetInv'
  <2> SUFFICES ASSUME LaunchInv, BudgetInv, [Next]_vars PROVE BudgetInv'
    OBVIOUS
  <2>1. CASE Request \/ Tick
    BY <2>1, RequestKeepsBudgetInv
  <2>2. CASE \E t \in Task : Step(t) \/ Provider(t)
    BY <2>2, StepKeepsBudgetInv, ProviderKeepsBudgetInv
  <2>3. CASE \E a \in Agent : LimitLifts(a)
    BY <2>3 DEF LimitLifts, memory, BudgetInv, JobShape, AgentKnown, RowKnown, BudgetLeft
  <2>4. CASE Restart
    <3>1. NoJob \in JobRec({None}, {<< >>})
      BY DEF NoJob, NewJob, JobRec, Scheduled
    <3>2. JobShape'
      BY <2>4, <3>1 DEF Restart, JobShape
    <3> QED
      BY <2>4, <3>2 DEF Restart, BudgetInv, AgentKnown, RowKnown, BudgetLeft, NoAgent, Loaded
  <2>5. CASE UNCHANGED vars
    BY <2>5 DEF vars, database, memory, BudgetInv, JobShape, AgentKnown, RowKnown, BudgetLeft
  <2> QED
    BY <2>1, <2>2, <2>3, <2>4, <2>5 DEF Next
<1> QED
  BY <1>1, <1>2, LaunchInvHolds, PTL DEF Spec

(* No turn of a budgeted thread is created with the budget spent, even though
   the cap can change and other tasks can write the row between the preflight
   check and the turn: the row that is saved is the one that was checked, and
   nothing is spent while the launch lock is held. *)
THEOREM BudgetedTurns == Spec => TurnsStartWithinBudget
<1>1. BudgetInv /\ [Next]_vars
        => [\A t \in Task : CreateTurn(t) /\ Budgeted(thread') => spent < thread'.limit]_vars
  <2> SUFFICES ASSUME BudgetInv, NEW t \in Task, CreateTurn(t), Budgeted(thread')
               PROVE  spent < thread'.limit
    OBVIOUS
  <2>1. job[t].row \in Thread
    BY DEF BudgetInv, RowKnown, CreateTurn, Loaded
  <2>2. thread'.limit = job[t].row.limit /\ thread'.kind = job[t].row.kind
    BY <2>1 DEF CreateTurn, Thread
  <2>3. spent < job[t].row.limit
    BY <2>2 DEF BudgetInv, BudgetLeft, Budgeted, CreateTurn, Loaded
  <2> QED
    BY <2>2, <2>3
<1> QED
  BY <1>1, BudgetInvHolds, PTL DEF Spec, TurnsStartWithinBudget

------------------------------------------------------------------------------
(* Percentage budgets.  The agent is checked against the kind of the budget
   once, at the top of the launch, and the row is saved back as a whole by
   whoever loaded it; what carries the check to the session is that every copy
   of the row in a task's hands has the kind of the thread. *)

Checked == Loaded \cup {"start"} \cup Session

RowKind == \A t \in Task : pc[t] \in Loaded \cup {"limited"} => job[t].row.kind = thread.kind
OnCodex == \A t \in Task : thread.kind = "weekly" /\ pc[t] \in Checked => job[t].agt = Codex

PercentInv == RowKind /\ OnCodex

(* A step of one task, and what its new place needs. *)
LEMMA PercentStep ==
    ASSUME NEW t \in Task, PercentInv, thread'.kind = thread.kind,
           \A u \in Task : u # t => pc'[u] = pc[u] /\ job'[u] = job[u],
           pc'[t] \in Loaded \cup {"limited"} => job'[t].row.kind = thread.kind,
           thread.kind = "weekly" /\ pc'[t] \in Checked => job'[t].agt = Codex
    PROVE  PercentInv'
  BY DEF PercentInv, RowKind, OnCodex

(* A task that goes where neither a row nor a checked agent is needed. *)
LEMMA PercentElsewhere ==
    ASSUME NEW t \in Task, NEW p \in Pc \ (Checked \cup {"limited"}), NEW j,
           NEW J, job \in [Task -> J], ControlType, PercentInv,
           pc' = [pc EXCEPT ![t] = p], job' = [job EXCEPT ![t] = j],
           thread'.kind = thread.kind
    PROVE  PercentInv'
<1>1. \A u \in Task : u # t => pc'[u] = pc[u] /\ job'[u] = job[u]
  BY DEF ControlType
<1>2. pc'[t] = p /\ p \notin Loaded \cup {"limited"} /\ p \notin Checked
  BY DEF ControlType, Checked
<1> QED
  BY <1>1, <1>2, PercentStep

LEMMA StepKeepsPercentInv ==
    ASSUME NEW t \in Task, LaunchInv, BudgetInv, PercentInv, Step(t)
    PROVE  PercentInv'
<1>1. ControlType /\ thread \in Thread /\ RowKnown /\ RowKind /\ OnCodex
  BY DEF LaunchInv, BudgetInv, PercentInv
<1>2. PICK M, I : job \in [Task -> JobRec(M, I)]
  BY DEF BudgetInv, JobShape
<1>3. \A p \in {"idle", "lock", "load", "enqueue", "sched_error", "requeue", "requeue_order", "tail",
                 "drain", "delete_rows"} : p \in Pc \ (Checked \cup {"limited"})
  BY DEF Pc, Checked, Loaded, Session
<1>4. ASSUME NEW p \in {"idle", "lock", "load", "enqueue", "sched_error", "requeue", "requeue_order",
                        "tail", "drain", "delete_rows"},
             NEW j, Goto(t, p), job' = [job EXCEPT ![t] = j], thread'.kind = thread.kind
      PROVE  PercentInv'
  BY <1>1, <1>2, <1>3, <1>4, PercentElsewhere DEF Goto
<1>5. ASSUME NEW p \in {"idle", "lock", "load", "enqueue", "sched_error", "requeue", "requeue_order",
                        "tail", "drain", "delete_rows"},
             Goto(t, p), job' = job, thread' = thread
      PROVE  PercentInv'
  <2>1. job' = [job EXCEPT ![t] = job[t]]
    BY <1>2, <1>5
  <2> QED
    BY <1>4, <1>5, <2>1
<1>6. CASE EnqueueMessage(t)
  BY <1>4, <1>6 DEF EnqueueMessage, Leave
<1>7. CASE AlreadyRunning(t)
  BY <1>4, <1>5, <1>7 DEF AlreadyRunning, Leave, database
<1>8. CASE NotRunning(t)
  BY <1>5, <1>8 DEF NotRunning, database
<1>9. CASE RunError(t)
  BY <1>4, <1>9 DEF RunError, Leave
<1>10. CASE Refused(t) \/ PercentageLimited(t) \/ BudgetSpent(t) \/ ThreadGone(t) \/ StartFailed(t)
  BY <1>9, <1>10 DEF Refused, PercentageLimited, BudgetSpent, ThreadGone, StartFailed
<1>11. CASE KnownLimited(t)
  <2>1. /\ pc' = [pc EXCEPT ![t] = "limited"] /\ job' = [job EXCEPT ![t].row = thread]
        /\ thread' = thread
    BY <1>11 DEF KnownLimited, Goto, database
  <2>2. /\ \A u \in Task : u # t => pc'[u] = pc[u] /\ job'[u] = job[u]
        /\ pc'[t] = "limited" /\ job'[t].row = thread
    BY <1>1, <1>2, <2>1 DEF ControlType, JobRec
  <2>3. "limited" \notin Checked
    BY DEF Checked, Loaded, Session
  <2> QED
    BY <2>1, <2>2, <2>3, PercentStep
<1>12. CASE Preflight(t)
  <2>1. /\ pc' = [pc EXCEPT ![t] = "pop"] /\ job' = [job EXCEPT ![t].row = thread]
        /\ thread' = thread /\ (thread.kind = "weekly" => job[t].agt = Codex)
    BY <1>12 DEF Preflight, WeeklyNeedsCodex, Goto, database
  <2>2. /\ \A u \in Task : u # t => pc'[u] = pc[u] /\ job'[u] = job[u]
        /\ job'[t].row = thread /\ job'[t].agt = job[t].agt
    BY <1>1, <1>2, <2>1 DEF ControlType, JobRec
  <2> QED
    BY <2>1, <2>2, PercentStep
<1>13. ASSUME NEW p \in Pc, Goto(t, p), thread'.kind = thread.kind, pc[t] \in Checked,
              \A u \in Task : u # t => job'[u] = job[u], job'[t].agt = job[t].agt,
              p \in Loaded \cup {"limited"} => pc[t] \in Loaded /\ job'[t].row = job[t].row
       PROVE  PercentInv'
  <2>1. pc'[t] = p /\ \A u \in Task : u # t => pc'[u] = pc[u]
    BY <1>1, <1>13 DEF Goto, ControlType
  <2>2. /\ p \in Loaded \cup {"limited"} => job'[t].row.kind = thread.kind
        /\ thread.kind = "weekly" => job'[t].agt = Codex
    BY <1>1, <1>13 DEF RowKind, OnCodex
  <2> QED
    BY <1>13, <2>1, <2>2, PercentStep
<1>14. CASE Admitted(t)
  <2>1. /\ \A u \in Task : u # t => job'[u] = job[u]
        /\ job'[t].agt = job[t].agt /\ job'[t].row = job[t].row
    BY <1>2, <1>14 DEF Admitted, JobRec
  <2>2. pc[t] \in Loaded /\ pc[t] \in Checked /\ Goto(t, "turn") /\ thread' = thread
    BY <1>14 DEF Admitted, Loaded, Checked
  <2> QED
    BY <1>13, <2>1, <2>2 DEF Pc
<1>15. CASE AtCapacity(t)
  <2>1. /\ \A u \in Task : u # t => job'[u] = job[u]
        /\ job'[t].agt = job[t].agt /\ job'[t].row = job[t].row
    BY <1>2, <1>15 DEF AtCapacity, JobRec
  <2>2. pc[t] \in Loaded /\ pc[t] \in Checked /\ Goto(t, "wait") /\ thread' = job[t].row
    BY <1>15 DEF AtCapacity, Loaded, Checked
  <2>3. thread'.kind = thread.kind
    BY <1>1, <2>2 DEF RowKind
  <2> QED
    BY <1>13, <2>1, <2>2, <2>3 DEF Pc
<1>16. CASE CreateTurn(t)
  <2>1. \A u \in Task : u # t => job'[u] = job[u]
    BY <1>2, <1>16 DEF CreateTurn
  <2>2. job'[t].agt = job[t].agt
    BY <1>2, <1>16 DEF CreateTurn, JobRec
  <2>3. /\ pc[t] \in Loaded /\ pc[t] \in Checked /\ Goto(t, "start")
        /\ thread' = [job[t].row EXCEPT !.agent = job[t].agt]
    BY <1>16 DEF CreateTurn, Loaded, Checked
  <2>4. thread'.kind = thread.kind
    BY <1>1, <2>3 DEF RowKind, RowKnown, Thread
  <2>5. "start" \in Pc /\ "start" \notin Loaded \cup {"limited"}
    BY DEF Pc, Loaded
  <2> QED
    BY <1>13, <2>1, <2>2, <2>3, <2>4, <2>5
<1>17. CASE StartSession(t)
  <2>1. /\ \A u \in Task : u # t => job'[u] = job[u]
        /\ job'[t].agt = job[t].agt
    BY <1>2, <1>17 DEF StartSession, JobRec
  <2>2. pc[t] \in Checked /\ Goto(t, "live") /\ thread' = thread
    BY <1>17 DEF StartSession, Checked, database
  <2>3. "live" \in Pc /\ "live" \notin Loaded \cup {"limited"}
    BY DEF Pc, Loaded
  <2> QED
    BY <1>13, <2>1, <2>2, <2>3
<1>18. CASE LimitedSwitch(t)
  <2>1. job[t].row \in Thread /\ job[t].row.kind = thread.kind
    BY <1>1, <1>18 DEF LimitedSwitch, RowKnown, RowKind
  <2>2. PICK b \in Agent : /\ thread' = Switched(job[t].row, job[t].agt, b)
                           /\ Enter(t, job[t].who, b, job[t].msg)
    BY <1>18 DEF LimitedSwitch, SwitchTargets
  <2>3. thread'.kind = thread.kind
    BY <2>1, <2>2 DEF Switched, Thread
  <2> QED
    BY <1>4, <2>2, <2>3 DEF Enter
<1>19. CASE LimitedWait(t)
  <2>1. thread'.kind = thread.kind
    BY <1>1, <1>19 DEF LimitedWait, RowKind
  <2> QED
    BY <1>4, <1>19, <2>1 DEF LimitedWait, Leave
<1>20. ASSUME NEW p \in {"requeue", "requeue_order", "tail", "drain"}, Goto(t, p),
              thread'.kind = thread.kind, \A u \in Task : u # t => job'[u] = job[u]
       PROVE  PercentInv'
  <2>1. pc'[t] = p /\ \A u \in Task : u # t => pc'[u] = pc[u]
    BY <1>1, <1>20 DEF Goto, ControlType
  <2>2. p \notin Loaded \cup {"limited"} /\ p \notin Checked
    BY DEF Loaded, Checked, Session
  <2> QED
    BY <1>20, <2>1, <2>2, PercentStep
<1>21. CASE RemoveSession(t)
  <2>1. \A u \in Task : u # t => job'[u] = job[u]
    BY <1>2, <1>21 DEF RemoveSession
  <2>2. (Goto(t, "requeue") \/ Goto(t, "tail")) /\ thread' = thread
    BY <1>21 DEF RemoveSession, database
  <2> QED
    BY <1>20, <2>1, <2>2
<1>22. CASE RequeueInsert(t)
  <2>1. \A u \in Task : u # t => job'[u] = job[u]
    BY <1>2, <1>22 DEF RequeueInsert
  <2>2. (Goto(t, "requeue_order") \/ Goto(t, "tail")) /\ thread' = thread
    BY <1>22 DEF RequeueInsert
  <2> QED
    BY <1>20, <2>1, <2>2
<1>23. CASE RequeueOrder(t)
  <2>1. \A u \in Task : u # t => job'[u] = job[u]
    BY <1>2, <1>23 DEF RequeueOrder
  <2> QED
    BY <1>20, <1>23, <2>1 DEF RequeueOrder
<1>24. CASE TailStops(t) \/ FallbackWait(t) \/ SkipThread(t)
  BY <1>4, <1>24 DEF TailStops, FallbackWait, SkipThread, Leave, database
<1>25. CASE FallbackSwitch(t)
  <2>1. CASE ~exists
    BY <1>4, <1>25, <2>1 DEF FallbackSwitch, Leave
  <2>2. CASE exists
    <3>1. PICK b \in Agent : thread' = Switched(thread, job[t].agt, b) /\ Enter(t, "spawn", b, None)
      BY <1>25, <2>2 DEF FallbackSwitch, SwitchTargets
    <3>2. thread'.kind = thread.kind
      BY <1>1, <3>1 DEF Switched, Thread
    <3> QED
      BY <1>4, <3>1, <3>2 DEF Enter
  <2> QED
    BY <2>1, <2>2
<1>26. ASSUME NEW c, ResumeAfterNetwork(t, c)
       PROVE  PercentInv'
  <2>1. CASE exists /\ active = None
    <3>1. PICK a : thread' = [thread EXCEPT !.agent = a, !.original = None] /\ Enter(t, "spawn", a, None)
      BY <1>26, <2>1 DEF ResumeAfterNetwork
    <3>2. thread'.kind = thread.kind
      BY <1>1, <3>1 DEF Thread
    <3> QED
      BY <1>4, <3>1, <3>2 DEF Enter
  <2>2. CASE ~(exists /\ active = None)
    BY <1>4, <1>26, <2>2 DEF ResumeAfterNetwork, Leave
  <2> QED
    BY <2>1, <2>2
<1>27. CASE \E b \in BOOLEAN : NetworkLost(t, b)
  BY <1>4, <1>26, <1>27 DEF NetworkLost, Leave
<1>28. CASE \E b \in BOOLEAN : SwitchBackReady(t, b)
  <2>1. \A u \in Task : u # t => job'[u] = job[u]
    BY <1>2, <1>28 DEF SwitchBackReady
  <2>2. thread'.kind = thread.kind
    BY <1>1, <1>28 DEF SwitchBackReady, Thread
  <2> QED
    BY <1>20, <1>28, <2>1, <2>2 DEF SwitchBackReady
<1>29. CASE DrainQueue(t)
  BY <1>4, <1>29 DEF DrainQueue, Enter, Leave
<1>30. CASE ContinueQueued(t)
  BY <1>4, <1>30 DEF ContinueQueued, Enter, database
<1>31. CASE ContinueAfterNetwork(t)
  BY <1>26, <1>31 DEF ContinueAfterNetwork
<1>32. CASE \E a \in Agent : ContinueAfterReset(t, a)
  <2>1. PICK a \in Agent : ContinueAfterReset(t, a)
    BY <1>32
  <2>2. thread'.kind = thread.kind
    BY <1>1, <2>1 DEF ContinueAfterReset, Thread
  <2> QED
    BY <1>4, <2>1, <2>2 DEF ContinueAfterReset, Enter
<1>33. CASE DeleteWait(t) \/ DeleteRows(t) \/ PauseAfterError(t)
  BY <1>5, <1>33 DEF DeleteWait, DeleteRows, PauseAfterError, database
<1> QED
  BY <1>6, <1>7, <1>8, <1>10, <1>11, <1>12, <1>14, <1>15, <1>16, <1>17, <1>18, <1>19, <1>21,
     <1>22, <1>23, <1>24, <1>25, <1>27, <1>28, <1>29, <1>30, <1>31, <1>32, <1>33 DEF Step

(* The provider's events leave the agent and the row alone. *)
LEMMA ProviderKeepsPercentInv ==
    ASSUME NEW t \in Task, LaunchInv, BudgetInv, PercentInv, Provider(t)
    PROVE  PercentInv'
<1>1. ControlType
  BY DEF LaunchInv
<1>2. PICK M, I : job \in [Task -> JobRec(M, I)]
  BY DEF BudgetInv, JobShape
<1>3. \E F : Note(t, F)
  BY DEF Provider, Usage, UsageLimitReached, NetworkUnavailable, Ends, SessionEnded
<1>4. /\ \A u \in Task : u # t => job'[u] = job[u]
      /\ job'[t].agt = job[t].agt
  BY <1>2, <1>3 DEF Note, JobRec
<1>5. thread' = thread /\ pc[t] = "live" /\ \E p \in {"live", "ended"} : Goto(t, p)
  BY <1>1 DEF Provider, Usage, UsageLimitReached, NetworkUnavailable, Ends, SessionEnded, Goto,
              ControlType
<1>6. pc'[t] \in {"live", "ended"} /\ \A u \in Task : u # t => pc'[u] = pc[u]
  BY <1>1, <1>5 DEF Goto, ControlType
<1>7. pc'[t] \notin Loaded \cup {"limited"} /\ pc[t] \in Checked
  BY <1>5, <1>6 DEF Loaded, Checked, Session
<1>8. thread.kind = "weekly" => job'[t].agt = Codex
  BY <1>4, <1>7 DEF PercentInv, OnCodex
<1> QED
  BY <1>4, <1>5, <1>6, <1>7, <1>8, PercentStep

LEMMA RequestKeepsPercentInv ==
    ASSUME LaunchInv, BudgetInv, PercentInv, Request \/ Tick
    PROVE  PercentInv'
<1>1. ControlType /\ thread \in Thread
  BY DEF LaunchInv, BudgetInv
<1>2. PICK M, I : job \in [Task -> JobRec(M, I)]
  BY DEF BudgetInv, JobShape
<1>3. ASSUME NEW t \in Task, NEW p \in {"lock", "enqueue", "sched", "delete_wait", "delete_rows"},
             Goto(t, p), \A u \in Task : u # t => job'[u] = job[u], thread' = thread
      PROVE  PercentInv'
  <2>1. pc'[t] = p /\ \A u \in Task : u # t => pc'[u] = pc[u]
    BY <1>1, <1>3 DEF Goto, ControlType
  <2>2. p \notin Loaded \cup {"limited"} /\ p \notin Checked
    BY DEF Loaded, Checked, Session
  <2> QED
    BY <1>3, <2>1, <2>2, PercentStep
<1>4. CASE \E t \in Task, m \in Msg, a \in Agent : SendMessage(t, m, a)
  <2>1. PICK t \in Task, m \in Msg, a \in Agent : SendMessage(t, m, a)
    BY <1>4
  <2>2. /\ Goto(t, "enqueue") \/ Goto(t, "lock")
        /\ \A u \in Task : u # t => job'[u] = job[u]
        /\ thread' = thread
    BY <1>2, <2>1 DEF SendMessage, Enter, database
  <2> QED
    BY <1>3, <2>2
<1>5. CASE \E t \in Task, a \in Agent : RunThread(t, a)
  <2>1. PICK t \in Task, a \in Agent : RunThread(t, a)
    BY <1>5
  <2>2. Goto(t, "lock") /\ (\A u \in Task : u # t => job'[u] = job[u]) /\ thread' = thread
    BY <1>2, <2>1 DEF RunThread, Enter, database
  <2> QED
    BY <1>3, <2>2
<1>6. CASE \E t \in Task : DeleteThread(t)
  <2>1. PICK t \in Task, p \in {"delete_wait", "delete_rows"} :
          Goto(t, p) /\ job' = job /\ thread' = thread
    BY <1>6 DEF DeleteThread, database
  <2> QED
    BY <1>3, <2>1
<1>7. CASE \E n \in 1..MaxLimit : UpdateBudget(n)
  <2>1. thread'.kind = thread.kind /\ pc' = pc /\ job' = job
    BY <1>1, <1>7 DEF UpdateBudget, memory, Thread
  <2> QED
    BY <2>1 DEF PercentInv, RowKind, OnCodex
<1>8. CASE StopThread
  BY <1>8 DEF StopThread, database, PercentInv, RowKind, OnCodex
<1>9. CASE Tick
  <2>1. PICK t \in Task, why \in Scheduled : ListThread(t, why)
    BY <1>9 DEF Tick
  <2>2. Goto(t, "sched") /\ (\A u \in Task : u # t => job'[u] = job[u]) /\ thread' = thread
    BY <1>2, <2>1 DEF ListThread, database
  <2> QED
    BY <1>3, <2>2
<1> QED
  BY <1>4, <1>5, <1>6, <1>7, <1>8, <1>9 DEF Request

(* PercentInv is inductive relative to the two others. *)
LEMMA PercentInvHolds == Spec => []PercentInv
<1>1. Init => PercentInv
  BY DEF Init, PercentInv, RowKind, OnCodex, Checked, Loaded, Session
<1>2. LaunchInv /\ BudgetInv /\ PercentInv /\ [Next]_vars => PercentInv'
  <2> SUFFICES ASSUME LaunchInv, BudgetInv, PercentInv, [Next]_vars PROVE PercentInv'
    OBVIOUS
  <2>1. CASE Request \/ Tick
    BY <2>1, RequestKeepsPercentInv
  <2>2. CASE \E t \in Task : Step(t) \/ Provider(t)
    BY <2>2, StepKeepsPercentInv, ProviderKeepsPercentInv
  <2>3. CASE \E a \in Agent : LimitLifts(a)
    BY <2>3 DEF LimitLifts, memory, PercentInv, RowKind, OnCodex
  <2>4. CASE Restart
    BY <2>4 DEF Restart, PercentInv, RowKind, OnCodex, Checked, Loaded, Session
  <2>5. CASE UNCHANGED vars
    BY <2>5 DEF vars, database, memory, PercentInv, RowKind, OnCodex
  <2> QED
    BY <2>1, <2>2, <2>3, <2>4, <2>5 DEF Next
<1> QED
  BY <1>1, <1>2, LaunchInvHolds, BudgetInvHolds, PTL DEF Spec

(* No session of a thread with a percentage budget is on another provider,
   whichever agent a fallback, a resume, a switch back or the user names and
   whoever saves an older copy of the row in between. *)
THEOREM PercentageOnCodex == Spec => []PercentageStaysOnCodex
<1>1. PercentInv => PercentageStaysOnCodex
  BY DEF PercentInv, OnCodex, Checked, PercentageStaysOnCodex
<1> QED
  BY <1>1, PercentInvHolds, PTL

------------------------------------------------------------------------------
(* Messages.  A message is a row of the queue or in the hands of one task, and
   its echo flag is what says whether the transcript has it: the flag is good
   until the turn is created, and the requeue clears it. *)

Holds(t) == job[t].msg # None

(* Where a task's message is not in the transcript yet, and where a task has
   none. *)
Unshown == {"enqueue", "lock", "load", "limited", "pop", "wait", "turn"}
Handless == {"idle", "wait", "requeue_order", "tail", "drain", "sched", "sched_error",
             "delete_wait", "delete_rows"}

MsgTypes ==
    /\ queue \in Seq(Message) /\ echoes \in [Msg -> Nat] /\ sent \in SUBSET Msg
    /\ \A t \in Task : job[t].msg \in Message \cup {None} /\ job[t].ids \in Seq(Msg)
HandsFit ==
    \A t \in Task : /\ pc[t] \in Handless => ~Holds(t)
                    /\ pc[t] \in {"enqueue", "requeue"} => Holds(t)
QueuedOnce == \A i, k \in DOMAIN queue : queue[i].m = queue[k].m => i = k
HeldOnce == \A t, u \in Task : Holds(t) /\ Holds(u) /\ job[t].msg.m = job[u].msg.m => t = u
Apart == \A t \in Task, i \in DOMAIN queue : Holds(t) => job[t].msg.m # queue[i].m
WasSent ==
    /\ \A i \in DOMAIN queue : queue[i].m \in sent
    /\ \A t \in Task : Holds(t) => job[t].msg.m \in sent
    /\ \A m \in Msg \ sent : echoes[m] = 0
EchoesFit ==
    /\ \A m \in Msg : echoes[m] <= 1
    /\ \A i \in DOMAIN queue : queue[i].echo => echoes[queue[i].m] = 0
    /\ \A t \in Task : Holds(t) /\ pc[t] \in Unshown /\ job[t].msg.echo => echoes[job[t].msg.m] = 0

MsgInv == MsgTypes /\ HandsFit /\ QueuedOnce /\ HeldOnce /\ Apart /\ WasSent /\ EchoesFit

USE DEF Holds

(* A step of task t leaves the other tasks where they are. *)
Frame(t) == \A u \in Task : u # t => pc'[u] = pc[u] /\ job'[u] = job[u]

(* What t may put into the queue: its own message, with the flag raised only if
   the transcript does not have it. *)
FromHand(t, e) == Holds(t) /\ e.m = job[t].msg.m /\ (e.echo => echoes[e.m] = 0)

(* One task takes a row, puts its message back or passes it on: a message that
   moves does not multiply. *)
LEMMA MessageMoves ==
    ASSUME NEW t \in Task, MsgInv, Frame(t), sent' = sent,
           queue' \in Seq(Message), QueuedOnce',
           \A i \in DOMAIN queue' : (\E k \in DOMAIN queue : queue'[i] = queue[k]) \/ FromHand(t, queue'[i]),
           job'[t].msg \in Message \cup {None}, job'[t].ids \in Seq(Msg),
           Holds(t)' => \/ job'[t].msg = job[t].msg /\ (pc'[t] \in Unshown => pc[t] \in Unshown)
                        \/ \E k \in DOMAIN queue : job'[t].msg = queue[k],
           \A i \in DOMAIN queue' : Holds(t)' => job'[t].msg.m # queue'[i].m,
           pc'[t] \in Handless => ~Holds(t)', pc'[t] \in {"enqueue", "requeue"} => Holds(t)',
           echoes' \in [Msg -> Nat],
           \A m \in Msg : \/ echoes'[m] = echoes[m]
                          \/ /\ Holds(t)' /\ m = job'[t].msg.m /\ pc'[t] \notin Unshown
                             /\ echoes'[m] = 1
    PROVE  MsgInv'
<1>1. MsgTypes /\ HandsFit /\ QueuedOnce /\ HeldOnce /\ Apart /\ WasSent /\ EchoesFit
  BY DEF MsgInv
<1>2. MsgTypes' /\ HandsFit'
  BY <1>1 DEF MsgTypes, HandsFit, Frame
<1>3. \A u \in Task : u # t /\ Holds(u)' => Holds(u) /\ job'[u].msg = job[u].msg
  BY DEF Frame
<1>4. \A u \in Task : u # t /\ Holds(u)' /\ Holds(t)' => job'[u].msg.m # job'[t].msg.m
  BY <1>1, <1>3 DEF HeldOnce, Apart
<1>5. HeldOnce'
  BY <1>1, <1>3, <1>4 DEF HeldOnce
<1>6. \A u \in Task, i \in DOMAIN queue' : u # t /\ Holds(u)' => job'[u].msg.m # queue'[i].m
  BY <1>1, <1>3 DEF HeldOnce, Apart, FromHand
<1>7. Apart'
  BY <1>6 DEF Apart
<1>8. WasSent'
  <2>1. \A i \in DOMAIN queue' : queue'[i].m \in sent
    BY <1>1 DEF WasSent, FromHand
  <2>2. \A u \in Task : Holds(u)' => job'[u].msg.m \in sent
    BY <1>1, <1>3 DEF WasSent
  <2>3. \A m \in Msg \ sent : echoes'[m] = 0
    BY <1>1, <2>2 DEF WasSent
  <2> QED
    BY <2>1, <2>2, <2>3 DEF WasSent
<1>9. \A m \in Msg : echoes'[m] <= 1
  BY <1>1 DEF EchoesFit
<1>10. ASSUME NEW i \in DOMAIN queue', queue'[i].echo PROVE echoes'[queue'[i].m] = 0
  <2>0. queue'[i] \in Message
    OBVIOUS
  <2>1. queue'[i].m \in Msg
    BY <2>0 DEF Message
  <2>2. echoes[queue'[i].m] = 0
    BY <1>1, <1>10 DEF EchoesFit, FromHand
  <2> QED
    BY <2>1, <2>2
<1>11. ASSUME NEW u \in Task, Holds(u)', pc'[u] \in Unshown, job'[u].msg.echo
       PROVE  echoes'[job'[u].msg.m] = 0
  <2>1. job'[u].msg \in Message /\ job'[u].msg.m \in Msg
    BY <1>2, <1>11 DEF MsgTypes, Message
  <2>2. echoes[job'[u].msg.m] = 0
    <3>1. CASE u # t
      BY <1>1, <1>3, <1>11, <3>1 DEF EchoesFit, Frame
    <3>2. CASE u = t
      BY <1>1, <1>11, <3>2 DEF EchoesFit
    <3> QED
      BY <3>1, <3>2
  <2>3. CASE u # t
    BY <1>4, <1>11, <2>1, <2>2, <2>3
  <2>4. CASE u = t
    BY <1>11, <2>1, <2>2, <2>4
  <2> QED
    BY <2>3, <2>4
<1>12. EchoesFit'
  BY <1>9, <1>10, <1>11 DEF EchoesFit
<1> QED
  BY <1>2, <1>5, <1>7, <1>8, <1>12 DEF MsgInv

(* Rows of a queue after a pop and after an insert. *)
LEMMA TailRows ==
    ASSUME NEW S, NEW q \in Seq(S), q # << >>
    PROVE  /\ Tail(q) \in Seq(S) /\ Head(q) \in S /\ 1 \in DOMAIN q /\ Head(q) = q[1]
           /\ \A i \in DOMAIN Tail(q) : i \in Nat \ {0} /\ i + 1 \in DOMAIN q /\ Tail(q)[i] = q[i + 1]
  OBVIOUS

LEMMA AppendRows ==
    ASSUME NEW S, NEW q \in Seq(S), NEW e \in S
    PROVE  /\ Append(q, e) \in Seq(S)
           /\ \A i \in DOMAIN Append(q, e) :
                (i \in DOMAIN q /\ Append(q, e)[i] = q[i]) \/ (i = Len(q) + 1 /\ Append(q, e)[i] = e)
  OBVIOUS

(* The message stays where it is, or is dropped. *)
LEMMA MessageStays ==
    ASSUME NEW t \in Task, MsgInv, Frame(t), sent' = sent, queue' = queue, echoes' = echoes,
           job'[t].msg \in {None, job[t].msg}, job'[t].ids \in Seq(Msg),
           Holds(t)' /\ pc'[t] \in Unshown => pc[t] \in Unshown,
           pc'[t] \in Handless => ~Holds(t)', pc'[t] \in {"enqueue", "requeue"} => Holds(t)'
    PROVE  MsgInv'
<1>1. MsgTypes /\ QueuedOnce /\ Apart
  BY DEF MsgInv
<1>2. job'[t].msg \in Message \cup {None} /\ queue' \in Seq(Message) /\ echoes' \in [Msg -> Nat] /\ QueuedOnce'
  BY <1>1 DEF MsgTypes, QueuedOnce
<1>3. \A i \in DOMAIN queue' : Holds(t)' => job'[t].msg.m # queue'[i].m
  BY <1>1 DEF Apart
<1> QED
  BY <1>2, <1>3, MessageMoves

(* The message goes into the queue. *)
LEMMA MessagePut ==
    ASSUME NEW t \in Task, MsgInv, Frame(t), sent' = sent, echoes' = echoes,
           NEW e \in Message, FromHand(t, e), queue' = Append(queue, e),
           job'[t].msg = None, job'[t].ids \in Seq(Msg), pc'[t] \notin {"enqueue", "requeue"}
    PROVE  MsgInv'
<1>1. MsgTypes /\ QueuedOnce /\ Apart
  BY DEF MsgInv
<1>2. /\ queue' \in Seq(Message)
      /\ \A i \in DOMAIN queue' : (i \in DOMAIN queue /\ queue'[i] = queue[i]) \/ (i = Len(queue) + 1 /\ queue'[i] = e)
  BY <1>1, AppendRows DEF MsgTypes
<1>3. QueuedOnce'
  BY <1>1, <1>2 DEF QueuedOnce, Apart, FromHand
<1>4. echoes' \in [Msg -> Nat]
  BY <1>1 DEF MsgTypes
<1>5. \A i \in DOMAIN queue' : (\E k \in DOMAIN queue : queue'[i] = queue[k]) \/ FromHand(t, queue'[i])
  BY <1>2
<1> QED
  BY <1>2, <1>3, <1>4, <1>5, MessageMoves

(* The oldest row is taken from the queue. *)
LEMMA MessagePop ==
    ASSUME NEW t \in Task, MsgInv, Frame(t), sent' = sent, queue # << >>, queue' = Tail(queue),
           job'[t].msg = Head(queue), job'[t].ids \in Seq(Msg), pc'[t] \notin Handless,
           echoes' \in [Msg -> Nat],
           \A m \in Msg : \/ echoes'[m] = echoes[m]
                          \/ m = Head(queue).m /\ pc'[t] \notin Unshown /\ echoes'[m] = 1
    PROVE  MsgInv'
<1>1. MsgTypes /\ QueuedOnce /\ Apart
  BY DEF MsgInv
<1>2. /\ queue' \in Seq(Message) /\ Head(queue) \in Message /\ 1 \in DOMAIN queue /\ Head(queue) = queue[1]
      /\ \A i \in DOMAIN queue' : i \in Nat \ {0} /\ i + 1 \in DOMAIN queue /\ queue'[i] = queue[i + 1]
  BY <1>1, TailRows DEF MsgTypes
<1>3. QueuedOnce'
  <2> SUFFICES ASSUME NEW i \in DOMAIN queue', NEW k \in DOMAIN queue', queue'[i].m = queue'[k].m
               PROVE  i = k
    BY DEF QueuedOnce
  <2>1. i + 1 = k + 1
    BY <1>1, <1>2 DEF QueuedOnce
  <2> QED
    BY <1>2, <2>1
<1>4. \A i \in DOMAIN queue' : job'[t].msg.m # queue'[i].m
  <2> SUFFICES ASSUME NEW i \in DOMAIN queue', queue[1].m = queue'[i].m PROVE FALSE
    BY <1>2
  <2>1. i + 1 = 1
    BY <1>1, <1>2 DEF QueuedOnce
  <2> QED
    BY <1>2, <2>1
<1>5. job'[t].msg \in Message /\ Holds(t)'
  BY <1>2, ConstantsAssumption DEF Message
<1>6. \A i \in DOMAIN queue' : \E k \in DOMAIN queue : queue'[i] = queue[k]
  BY <1>2
<1> QED
  BY <1>2, <1>3, <1>4, <1>5, <1>6, MessageMoves

(* A reordered queue has the same rows, each once. *)
LEMMA ReorderedRows ==
    ASSUME NEW q \in Seq(Message), NEW order, NEW r \in Reordered(q, order),
           \A i, k \in DOMAIN q : q[i].m = q[k].m => i = k
    PROVE  /\ r \in Seq(Message)
           /\ \A i \in DOMAIN r : \E k \in DOMAIN q : r[i] = q[k]
           /\ \A i, k \in DOMAIN r : r[i].m = r[k].m => i = k
<1>1. PICK f \in [DOMAIN q -> DOMAIN q] :
        /\ \A i, k \in DOMAIN q : i < k => f[i] # f[k]
        /\ r = [i \in DOMAIN q |-> q[f[i]]]
  BY DEF Reordered
<1>2. DOMAIN q = 1..Len(q) /\ Len(q) \in Nat /\ \A i \in DOMAIN q : q[i] \in Message
  OBVIOUS
<1>3. r \in [1..Len(q) -> Message]
  BY <1>1, <1>2
<1>4. r \in Seq(Message)
  BY <1>2, <1>3
<1>5. ASSUME NEW i \in DOMAIN r, NEW k \in DOMAIN r, r[i].m = r[k].m PROVE i = k
  <2>1. i \in DOMAIN q /\ k \in DOMAIN q /\ f[i] = f[k]
    BY <1>1, <1>5
  <2>2. i \in Nat /\ k \in Nat
    BY <1>2, <2>1
  <2> QED
    BY <1>1, <2>1, <2>2
<1> QED
  BY <1>1, <1>4, <1>5

(* The locals of a task after a step, field by field. *)
LEMMA AfterLeave ==
    ASSUME NEW t \in Task, NEW p, NEW J, ControlType, job \in [Task -> J],
           pc' = [pc EXCEPT ![t] = p], job' = [job EXCEPT ![t] = NoJob]
    PROVE  Frame(t) /\ pc'[t] = p /\ job'[t].msg = None /\ job'[t].ids \in Seq(Msg)
<1>1. Frame(t) /\ pc'[t] = p /\ job'[t] = NoJob
  BY DEF Frame, ControlType
<1>2. NoJob.msg = None /\ NoJob.ids = << >>
  BY DEF NoJob, NewJob
<1>3. << >> \in Seq(Msg)
  OBVIOUS
<1> QED
  BY <1>1, <1>2, <1>3

LEMMA AfterEnter ==
    ASSUME NEW t \in Task, NEW by, NEW a, NEW m, NEW J, ControlType, job \in [Task -> J],
           Enter(t, by, a, m)
    PROVE  Frame(t) /\ pc'[t] = "lock" /\ job'[t].msg = m /\ job'[t].ids \in Seq(Msg)
<1>1. Frame(t) /\ pc'[t] = "lock" /\ job'[t] = NewJob(by, a, m)
  BY DEF Frame, ControlType, Enter, Goto
<1>2. NewJob(by, a, m).msg = m /\ NewJob(by, a, m).ids = << >>
  BY DEF NewJob
<1> QED
  BY <1>1, <1>2

(* A call that is over and lost nothing but what it held. *)
LEMMA MessageLeaves ==
    ASSUME NEW t \in Task, NEW p \in {"idle", "sched_error"}, NEW J, MsgInv, ControlType,
           job \in [Task -> J], pc' = [pc EXCEPT ![t] = p], job' = [job EXCEPT ![t] = NoJob],
           sent' = sent, queue' = queue, echoes' = echoes
    PROVE  MsgInv'
  BY AfterLeave, MessageStays

(* A run that is entered with the message in hand, or with none. *)
LEMMA MessageEnters ==
    ASSUME NEW t \in Task, NEW by, NEW a, NEW m \in {None, job[t].msg}, NEW J, MsgInv, ControlType,
           job \in [Task -> J], Enter(t, by, a, m), m # None => pc[t] \in Unshown,
           sent' = sent, queue' = queue, echoes' = echoes
    PROVE  MsgInv'
<1>1. "lock" \notin Handless
  BY DEF Handless
<1> QED
  BY <1>1, AfterEnter, MessageStays

(* Appending the message of a task that then has none. *)
LEMMA MessageQueued ==
    ASSUME NEW t \in Task, MsgInv, Frame(t), sent' = sent, echoes' = echoes,
           NEW e \in Message, FromHand(t, e), Enqueue(e),
           job'[t].msg = None, job'[t].ids \in Seq(Msg), pc'[t] \notin {"enqueue", "requeue"}
    PROVE  MsgInv'
<1>1. CASE exists
  BY <1>1, MessagePut DEF Enqueue
<1>2. CASE ~exists
  BY <1>2, MessageStays DEF Enqueue
<1> QED
  BY <1>1, <1>2

LEMMA StepKeepsMsgInv ==
    ASSUME NEW t \in Task, LaunchInv, BudgetInv, MsgInv, Step(t)
    PROVE  MsgInv'
<1>1. /\ ControlType /\ MsgTypes /\ HandsFit /\ QueuedOnce /\ EchoesFit
      /\ queue \in Seq(Message) /\ echoes \in [Msg -> Nat]
  BY DEF LaunchInv, MsgInv, MsgTypes
<1>2. PICK M, I : job \in [Task -> JobRec(M, I)]
  BY DEF BudgetInv, JobShape
<1>3. /\ job[t].msg \in Message \cup {None} /\ job[t].ids \in Seq(Msg)
      /\ pc[t] \in Handless => ~Holds(t)
      /\ pc[t] \in {"enqueue", "requeue"} => Holds(t)
  BY <1>1 DEF MsgTypes, HandsFit
<1>4. ASSUME Holds(t), pc[t] \in Unshown PROVE job[t].msg \in Message /\ FromHand(t, job[t].msg)
  BY <1>1, <1>3, <1>4 DEF EchoesFit, FromHand
<1>5. ASSUME NEW p, NEW q, Goto(t, p), job' = [job EXCEPT ![t].row = q]
      PROVE  Frame(t) /\ pc'[t] = p /\ job'[t].msg = job[t].msg /\ job'[t].ids = job[t].ids
  BY <1>1, <1>2, <1>5 DEF Frame, ControlType, JobRec, Goto
<1>6. ASSUME NEW p, Goto(t, p), job' = job
      PROVE  Frame(t) /\ pc'[t] = p /\ job'[t].msg = job[t].msg /\ job'[t].ids = job[t].ids
  BY <1>1, <1>2, <1>6 DEF Frame, ControlType, Goto
<1>7. ASSUME NEW p, NEW x, Goto(t, p), job' = [job EXCEPT ![t].msg = x]
      PROVE  Frame(t) /\ pc'[t] = p /\ job'[t].msg = x /\ job'[t].ids = job[t].ids
  BY <1>1, <1>2, <1>7 DEF Frame, ControlType, JobRec, Goto
<1>10. CASE EnqueueMessage(t)
  <2>1. Holds(t) /\ pc[t] \in Unshown
    BY <1>3, <1>10 DEF EnqueueMessage, Unshown
  <2>2. Frame(t) /\ pc'[t] = "idle" /\ job'[t].msg = None /\ job'[t].ids \in Seq(Msg)
    BY <1>1, <1>2, <1>10, AfterLeave DEF EnqueueMessage, Leave, Goto
  <2> QED
    BY <1>4, <1>10, <2>1, <2>2, MessageQueued DEF EnqueueMessage
<1>11. CASE AlreadyRunning(t)
  <2>1. CASE job[t].msg # None
    BY <1>3, <1>6, <1>11, <2>1, MessageStays DEF AlreadyRunning, database, Unshown, Handless
  <2>2. CASE job[t].msg = None
    BY <1>1, <1>2, <1>11, <2>2, MessageLeaves DEF AlreadyRunning, Leave, Goto, database
  <2> QED
    BY <2>1, <2>2
<1>12. CASE NotRunning(t)
  BY <1>3, <1>6, <1>12, MessageStays DEF NotRunning, database, Unshown, Handless
<1>13. CASE RunError(t)
  BY <1>1, <1>2, <1>13, MessageLeaves DEF RunError, Leave, Goto
<1>14. CASE Refused(t) \/ PercentageLimited(t) \/ BudgetSpent(t) \/ ThreadGone(t) \/ StartFailed(t)
  BY <1>13, <1>14 DEF Refused, PercentageLimited, BudgetSpent, ThreadGone, StartFailed
<1>15. CASE KnownLimited(t)
  <2>1. Goto(t, "limited") /\ job' = [job EXCEPT ![t].row = thread] /\ pc[t] = "load"
        /\ sent' = sent /\ queue' = queue /\ echoes' = echoes
    BY <1>15 DEF KnownLimited, database
  <2>2. Frame(t) /\ pc'[t] = "limited" /\ job'[t].msg = job[t].msg /\ job'[t].ids = job[t].ids
    BY <1>5, <2>1
  <2> QED
    BY <1>3, <2>1, <2>2, MessageStays DEF Unshown, Handless
<1>16. CASE Preflight(t)
  <2>1. Goto(t, "pop") /\ job' = [job EXCEPT ![t].row = thread] /\ pc[t] = "load"
        /\ sent' = sent /\ queue' = queue /\ echoes' = echoes
    BY <1>16 DEF Preflight, database
  <2>2. Frame(t) /\ pc'[t] = "pop" /\ job'[t].msg = job[t].msg /\ job'[t].ids = job[t].ids
    BY <1>5, <2>1
  <2> QED
    BY <1>3, <2>1, <2>2, MessageStays DEF Unshown, Handless
<1>17. CASE Admitted(t)
  <2>1. /\ Frame(t) /\ pc'[t] = "turn" /\ job'[t].msg = Pending(t) /\ job'[t].ids = job[t].ids
        /\ pc[t] = "pop" /\ sent' = sent /\ queue' = AfterPop(t) /\ echoes' = echoes
    BY <1>7, <1>17 DEF Admitted
  <2>2. CASE Pops(t)
    BY <1>1, <1>3, <2>1, <2>2, MessagePop DEF Pops, Pending, AfterPop, Handless
  <2>3. CASE ~Pops(t)
    BY <1>3, <2>1, <2>3, MessageStays DEF Pending, AfterPop, Unshown, Handless
  <2> QED
    BY <2>2, <2>3
<1>18. CASE AtCapacity(t)
  <2>1. /\ Frame(t) /\ pc'[t] = "wait" /\ job'[t].msg = None /\ job'[t].ids = job[t].ids
        /\ pc[t] = "pop" /\ sent' = sent /\ echoes' = echoes
        /\ queue' = IF Pending(t) # None THEN Append(AfterPop(t), Pending(t)) ELSE queue
    BY <1>7, <1>18 DEF AtCapacity
  <2>2. CASE Pops(t)
    <3>1. /\ Tail(queue) \in Seq(Message) /\ Head(queue) \in Message
          /\ 1 \in DOMAIN queue /\ Head(queue) = queue[1]
          /\ \A i \in DOMAIN Tail(queue) : /\ i \in Nat \ {0} /\ i + 1 \in DOMAIN queue
                                           /\ Tail(queue)[i] = queue[i + 1]
      BY <1>1, <2>2, TailRows DEF Pops
    <3>2. queue' = Append(Tail(queue), Head(queue))
      BY <2>1, <2>2, <3>1, ConstantsAssumption DEF Pending, AfterPop, Message
    <3>3. /\ queue' \in Seq(Message)
          /\ \A i \in DOMAIN queue' :
               \/ i \in DOMAIN Tail(queue) /\ queue'[i] = Tail(queue)[i]
               \/ i = Len(Tail(queue)) + 1 /\ queue'[i] = Head(queue)
      BY <3>1, <3>2, AppendRows
    <3>4. \A i \in DOMAIN queue' :
            \/ i \in Nat \ {0} /\ i + 1 \in DOMAIN queue /\ queue'[i] = queue[i + 1]
            \/ i = Len(Tail(queue)) + 1 /\ queue'[i] = queue[1]
      BY <3>1, <3>3
    <3>5. QueuedOnce'
      <4> SUFFICES ASSUME NEW i \in DOMAIN queue', NEW k \in DOMAIN queue', queue'[i].m = queue'[k].m
                   PROVE  i = k
        BY DEF QueuedOnce
      <4> DEFINE x(n) == n \in Nat \ {0} /\ n + 1 \in DOMAIN queue /\ queue'[n] = queue[n + 1]
                 y(n) == n = Len(Tail(queue)) + 1 /\ queue'[n] = queue[1]
      <4>1. CASE x(i) /\ x(k)
        <5>1. i + 1 = k + 1
          BY <1>1, <4>1 DEF QueuedOnce
        <5> QED
          BY <4>1, <5>1
      <4>2. CASE x(i) /\ y(k)
        <5>1. i + 1 = 1
          BY <1>1, <3>1, <4>2 DEF QueuedOnce
        <5> QED
          BY <4>2, <5>1
      <4>3. CASE y(i) /\ x(k)
        <5>1. k + 1 = 1
          BY <1>1, <3>1, <4>3 DEF QueuedOnce
        <5> QED
          BY <4>3, <5>1
      <4>4. CASE y(i) /\ y(k)
        BY <4>4
      <4> QED
        BY <3>4, <4>1, <4>2, <4>3, <4>4
    <3>6. \A i \in DOMAIN queue' : \E k \in DOMAIN queue : queue'[i] = queue[k]
      BY <3>1, <3>4
    <3> QED
      BY <1>1, <1>3, <2>1, <3>3, <3>5, <3>6, MessageMoves DEF Handless
  <2>3. CASE ~Pops(t) /\ job[t].msg # None
    <3>1. job[t].msg \in Message /\ FromHand(t, job[t].msg)
      BY <1>4, <2>1, <2>3 DEF Unshown
    <3>2. queue' = Append(queue, job[t].msg)
      BY <2>1, <2>3 DEF Pending, AfterPop
    <3> QED
      BY <1>3, <2>1, <3>1, <3>2, MessagePut
  <2>4. CASE ~Pops(t) /\ job[t].msg = None
    BY <1>3, <2>1, <2>4, MessageStays DEF Pending
  <2> QED
    BY <2>2, <2>3, <2>4
<1>19. CASE CreateTurn(t)
  <2> DEFINE x == Pending(t)
  <2>1. /\ pc[t] \in {"turn", "wait"} /\ sent' = sent /\ queue' = AfterPop(t) /\ UserThreadEvent(x)
        /\ job' = [job EXCEPT ![t].msg = x, ![t].row = None] /\ Goto(t, "start")
    BY <1>19 DEF CreateTurn
  <2> HIDE DEF x
  <2>2. Frame(t) /\ pc'[t] = "start" /\ job'[t].msg = x /\ job'[t].ids = job[t].ids
    BY <1>1, <1>2, <2>1 DEF Frame, ControlType, JobRec, Goto
  <2>3. "start" \notin Unshown /\ "start" \notin Handless /\ pc[t] \in Unshown
    BY <2>1 DEF Unshown, Handless
  <2>4. ASSUME x # None => x \in Message /\ (x.echo => echoes[x.m] = 0)
        PROVE  /\ echoes' \in [Msg -> Nat]
               /\ \A m \in Msg : \/ echoes'[m] = echoes[m]
                                 \/ x # None /\ m = x.m /\ echoes'[m] = 1
    <3>1. CASE x # None /\ x.echo
      <4>1. x.m \in Msg /\ echoes[x.m] = 0 /\ echoes' = [echoes EXCEPT ![x.m] = echoes[x.m] + 1]
        BY <2>1, <2>4, <3>1 DEF UserThreadEvent, Message
      <4> QED
        BY <1>1, <3>1, <4>1
    <3>2. CASE ~(x # None /\ x.echo)
      BY <1>1, <2>1, <3>2 DEF UserThreadEvent
    <3> QED
      BY <3>1, <3>2
  <2>5. CASE Pops(t)
    <3>1. queue # << >> /\ x = Head(queue) /\ queue' = Tail(queue)
      BY <2>1, <2>5 DEF Pops, Pending, AfterPop, x
    <3>2. x \in Message /\ 1 \in DOMAIN queue /\ x = queue[1]
      BY <1>1, <3>1, TailRows
    <3>3. x.echo => echoes[x.m] = 0
      BY <1>1, <3>2 DEF EchoesFit
    <3> QED
      BY <1>3, <2>1, <2>2, <2>3, <2>4, <3>1, <3>2, <3>3, MessagePop
  <2>6. CASE ~Pops(t)
    <3>1. x = job[t].msg /\ queue' = queue
      BY <2>1, <2>6 DEF Pending, AfterPop, x
    <3>2. x # None => x \in Message /\ (x.echo => echoes[x.m] = 0)
      BY <1>1, <1>3, <2>3, <3>1 DEF EchoesFit
    <3>3. /\ echoes' \in [Msg -> Nat]
          /\ \A m \in Msg : \/ echoes'[m] = echoes[m]
                            \/ x # None /\ m = x.m /\ echoes'[m] = 1
      BY <2>4, <3>2
    <3>4. QueuedOnce' /\ \A i \in DOMAIN queue' : Holds(t)' => job'[t].msg.m # queue'[i].m
      BY <1>1, <2>2, <3>1 DEF QueuedOnce, MsgInv, Apart
    <3> QED
      BY <1>1, <1>3, <2>1, <2>2, <2>3, <3>1, <3>3, <3>4, MessageMoves
  <2> QED
    BY <2>5, <2>6
<1>20. CASE StartSession(t)
  <2>1. Frame(t) /\ pc'[t] = "live" /\ job'[t].msg = job[t].msg /\ job'[t].ids = job[t].ids
    BY <1>1, <1>2, <1>20 DEF StartSession, Goto, Frame, ControlType, JobRec
  <2> QED
    BY <1>3, <1>20, <2>1, MessageStays DEF StartSession, database, Unshown, Handless
<1>21. CASE LimitedSwitch(t)
  <2>1. PICK b : Enter(t, job[t].who, b, job[t].msg)
    BY <1>21 DEF LimitedSwitch
  <2>2. pc[t] \in Unshown /\ sent' = sent /\ queue' = queue /\ echoes' = echoes
    BY <1>21 DEF LimitedSwitch, Unshown
  <2> QED
    BY <1>1, <1>2, <2>1, <2>2, MessageEnters
<1>22. CASE LimitedWait(t)
  <2>1. /\ Frame(t) /\ pc'[t] = "idle" /\ job'[t].msg = None /\ job'[t].ids \in Seq(Msg)
        /\ pc[t] \in Unshown /\ sent' = sent /\ echoes' = echoes
    BY <1>1, <1>2, <1>22, AfterLeave DEF LimitedWait, Leave, Goto, Unshown
  <2>2. CASE job[t].msg # None
    BY <1>4, <1>22, <2>1, <2>2, MessageQueued DEF LimitedWait
  <2>3. CASE job[t].msg = None
    BY <1>22, <2>1, <2>3, MessageStays DEF LimitedWait
  <2> QED
    BY <2>2, <2>3
<1>23. CASE RemoveSession(t)
  <2> DEFINE again == ~Saw(t, "exhausted") /\ (Saw(t, "limit") \/ Saw(t, "net")) /\ job[t].msg # None
             s == [i \in 1..Len(queue) |-> queue[i].m]
             ids == IF again THEN s ELSE << >>
             msg == IF again THEN job[t].msg ELSE None
  <2>1. s \in Seq(Msg)
    <3>0. Len(queue) \in Nat /\ \A i \in 1..Len(queue) : queue[i] \in Message
      BY <1>1
    <3>1. Len(queue) \in Nat /\ \A i \in 1..Len(queue) : queue[i].m \in Msg
      BY <3>0 DEF Message
    <3> QED
      BY <3>1
  <2>2. /\ Goto(t, IF again THEN "requeue" ELSE "tail")
        /\ job' = [job EXCEPT ![t].ids = ids, ![t].msg = msg]
    BY <1>23 DEF RemoveSession
  <2>3. ids \in Seq(Msg)
    BY <2>1
  <2>4. /\ again => msg = job[t].msg /\ msg # None
        /\ ~again => msg = None
    OBVIOUS
  <2>5. sent' = sent /\ queue' = queue /\ echoes' = echoes
    BY <1>23 DEF RemoveSession, database
  <2> HIDE DEF again, s, ids, msg
  <2>6. Frame(t) /\ job'[t].msg = msg /\ job'[t].ids = ids
        /\ pc'[t] = IF again THEN "requeue" ELSE "tail"
    BY <1>1, <1>2, <2>2 DEF Frame, ControlType, JobRec, Goto
  <2> QED
    BY <2>3, <2>4, <2>5, <2>6, MessageStays DEF Unshown, Handless
<1>24. CASE RequeueInsert(t)
  <2> DEFINE e == [job[t].msg EXCEPT !.echo = FALSE]
             s == <<job[t].msg.m>> \o job[t].ids
  <2>1. job[t].msg \in Message /\ Holds(t)
    BY <1>3, <1>24 DEF RequeueInsert
  <2>2. e \in Message /\ e.m = job[t].msg.m /\ e.echo = FALSE
    BY <2>1 DEF Message
  <2>3. s \in Seq(Msg)
    <3>1. job[t].msg.m \in Msg
      BY <2>1 DEF Message
    <3> QED
      BY <1>3, <3>1
  <2>4. /\ Enqueue(e) /\ job' = [job EXCEPT ![t].ids = s, ![t].msg = None]
        /\ Goto(t, IF exists THEN "requeue_order" ELSE "tail")
        /\ sent' = sent /\ echoes' = echoes
    BY <1>24, <1>2 DEF RequeueInsert
  <2> HIDE DEF e, s
  <2>5. /\ Frame(t) /\ job'[t].msg = None /\ job'[t].ids = s
        /\ pc'[t] \in {"requeue_order", "tail"}
    BY <1>1, <1>2, <2>4 DEF Frame, ControlType, JobRec, Goto
  <2>6. FromHand(t, e)
    BY <2>1, <2>2 DEF FromHand
  <2> QED
    BY <2>2, <2>3, <2>4, <2>5, <2>6, MessageQueued
<1>25. CASE RequeueOrder(t)
  <2>1. /\ queue' \in Reordered(queue, job[t].ids) /\ sent' = sent /\ echoes' = echoes
        /\ pc[t] = "requeue_order"
    BY <1>25 DEF RequeueOrder
  <2>2. /\ Frame(t) /\ pc'[t] = "tail" /\ job'[t].msg = job[t].msg /\ job'[t].ids = << >>
    BY <1>1, <1>2, <1>25 DEF RequeueOrder, Frame, ControlType, JobRec, Goto
  <2>3. /\ queue' \in Seq(Message)
        /\ \A i \in DOMAIN queue' : \E k \in DOMAIN queue : queue'[i] = queue[k]
        /\ \A i, k \in DOMAIN queue' : queue'[i].m = queue'[k].m => i = k
    BY <1>1, <2>1, ReorderedRows DEF QueuedOnce
  <2>4. QueuedOnce'
    BY <2>3 DEF QueuedOnce
  <2>5. ~Holds(t) /\ ~Holds(t)'
    BY <1>3, <2>1, <2>2 DEF Handless
  <2>6. job'[t].ids \in Seq(Msg) /\ job'[t].msg \in Message \cup {None}
    BY <2>2, <2>5
  <2> QED
    BY <1>1, <2>1, <2>2, <2>3, <2>4, <2>5, <2>6, MessageMoves
<1>26. CASE TailStops(t) \/ FallbackWait(t) \/ SkipThread(t)
  BY <1>1, <1>2, <1>26, MessageLeaves DEF TailStops, FallbackWait, SkipThread, Leave, Goto, database
<1>27. CASE FallbackSwitch(t)
  <2>1. (\E b : Enter(t, "spawn", b, None)) \/ Leave(t)
    BY <1>27 DEF FallbackSwitch
  <2>2. sent' = sent /\ queue' = queue /\ echoes' = echoes
    BY <1>27 DEF FallbackSwitch
  <2> QED
    BY <1>1, <1>2, <2>1, <2>2, MessageEnters, MessageLeaves DEF Leave, Goto
<1>28. ASSUME NEW c, ResumeAfterNetwork(t, c), sent' = sent, queue' = queue, echoes' = echoes
       PROVE  MsgInv'
  <2>1. (\E a : Enter(t, "spawn", a, None)) \/ Leave(t)
    BY <1>28 DEF ResumeAfterNetwork
  <2> QED
    BY <1>1, <1>2, <1>28, <2>1, MessageEnters, MessageLeaves DEF Leave, Goto
<1>29. CASE \E b \in BOOLEAN : NetworkLost(t, b)
  <2>1. PICK b \in BOOLEAN : NetworkLost(t, b)
    BY <1>29
  <2>2. CASE b
    BY <1>28, <2>1, <2>2 DEF NetworkLost
  <2>3. CASE ~b
    BY <1>1, <1>2, <2>1, <2>3, MessageLeaves DEF NetworkLost, Leave, Goto
  <2> QED
    BY <2>2, <2>3
<1>30. CASE \E b \in BOOLEAN : SwitchBackReady(t, b)
  <2>1. /\ Goto(t, "drain") /\ job' = [job EXCEPT ![t].saw = {}, ![t].cap = 0] /\ pc[t] = "tail"
        /\ sent' = sent /\ queue' = queue /\ echoes' = echoes
    BY <1>30 DEF SwitchBackReady
  <2>2. Frame(t) /\ pc'[t] = "drain" /\ job'[t].msg = job[t].msg /\ job'[t].ids = job[t].ids
    BY <1>1, <1>2, <2>1 DEF Goto, Frame, ControlType, JobRec
  <2>3. ~Holds(t)
    BY <1>3, <2>1 DEF Handless
  <2> QED
    BY <1>3, <2>1, <2>2, <2>3, MessageStays
<1>31. CASE DrainQueue(t)
  <2>1. CASE queue # << >>
    <3>1. Enter(t, "spawn", thread.agent, Head(queue)) /\ queue' = Tail(queue)
          /\ sent' = sent /\ echoes' = echoes
      BY <1>31, <2>1 DEF DrainQueue
    <3>2. Frame(t) /\ pc'[t] = "lock" /\ job'[t].msg = Head(queue) /\ job'[t].ids \in Seq(Msg)
      BY <1>1, <1>2, <3>1, AfterEnter
    <3> QED
      BY <1>1, <2>1, <3>1, <3>2, MessagePop DEF Handless
  <2>2. CASE queue = << >>
    BY <1>1, <1>2, <1>31, <2>2, MessageLeaves DEF DrainQueue, Leave, Goto
  <2> QED
    BY <2>1, <2>2
<1>32. CASE ContinueQueued(t)
  BY <1>1, <1>2, <1>32, MessageEnters DEF ContinueQueued, database
<1>33. CASE ContinueAfterNetwork(t)
  BY <1>28, <1>33 DEF ContinueAfterNetwork
<1>34. CASE \E a \in Agent : ContinueAfterReset(t, a)
  BY <1>1, <1>2, <1>34, MessageEnters DEF ContinueAfterReset
<1>35. CASE DeleteWait(t) \/ PauseAfterError(t)
  <2>1. PICK p \in {"delete_rows", "idle"} : Goto(t, p)
    BY <1>35 DEF DeleteWait, PauseAfterError
  <2>2. pc[t] \in Handless /\ p \in Handless
    BY <1>35 DEF DeleteWait, PauseAfterError, Handless
  <2>3. job' = job /\ sent' = sent /\ queue' = queue /\ echoes' = echoes
    BY <1>35 DEF DeleteWait, PauseAfterError, database
  <2> QED
    BY <1>3, <1>6, <2>1, <2>2, <2>3, MessageStays
<1>36. CASE DeleteRows(t)
  <2>1. /\ Goto(t, "idle") /\ job' = job /\ sent' = sent /\ queue' = << >> /\ echoes' = echoes
        /\ pc[t] \in Handless
    BY <1>36 DEF DeleteRows, Handless
  <2>2. Frame(t) /\ pc'[t] = "idle" /\ job'[t].msg = None /\ job'[t].ids = job[t].ids
    BY <1>3, <1>6, <2>1
  <2>3. queue' \in Seq(Message) /\ DOMAIN queue' = {} /\ QueuedOnce'
    BY <2>1 DEF QueuedOnce
  <2> QED
    BY <1>1, <1>3, <2>1, <2>2, <2>3, MessageMoves
<1> QED
  BY <1>10, <1>11, <1>12, <1>14, <1>15, <1>16, <1>17, <1>18, <1>19, <1>20, <1>21, <1>22, <1>23,
     <1>24, <1>25, <1>26, <1>27, <1>29, <1>30, <1>31, <1>32, <1>33, <1>34, <1>35, <1>36 DEF Step

(* The provider's events leave the message in the consumer's hands. *)
LEMMA ProviderKeepsMsgInv ==
    ASSUME NEW t \in Task, LaunchInv, BudgetInv, MsgInv, Provider(t)
    PROVE  MsgInv'
<1>1. ControlType /\ MsgTypes
  BY DEF LaunchInv, MsgInv
<1>2. PICK M, I : job \in [Task -> JobRec(M, I)]
  BY DEF BudgetInv, JobShape
<1>3. \E F : Note(t, F)
  BY DEF Provider, Usage, UsageLimitReached, NetworkUnavailable, Ends, SessionEnded
<1>4. /\ \A u \in Task : u # t => job'[u] = job[u]
      /\ job'[t].msg = job[t].msg /\ job'[t].ids = job[t].ids
  BY <1>2, <1>3 DEF Note, JobRec
<1>5. \E p \in {"live", "ended"} : Goto(t, p)
  BY <1>1 DEF Provider, Usage, UsageLimitReached, NetworkUnavailable, Ends, SessionEnded, Goto,
              ControlType
<1>6. pc'[t] \in {"live", "ended"} /\ \A u \in Task : u # t => pc'[u] = pc[u]
  BY <1>1, <1>5 DEF Goto, ControlType
<1>7. sent' = sent /\ queue' = queue /\ echoes' = echoes
  BY DEF Provider, Usage, UsageLimitReached, NetworkUnavailable, Ends, SessionEnded
<1>8. Frame(t) /\ job'[t].ids \in Seq(Msg)
  BY <1>1, <1>4, <1>6 DEF Frame, MsgTypes
<1>9. pc'[t] \notin Unshown /\ pc'[t] \notin Handless
  BY <1>6 DEF Unshown, Handless
<1> QED
  BY <1>4, <1>6, <1>7, <1>8, <1>9, MessageStays

(* A message that was never sent is nowhere yet. *)
LEMMA SendKeepsMsgInv ==
    ASSUME NEW t \in Task, NEW m \in Msg, NEW a \in Agent, LaunchInv, BudgetInv, MsgInv,
           SendMessage(t, m, a)
    PROVE  MsgInv'
<1> DEFINE x == [m |-> m, echo |-> TRUE]
<1>1. ControlType /\ MsgTypes /\ HandsFit /\ QueuedOnce /\ HeldOnce /\ Apart /\ WasSent /\ EchoesFit
  BY DEF LaunchInv, MsgInv
<1>2. PICK M, I : job \in [Task -> JobRec(M, I)]
  BY DEF BudgetInv, JobShape
<1>3. x \in Message /\ x.m = m /\ x # None
  <2>1. x \in Message /\ x.m = m
    BY DEF Message
  <2>2. None \notin Message
    BY ConstantsAssumption DEF Message
  <2> QED
    BY <2>1, <2>2
<1>4. m \notin sent /\ sent' = sent \cup {m} /\ queue' = queue /\ echoes' = echoes
  BY DEF SendMessage, database
<1>6. Frame(t) /\ pc'[t] \in {"enqueue", "lock"} /\ job'[t].msg = x /\ job'[t].ids \in Seq(Msg)
  <2>1. CASE active # None
    <3>1. Goto(t, "enqueue") /\ job' = [job EXCEPT ![t].msg = x]
      BY <2>1 DEF SendMessage
    <3> HIDE DEF x
    <3>2. Frame(t) /\ pc'[t] = "enqueue" /\ job'[t].msg = x /\ job'[t].ids = job[t].ids
      BY <1>1, <1>2, <3>1 DEF Frame, ControlType, JobRec, Goto
    <3> QED
      BY <1>1, <3>2 DEF MsgTypes
  <2>2. CASE active = None
    <3>1. Enter(t, "user", a, x)
      BY <2>2 DEF SendMessage
    <3> HIDE DEF x
    <3> QED
      BY <1>1, <1>2, <3>1, AfterEnter
  <2> QED
    BY <2>1, <2>2
<1> HIDE DEF x
<1>7. \A u \in Task : u # t => job'[u] = job[u] /\ pc'[u] = pc[u]
  BY <1>6 DEF Frame
<1>8. pc'[t] \notin Handless
  BY <1>6 DEF Handless
<1>9. MsgTypes' /\ HandsFit' /\ QueuedOnce'
  BY <1>1, <1>3, <1>4, <1>6, <1>7, <1>8 DEF MsgTypes, HandsFit, QueuedOnce
<1>10. HeldOnce' /\ Apart'
  BY <1>1, <1>3, <1>4, <1>6, <1>7 DEF HeldOnce, Apart, WasSent
<1>11. WasSent' /\ EchoesFit'
  BY <1>1, <1>3, <1>4, <1>6, <1>7 DEF WasSent, EchoesFit
<1> QED
  BY <1>9, <1>10, <1>11 DEF MsgInv

LEMMA RequestKeepsMsgInv ==
    ASSUME LaunchInv, BudgetInv, MsgInv, Request \/ Tick
    PROVE  MsgInv'
<1>1. ControlType /\ MsgTypes /\ HandsFit
  BY DEF LaunchInv, MsgInv
<1>2. PICK M, I : job \in [Task -> JobRec(M, I)]
  BY DEF BudgetInv, JobShape
<1>3. \A t \in Task : job[t].ids \in Seq(Msg) /\ (pc[t] = "idle" => ~Holds(t))
  BY <1>1 DEF MsgTypes, HandsFit, Handless
<1>4. CASE \E t \in Task, m \in Msg, a \in Agent : SendMessage(t, m, a)
  BY <1>4, SendKeepsMsgInv
<1>5. CASE \E t \in Task, a \in Agent : RunThread(t, a)
  BY <1>1, <1>2, <1>5, MessageEnters DEF RunThread, database
<1>6. CASE \E t \in Task : DeleteThread(t)
  <2>1. PICK t \in Task, p \in {"delete_wait", "delete_rows"} :
          /\ Goto(t, p) /\ pc[t] = "idle" /\ job' = job
          /\ sent' = sent /\ queue' = queue /\ echoes' = echoes
    BY <1>6 DEF DeleteThread, database
  <2>2. Frame(t) /\ pc'[t] = p /\ job'[t].msg = None /\ job'[t].ids \in Seq(Msg)
    BY <1>1, <1>3, <2>1 DEF Frame, ControlType, Goto
  <2> QED
    BY <2>1, <2>2, MessageStays
<1>7. CASE (\E n \in 1..MaxLimit : UpdateBudget(n)) \/ StopThread
  <2>1. UNCHANGED <<pc, job, queue, echoes, sent>>
    BY <1>7 DEF UpdateBudget, StopThread, memory, database
  <2> QED
    BY <2>1 DEF MsgInv, MsgTypes, HandsFit, QueuedOnce, HeldOnce, Apart, WasSent, EchoesFit
<1>8. CASE Tick
  <2>1. PICK t \in Task, why \in Scheduled : ListThread(t, why)
    BY <1>8 DEF Tick
  <2>2. /\ Goto(t, "sched") /\ pc[t] = "idle" /\ job' = [job EXCEPT ![t].who = why]
        /\ sent' = sent /\ queue' = queue /\ echoes' = echoes
    BY <2>1 DEF ListThread, database
  <2>3. Frame(t) /\ pc'[t] = "sched" /\ job'[t].msg = job[t].msg /\ job'[t].ids = job[t].ids
    BY <1>1, <1>2, <2>2 DEF Frame, ControlType, Goto, JobRec
  <2> QED
    BY <1>3, <2>2, <2>3, MessageStays
<1> QED
  BY <1>4, <1>5, <1>6, <1>7, <1>8 DEF Request

(* MsgInv is inductive relative to LaunchInv and BudgetInv. *)
LEMMA MsgInvHolds == Spec => []MsgInv
<1>0. NoJob.msg = None /\ NoJob.ids = << >>
  BY DEF NoJob, NewJob
<1>1. Init => MsgInv
  <2> SUFFICES ASSUME Init PROVE MsgInv
    OBVIOUS
  <2>1. \A t \in Task : pc[t] = "idle" /\ job[t].msg = None /\ job[t].ids = << >>
    BY <1>0 DEF Init
  <2>2. queue = << >> /\ sent = {} /\ echoes = [m \in Msg |-> 0]
    BY DEF Init
  <2>0. << >> \in Seq(Msg) /\ << >> \in Seq(Message)
    OBVIOUS
  <2>3. MsgTypes
    <3>1. echoes \in [Msg -> 0..1]
      BY <2>2
    <3> QED
      BY <2>0, <2>1, <2>2, <3>1 DEF MsgTypes
  <2> QED
    BY <2>1, <2>2, <2>3 DEF MsgInv, HandsFit, QueuedOnce, HeldOnce, Apart, WasSent, EchoesFit
<1>2. LaunchInv /\ BudgetInv /\ MsgInv /\ [Next]_vars => MsgInv'
  <2> SUFFICES ASSUME LaunchInv, BudgetInv, MsgInv, [Next]_vars PROVE MsgInv'
    OBVIOUS
  <2>1. CASE Request \/ Tick
    BY <2>1, RequestKeepsMsgInv
  <2>2. CASE \E t \in Task : Step(t) \/ Provider(t)
    BY <2>2, StepKeepsMsgInv, ProviderKeepsMsgInv
  <2>3. CASE (\E a \in Agent : LimitLifts(a)) \/ UNCHANGED vars
    <3>1. UNCHANGED <<pc, job, queue, echoes, sent>>
      BY <2>3 DEF LimitLifts, vars, memory, database
    <3> QED
      BY <3>1 DEF MsgInv, MsgTypes, HandsFit, QueuedOnce, HeldOnce, Apart, WasSent, EchoesFit
  <2>4. CASE Restart
    <3>1. \A t \in Task : pc'[t] = "idle" /\ job'[t].msg = None /\ job'[t].ids = << >>
      BY <1>0, <2>4 DEF Restart
    <3>2. queue' = queue /\ sent' = sent /\ echoes' = echoes
      BY <2>4 DEF Restart
    <3>0. << >> \in Seq(Msg)
      OBVIOUS
    <3>3. MsgTypes'
      BY <3>0, <3>1, <3>2 DEF MsgInv, MsgTypes
    <3> QED
      BY <3>1, <3>2, <3>3 DEF MsgInv, HandsFit, QueuedOnce, HeldOnce, Apart, WasSent, EchoesFit
  <2> QED
    BY <2>1, <2>2, <2>3, <2>4 DEF Next
<1> QED
  BY <1>1, <1>2, LaunchInvHolds, BudgetInvHolds, PTL DEF Spec

(* The columns and flags that no other invariant needs. *)
PlainTypes ==
    /\ exists \in BOOLEAN /\ status \in Status /\ started \in BOOLEAN
    /\ spent \in 0..MaxSpend /\ limited \in [Agent -> BOOLEAN] /\ cancelled \in BOOLEAN

LEMMA StatusEnds ==
    ASSUME NEW t \in Task, NEW o \in Outcome, NEW asked \in BOOLEAN
    PROVE  EndStatus(t, o, asked) \in Status
  BY DEF EndStatus, Outcome, Status

LEMMA StepKeepsPlainTypes ==
    ASSUME NEW t \in Task, PlainTypes, Step(t)
    PROVE  PlainTypes'
<1> USE DEF PlainTypes, Status
<1>0. CASE RunError(t) /\ (UNCHANGED status \/ SaveStatus("paused"))
  BY <1>0 DEF RunError, SaveStatus
<1>1. CASE EnqueueMessage(t) \/ AlreadyRunning(t) \/ NotRunning(t)
  BY <1>1 DEF EnqueueMessage, AlreadyRunning, NotRunning, database
<1>2. CASE Refused(t) \/ PercentageLimited(t) \/ BudgetSpent(t) \/ ThreadGone(t) \/ StartFailed(t)
  BY <1>0, <1>2 DEF Refused, PercentageLimited, BudgetSpent, ThreadGone, StartFailed
<1>3. CASE KnownLimited(t) \/ Preflight(t) \/ Admitted(t) \/ AtCapacity(t) \/ CreateTurn(t)
  BY <1>3 DEF KnownLimited, Preflight, Admitted, AtCapacity, CreateTurn, database
<1>4. CASE StartSession(t) \/ LimitedSwitch(t) \/ LimitedWait(t) \/ RemoveSession(t)
  BY <1>4 DEF StartSession, LimitedSwitch, LimitedWait, RemoveSession, database
<1>5. CASE RequeueInsert(t) \/ RequeueOrder(t) \/ TailStops(t)
  BY <1>5 DEF RequeueInsert, RequeueOrder, TailStops, database
<1>6. CASE FallbackSwitch(t) \/ FallbackWait(t) \/ DrainQueue(t)
  BY <1>6 DEF FallbackSwitch, FallbackWait, SaveStatus, DrainQueue
<1>7. CASE \E b \in BOOLEAN : NetworkLost(t, b) \/ SwitchBackReady(t, b)
  BY <1>7 DEF NetworkLost, ResumeAfterNetwork, SwitchBackReady
<1>8. CASE SkipThread(t) \/ ContinueQueued(t) \/ ContinueAfterNetwork(t) \/ (\E a \in Agent : ContinueAfterReset(t, a))
  BY <1>8 DEF SkipThread, ContinueQueued, ContinueAfterNetwork, ResumeAfterNetwork, ContinueAfterReset,
              database
<1>9. CASE DeleteWait(t) \/ DeleteRows(t) \/ PauseAfterError(t)
  BY <1>9 DEF DeleteWait, DeleteRows, PauseAfterError, SaveStatus, database
<1> QED
  BY <1>1, <1>2, <1>3, <1>4, <1>5, <1>6, <1>7, <1>8, <1>9 DEF Step

LEMMA OthersKeepPlainTypes ==
    ASSUME PlainTypes, [Next]_vars, ~(\E t \in Task : Step(t))
    PROVE  PlainTypes'
<1> USE DEF PlainTypes
<1>1. CASE Request \/ Tick
  BY <1>1 DEF Request, SendMessage, RunThread, DeleteThread, UpdateBudget, StopThread, Tick, ListThread,
              memory, database
<1>2. CASE \E t \in Task : Provider(t)
  <2>1. PICK t \in Task : Provider(t)
    BY <1>2
  <2>2. CASE \E n \in {0, 1}, final \in BOOLEAN : Usage(t, n, final)
    <3>1. PICK n \in {0, 1}, final \in BOOLEAN : Usage(t, n, final)
      BY <2>2
    <3>2. spent' \in 0..MaxSpend
      BY <3>1 DEF Usage, Consumed
    <3>3. cancelled' \in BOOLEAN
      BY <3>1 DEF Usage
    <3> QED
      BY <3>1, <3>2, <3>3 DEF Usage
  <2>3. CASE UsageLimitReached(t) \/ NetworkUnavailable(t)
    BY <2>3 DEF UsageLimitReached, NetworkUnavailable, MarkAgentLimited, SaveStatus, Status
  <2>4. CASE Ends(t)
    <3>1. PICK o \in Outcome, asked \in BOOLEAN : SessionEnded(t, o, asked)
      BY <2>4 DEF Ends
    <3>2. status' \in Status
      BY <3>1, StatusEnds DEF SessionEnded, SaveStatus
    <3> QED
      BY <3>1, <3>2 DEF SessionEnded
  <2> QED
    BY <2>1, <2>2, <2>3, <2>4 DEF Provider
<1>3. CASE \E a \in Agent : LimitLifts(a)
  BY <1>3 DEF LimitLifts, memory
<1>4. CASE Restart
  BY <1>4 DEF Restart, Status
<1>5. CASE UNCHANGED vars
  BY <1>5 DEF vars, memory, database
<1> QED
  BY <1>1, <1>2, <1>3, <1>4, <1>5 DEF Next

LEMMA PlainTypesHold == Spec => []PlainTypes
<1>1. Init => PlainTypes
  <2> SUFFICES ASSUME Init PROVE PlainTypes
    OBVIOUS
  <2>1. spent \in 0..MaxSpend
    BY ConstantsAssumption DEF Init
  <2>2. limited \in [Agent -> BOOLEAN]
    BY DEF Init
  <2>3. exists \in BOOLEAN /\ status \in Status /\ started \in BOOLEAN /\ cancelled \in BOOLEAN
    BY DEF Init, Status
  <2> QED
    BY <2>1, <2>2, <2>3 DEF PlainTypes
<1>2. PlainTypes /\ [Next]_vars => PlainTypes'
  BY StepKeepsPlainTypes, OthersKeepPlainTypes
<1> QED
  BY <1>1, <1>2, PTL DEF Spec

(* A set with no two different members has at most one. *)
LEMMA AtMostOne ==
    ASSUME NEW S, \A x, y \in S : x = y
    PROVE  Cardinality(S) = IF S = {} THEN 0 ELSE 1
<1>1. CASE S = {}
  BY <1>1, FS_EmptySet
<1>2. CASE S # {}
  <2>1. PICK x \in S : TRUE
    BY <1>2
  <2>2. S = {x}
    BY <2>1
  <2> QED
    BY <1>2, <2>2, FS_Singleton
<1> QED
  BY <1>1, <1>2

(* However sends, launches, capacity waits, limits, network losses, requeues,
   fallbacks, deletion and restarts interleave, for any number of tasks and
   messages: a message is in one place at most (a queue row or one task's
   hands), the transcript shows it at most once, and every row is well typed. *)
THEOREM MessagesAreSound == Spec => []MessagesSound
<1>1. LaunchInv /\ BudgetInv /\ MsgInv /\ PlainTypes => MessagesSound
  <2> SUFFICES ASSUME LaunchInv, BudgetInv, MsgInv, PlainTypes PROVE MessagesSound
    OBVIOUS
  <2>1. MsgTypes /\ QueuedOnce /\ HeldOnce /\ Apart /\ EchoesFit /\ ControlType /\ thread \in Thread
    BY DEF MsgInv, LaunchInv, BudgetInv
  <2>2. job \in [Task -> Job]
    <3>1. PICK M, I : job \in [Task -> JobRec(M, I)]
      BY DEF BudgetInv, JobShape
    <3>2. \A t \in Task : job[t] \in Job
      BY <2>1, <3>1 DEF MsgTypes, JobRec, Job, Scheduled
    <3> QED
      BY <3>1, <3>2
  <2>3. TypeOK
    BY <2>1, <2>2 DEF TypeOK, MsgTypes, PlainTypes, ControlType
  <2>4. NoDuplicateMessage
    <3> SUFFICES ASSUME NEW m \in Msg
                 PROVE  Cardinality(QueuedAt(m)) + Cardinality(HeldBy(m)) <= 1
      BY DEF NoDuplicateMessage
    <3>0. DOMAIN queue = 1..Len(queue)
      BY <2>1 DEF MsgTypes
    <3>1. \A i, k \in QueuedAt(m) : i = k
      BY <2>1, <3>0 DEF QueuedAt, QueuedOnce
    <3>2. \A t, u \in HeldBy(m) : t = u
      BY <2>1 DEF HeldBy, HeldOnce
    <3>3. QueuedAt(m) = {} \/ HeldBy(m) = {}
      BY <2>1, <3>0 DEF QueuedAt, HeldBy, Apart
    <3>4. /\ Cardinality(QueuedAt(m)) = IF QueuedAt(m) = {} THEN 0 ELSE 1
          /\ Cardinality(HeldBy(m)) = IF HeldBy(m) = {} THEN 0 ELSE 1
      BY <3>1, <3>2, AtMostOne
    <3> QED
      BY <3>3, <3>4
  <2>5. EchoedOnce
    BY <2>1 DEF EchoesFit, EchoedOnce
  <2> QED
    BY <2>3, <2>4, <2>5 DEF MessagesSound
<1> QED
  BY <1>1, LaunchInvHolds, BudgetInvHolds, MsgInvHolds, PlainTypesHold, PTL
==============================================================================
