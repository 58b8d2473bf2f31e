------------------------- MODULE AgentSessionProofs -------------------------
(***************************************************************************)
(* What a session tells the core of its end, what the provider may do, and *)
(* what is counted of its usage, for every set of sessions, messages, item *)
(* types and requests.  The invariants are layered: types and phases, the  *)
(* requests in flight, then one for each of the three properties.          *)
(***************************************************************************)
EXTENDS AgentSession, FiniteSetTheorems, TLAPS

-----------------------------------------------------------------------------
(* Types.  Lines of the provider's stdout, by what the adapters look at. *)

Replies == {"ok", "bare", "err"}
Responses == [t : {"resp"}, id : Nat, res : Replies]
Plain == [t : {"note"}, m : {"started", "delta", "quota"}]
Items == [t : {"note"}, m : {"item"}, type : ItemTypes, done : BOOLEAN]
Failures == [t : {"note"}, m : {"error"}, msg : Messages]
Verdicts == [t : {"note"}, m : {"completed"}, status : Statuses, msg : Messages]
Reports == [t : {"note"}, m : {"assistant"}, id : {"m1", "m2", ""}, n : {1}]
Results == [t : {"note"}, m : {"result"}, status : Statuses, msg : Messages, n : Nat]
Noise == [t : {"noise"}]
Questions == [t : {"ask"}, id : Nat, m : Methods]

Line == Responses \cup Plain \cup Items \cup Failures \cup Verdicts \cup Reports \cup Results
        \cup Noise \cup Questions

IsResp(l) == l.t = "resp"
IsAsk(l) == l.t = "ask"
IsVerdict(l) == l.t = "note" /\ l.m \in {"completed", "result"}
IsReport(l) == l.t = "note" /\ l.m = "assistant"
IsResult(l) == l.t = "note" /\ l.m = "result"

RunSpec == [transport : {"codex", "docker", "claude"},
            mode : {"none", "appserver", "exec", "claude"},
            perm : {"ReadOnly", "WorkspaceWrite", "Ask", "Autonomous"},
            budget : {"none", "tokens", "weekly"}, resume : BOOLEAN,
            approver : BOOLEAN, deny : SUBSET Denials]
Boxes == {"unset", "read-only", "workspace-write", "danger-full-access", "retained", "plan",
          "bypassPermissions", "manual", "acceptEdits"}
Words == {"empty", "error", "granted", "none", "accept", "acceptForSession", "decline", "cancel",
          "approved", "approved_for_session", "denied", "abort", "allow", "deny"}
Prov == [lines : Nat, turn : {"none", "open", "over"}, sandbox : Boxes, denied : SUBSET Denials,
         spent : Nat, said : Statuses \cup {"none"}, stdin : BOOLEAN, diag : Messages,
         ok : BOOLEAN, results : Nat, steered : Nat]
Use == [seen : SUBSET {"m1", "m2"}, msgs : Nat, counted : Nat]
StreamRun == [cancelled : BOOLEAN, timedOut : BOOLEAN, saw : BOOLEAN,
              last : Statuses \cup {"none"}, input : BOOLEAN, use : Use]

AppPcs == Startup \cup {"turn", "final quota", "terminate", "grace", "ending", "abort"}
StreamPcs == {"stream", "stop", "stop grace", "reap"}
Pcs == AppPcs \cup StreamPcs \cup {"launch", "refused", "done"}

SpecTypes == spec \in RunSpec /\ ValidateRuntimeBudget(spec)
DriverTypes ==
    /\ pc \in Pcs /\ status \in Statuses \cup {"none"}
    /\ reader \in {"off", "on", "eof", "aborted"}
    /\ child \in {"none", "up", "term", "kill", "dead"}
    /\ ctl \in [cancel : BOOLEAN, steers : Nat, gone : BOOLEAN]
TableTypes ==
    /\ wait \in BOOLEAN /\ closed \in BOOLEAN /\ req \in Nat /\ pending \subseteq 1..req
    /\ reply \in Replies \cup {"none"}
    /\ term \in [sent : BOOLEAN, status : Statuses \cup {"none"}]
    /\ inp \subseteq (1..req) \X (Startup \cup {"final quota"})
EventTypes == events \in [before : SUBSET EventTags, ended : 0..1, after : SUBSET EventTags]
ProvTypes == prov \in Prov /\ outp \in Seq(Line) /\ run \in StreamRun
AskTypes ==
    /\ asks \subseteq Nat \X (ApprovalMethods \cup {"question", "can_use_tool"})
    /\ replies \subseteq [id : Nat, m : RequestMethods, d : Decisions \cup {"none"}, v : Words]

(* Which driver runs, and how far the session is. *)
ModeFits ==
    /\ pc \in {"launch", "refused"} <=> spec.mode = "none"
    /\ pc \in AppPcs => AppServer
    /\ pc \in StreamPcs => spec.mode \in {"exec", "claude"}
    /\ reader # "off" <=> AppServer
    /\ spec.mode = "exec" => spec.transport # "claude" /\ spec.budget # "weekly"
    /\ ClaudeRun => spec.transport = "claude"
ChildFits ==
    /\ child = "none" <=> spec.mode = "none"
    /\ pc \in {"ending", "abort"} => child \in {"kill", "dead"}
    /\ pc = "done" => child \in {"kill", "dead"} /\ (child = "dead" \/ AppServer)
Fresh ==
    spec.mode = "none" =>
        /\ ~wait /\ ~closed /\ ~term.sent /\ reply = "none" /\ pending = {} /\ req = 0
        /\ inp = {} /\ outp = << >> /\ asks = {} /\ replies = {}
        /\ prov.turn = "none" /\ prov.said = "none" /\ prov.spent = 0
        /\ run.last = "none" /\ run.use = NoUsage
Undecided ==
    /\ pc \in Startup \cup StreamPcs \cup {"launch", "refused", "turn"} => status = "none"
    /\ pc \notin {"abort", "done"} => events.ended = 0
    /\ ~AppServer \/ events.ended = 0 => events.after = {}

LinesFit ==
    \A i \in DOMAIN outp :
        /\ outp[i].t = "note" =>
             /\ AppServer => outp[i].m \in {"item", "delta", "quota", "error", "completed"}
             /\ ClaudeRun => outp[i].m \in {"assistant", "started", "delta", "result"}
             /\ spec.mode = "exec" => outp[i].m \in {"item", "started", "error", "completed"}
        /\ IsAsk(outp[i]) => (AppServer <=> outp[i].m # "can_use_tool")

SInv == /\ SpecTypes /\ DriverTypes /\ TableTypes /\ EventTypes /\ ProvTypes /\ AskTypes
        /\ LinesFit /\ ModeFits /\ ChildFits /\ Fresh /\ Undecided

(* Requests and the turn. *)
TableFits ==
    /\ reader = "eof" => closed /\ pending = {}
    /\ closed => reader = "eof"
    /\ child = "dead" \/ ~AppServer => inp = {}
    /\ \A q, p \in inp : q[1] = p[1] => q = p
    /\ \A i \in DOMAIN outp : IsResp(outp[i]) =>
          outp[i].id \in 1..req /\ \A q \in inp : q[1] # outp[i].id
OneRequest ==
    pc \in Startup =>
        /\ inp \subseteq {<<req, pc>>} /\ pending \subseteq {req}
        /\ ~wait \/ reply # "none" => inp = {} /\ pending = {}
TurnFits ==
    /\ pc = "turn" => inp = {} /\ pending = {}
    /\ pc \in Startup /\ (pc # "turn/start" \/ ~wait) => prov.turn = "none"
    /\ AppServer /\ prov.turn # "none" => \A q \in inp : q[2] = "final quota"
    /\ \A q, p \in inp : q[2] = "turn/start" => p = q \/ p[2] = "final quota"
RInv == TableFits /\ OneRequest /\ TurnFits

(* The verdict and the status. *)
VerdictsFit ==
    /\ prov.said # "none" => prov.turn = "over"
    /\ \A i \in DOMAIN outp : IsVerdict(outp[i]) =>
          outp[i].status = prov.said /\ prov.turn = "over"
    /\ run.last # "none" => run.last = prov.said
    /\ term.sent /\ term.status = "Completed" => prov.said = "Completed"
TermTold ==
    (term.sent /\ term.status = "Failed" /\ ~ctl.gone /\ prov.said # "Failed") =>
        \/ Sent("Disconnected")
        \/ closed /\ pc # "turn" /\ (pc \in Startup /\ wait => reply = "err")
TermSays == term.sent => term.status # "none"
OInv == VerdictsFit /\ TermTold /\ TermSays /\ CompletedMeansDone /\ FailureExplained

(* Permissions. *)
Boxed ==
    /\ child # "none" => spec.deny \cap {"mcp tool", "server", "files"} \subseteq prov.denied
    /\ ReadOnlyStays
AsksKnown ==
    /\ \A i \in DOMAIN outp : IsAsk(outp[i]) =>
         /\ outp[i].id < prov.lines
         /\ \A k \in DOMAIN outp : IsAsk(outp[k]) /\ outp[k].id = outp[i].id => k = i
         /\ \A a \in asks : a[1] # outp[i].id
         /\ \A r \in replies : r.id # outp[i].id
    /\ \A a \in asks :
         /\ a[1] < prov.lines
         /\ \A b \in asks : b[1] = a[1] => b = a
         /\ \A r \in replies : r.id # a[1]
    /\ \A r \in replies : r.id < prov.lines
KInv == AsksKnown /\ DecisionKept

(* Usage. *)
WeeklyFits ==
    (spec.budget = "weekly" /\ ~ctl.gone) =>
        /\ pc \in {"turn/start", "turn"} => Sent("Quota")
        /\ \A q \in inp : q[2] = "turn/start" => Sent("Quota")
        /\ prov.turn # "none" => Sent("Quota")
        /\ pc \in {"terminate", "grace", "ending", "abort", "done"} =>
             {"FinalQuota", "Error"} \cap events.before # {}

Unread ==
    {i \in DOMAIN outp : /\ IsReport(outp[i])
                         /\ outp[i].id # "" => /\ outp[i].id \notin run.use.seen
                                               /\ \A k \in 1..(i - 1) : IsReport(outp[k]) => outp[k].id # outp[i].id}
ResultLast ==
    /\ outp # << >> /\ IsResult(outp[Len(outp)])
    /\ \A i \in 1..(Len(outp) - 1) : ~IsResult(outp[i])
Counting ==
    ClaudeRun =>
        /\ run.last = "none" => run.use.counted = run.use.msgs
        /\ run.last # "none" => outp = << >> /\ prov.turn = "over" /\ run.use.counted = prov.spent
        /\ run.last = "none" /\ prov.turn # "over" => prov.spent = run.use.msgs + Cardinality(Unread)
        /\ run.last = "none" /\ prov.turn = "over" => 
             /\ prov.spent >= run.use.msgs + Cardinality(Unread)
             /\ ResultLast /\ outp[Len(outp)].n = prov.spent
        /\ \A i \in DOMAIN outp : IsResult(outp[i]) => prov.turn = "over"

-----------------------------------------------------------------------------
(* What each group of steps leaves alone. *)

LEMMA DriverFrame ==
    ASSUME DriverStep \/ DriverTimer
    PROVE  UNCHANGED <<spec, term, outp, asks, replies, run>>
<1>1. CASE \E m \in Startup : StartupRequest(m) \/ StartupAnswered(m)
  BY <1>1 DEF StartupRequest, StartupAnswered
<1>2. CASE StartupCancelled \/ TurnTerminal \/ TurnSteer \/ TurnCancelled
  BY <1>2 DEF StartupCancelled, TurnTerminal, TurnSteer, TurnCancelled
<1>3. CASE FinalQuotaRequest \/ FinalQuotaAnswered
  BY <1>3 DEF FinalQuotaRequest, FinalQuotaAnswered
<1>4. CASE TearDown \/ GraceOver \/ SendEnded \/ AbortTasks
  BY <1>4 DEF TearDown, GraceOver, SendEnded, AbortTasks
<1>5. CASE DriverTimer
  BY <1>5 DEF DriverTimer, StartupTimeout, TurnTimeout, FinalQuotaTimeout
<1> QED
  BY <1>1, <1>2, <1>3, <1>4, <1>5 DEF DriverStep

LEMMA StreamFrame ==
    ASSUME StreamStep
    PROVE  UNCHANGED <<spec, wait, req, reply, pending, closed, reader, term, inp, replies>>
<1>1. CASE StreamLine \/ StreamEof \/ StreamSteer
  BY <1>1 DEF StreamLine, StreamEof, StreamSteer, rpcVars
<1>2. CASE StreamSteerFails \/ StreamCut
  BY <1>2 DEF StreamSteerFails, StreamCut, rpcVars
<1>3. CASE StreamFinish
  BY <1>3 DEF StreamFinish, StreamTerminate, StreamGrace, StreamEnd, rpcVars
<1> QED
  BY <1>1, <1>2, <1>3 DEF StreamStep, StreamLoop

LEMMA ProviderFrame ==
    ASSUME Provider \/ Exit
    PROVE  UNCHANGED <<spec, pc, wait, req, reply, pending, closed, reader, term, status, ctl,
                       asks, replies, run, events>>
<1>1. CASE \E q \in inp, res \in {"ok", "bare", "err"} : Answer(q, res)
  BY <1>1 DEF Answer, rpcVars
<1>2. CASE Report \/ ReportClaude \/ EndTurn \/ EndClaude \/ \E m \in Methods : Ask(m)
  BY <1>2 DEF Report, ReportClaude, EndTurn, EndClaude, Ask, Write, rpcVars
<1>3. CASE Exit
  BY <1>3 DEF Exit, rpcVars
<1> QED
  BY <1>1, <1>2, <1>3 DEF Provider

LEMMA ReaderFrame ==
    ASSUME ReaderStep
    PROVE  UNCHANGED <<spec, pc, wait, req, status, ctl, child, prov, inp, run>>
  BY DEF ReaderStep, ReadLine, ReadEof

LEMMA HandleFrame ==
    ASSUME Cancel \/ Steer \/ DropReceiver
    PROVE  UNCHANGED <<spec, pc, wait, req, reply, pending, closed, reader, term, status, child,
                       prov, inp, outp, asks, replies, run, events>>
  BY DEF Cancel, Steer, DropReceiver, rpcVars

LEMMA LaunchFrame ==
    ASSUME Launch \/ SpawnFails
    PROVE  /\ pc = "launch"
           /\ UNCHANGED <<wait, req, reply, pending, closed, term, status, ctl, inp, outp, asks,
                          replies, events>>
  BY DEF Launch, LaunchAppServer, AppServerUnavailable, LaunchDocker, LaunchClaude, SpawnFails,
         rpcVars

-----------------------------------------------------------------------------
(* Lines and events. *)

LEMMA LineKinds ==
    ASSUME NEW l \in Line
    PROVE  /\ l.t \in {"resp", "note", "noise", "ask"}
           /\ IsResp(l) => l.id \in Nat /\ l.res \in Replies
           /\ IsAsk(l) => l.id \in Nat /\ l.m \in Methods
           /\ l.t = "note" /\ l.m = "error" => l.msg \in Messages
           /\ IsVerdict(l) => l.status \in Statuses /\ l.msg \in Messages
           /\ IsReport(l) => l.id \in {"m1", "m2", ""} /\ l.n = 1
           /\ IsResult(l) => l.n \in Nat
           /\ l.t = "note" /\ l.m = "item" => l.done \in BOOLEAN
<1> USE DEF IsResp, IsAsk, IsVerdict, IsReport, IsResult
<1>1. CASE l \in Responses
  BY <1>1 DEF Responses
<1>2. CASE l \in Plain
  BY <1>2 DEF Plain
<1>3. CASE l \in Items
  BY <1>3 DEF Items
<1>4. CASE l \in Failures
  BY <1>4 DEF Failures
<1>5. CASE l \in Verdicts
  BY <1>5 DEF Verdicts
<1>6. CASE l \in Reports
  BY <1>6 DEF Reports
<1>7. CASE l \in Results
  BY <1>7 DEF Results
<1>8. CASE l \in Noise
  BY <1>8 DEF Noise
<1>9. CASE l \in Questions
  BY <1>9 DEF Questions
<1> QED
  BY <1>1, <1>2, <1>3, <1>4, <1>5, <1>6, <1>7, <1>8, <1>9 DEF Line

(* A line written goes to the end of stdout, a line read leaves its front. *)
LEMMA Appended ==
    ASSUME ProvTypes, NEW l \in Line, outp' = Append(outp, l)
    PROVE  /\ outp' \in Seq(Line) /\ Len(outp') = Len(outp) + 1 /\ DOMAIN outp = 1..Len(outp)
           /\ Len(outp) \in Nat /\ DOMAIN outp' = 1..Len(outp) + 1
           /\ \A i \in DOMAIN outp : i \in DOMAIN outp' /\ outp'[i] = outp[i]
           /\ outp'[Len(outp) + 1] = l
           /\ \A i \in DOMAIN outp' : i \in DOMAIN outp \/ i = Len(outp) + 1
  BY DEF ProvTypes

LEMMA TakenLine ==
    ASSUME ProvTypes, outp # << >>, outp' = Tail(outp)
    PROVE  /\ outp' \in Seq(Line) /\ Len(outp') = Len(outp) - 1 /\ DOMAIN outp = 1..Len(outp)
           /\ Len(outp) \in Nat \ {0} /\ DOMAIN outp' = 1..(Len(outp) - 1)
           /\ Head(outp) \in Line /\ Head(outp) = outp[1] /\ 1 \in DOMAIN outp
           /\ \A i \in DOMAIN outp' : i \in Nat /\ i + 1 \in DOMAIN outp /\ outp'[i] = outp[i + 1]
  BY DEF ProvTypes

(* What a step that sends es does to the events. *)
Tells(es) ==
    /\ events'.ended = events.ended
    /\ events.before \subseteq events'.before /\ events.after \subseteq events'.after
    /\ events.ended = 0 => events'.after = events.after /\ (ctl.gone \/ es \subseteq events'.before)
    /\ ctl.gone \/ es \subseteq events'.before \cup events'.after

LEMMA EmitTells ==
    ASSUME EventTypes, NEW es \in SUBSET EventTags, Emit(es)
    PROVE  EventTypes' /\ Tells(es)
  BY DEF EventTypes, Emit, Tells

LEMMA SilenceTells ==
    ASSUME EventTypes, UNCHANGED events
    PROVE  EventTypes' /\ Tells({})
  BY DEF EventTypes, Tells

LEMMA OnceEnded ==
    ASSUME NEW e \in [before : SUBSET EventTags, ended : 0..1, after : SUBSET EventTags], e.ended = 0,
           NEW es \in SUBSET EventTags, NEW f, f = [e EXCEPT !.before = @ \cup es, !.ended = @ + 1]
    PROVE  /\ f \in [before : SUBSET EventTags, ended : 0..1, after : SUBSET EventTags]
           /\ f.before = e.before \cup es /\ f.after = e.after
<1>1. f.before = e.before \cup es /\ f.after = e.after /\ f.ended = e.ended + 1
  OBVIOUS
<1>2. f.ended \in 0..1
  BY <1>1
<1>3. f = [before |-> f.before, ended |-> f.ended, after |-> f.after]
  OBVIOUS
<1> QED
  BY <1>1, <1>2, <1>3

LEMMA EndTells ==
    ASSUME EventTypes, events.ended = 0, NEW es \in SUBSET EventTags, EmitEnded(es)
    PROVE  /\ EventTypes' /\ events.before \subseteq events'.before /\ events'.after = events.after
           /\ ctl.gone \/ es \subseteq events'.before
<1>1. CASE ctl.gone
  BY <1>1 DEF EventTypes, EmitEnded
<1>2. CASE ~ctl.gone
  <2>1. events' = [events EXCEPT !.before = @ \cup es, !.ended = @ + 1]
    BY <1>2 DEF EmitEnded
  <2>2. /\ EventTypes' /\ events'.before = events.before \cup es /\ events'.after = events.after
    BY <2>1, OnceEnded DEF EventTypes
  <2> QED
    BY <2>2
<1> QED
  BY <1>1, <1>2

LEMMA ErrorTags ==
    ASSUME NEW m \in Messages
    PROVE  /\ ErrorOrLimit(m) \in SUBSET EventTags
           /\ m.words => \E e \in {"Error", "Disconnected", "Limit", "LimitUntil", "Network"} :
                            e \in ErrorOrLimit(m)
  BY DEF Messages, ErrorOrLimit, LimitEvent, EventTags

LEMMA ItemTags ==
    ASSUME NEW type, NEW done \in BOOLEAN
    PROVE  MapItem(type, done) \in SUBSET EventTags /\ ParseItem(type, done) \in SUBSET EventTags
  BY DEF MapItem, ParseItem, EventTags

LEMMA ExecTags ==
    ASSUME NEW l \in Line, l.t = "note", l.m \in {"item", "started", "error", "completed"}
    PROVE  ExecEvents(l) \in SUBSET EventTags
<1>1. CASE l.m = "item"
  BY <1>1, LineKinds, ItemTags DEF ExecEvents
<1>2. CASE l.m = "started"
  BY <1>2 DEF ExecEvents, EventTags
<1>3. CASE l.m = "error"
  BY <1>3, LineKinds, ErrorTags DEF ExecEvents
<1>4. CASE l.m = "completed"
  <2>1. ErrorOrLimit(l.msg) \in SUBSET EventTags
    BY <1>4, LineKinds, ErrorTags DEF IsVerdict
  <2> QED
    BY <1>4, <2>1 DEF ExecEvents, EventTags
<1> QED
  BY <1>1, <1>2, <1>3, <1>4

LEMMA ClaudeTags ==
    ASSUME NEW l \in Line, l.t = "note", l.m \in {"assistant", "started", "delta", "result"}
    PROVE  ClaudeEvents(l) \in SUBSET EventTags
<1>0. \A n : TokenUsageEvent(n) \in SUBSET EventTags
  BY DEF TokenUsageEvent, EventTags
<1>1. CASE l.m = "assistant"
  <2>1. MapItem("agentMessage", TRUE) \in SUBSET EventTags
    BY ItemTags
  <2> QED
    BY <1>0, <1>1, <2>1 DEF ClaudeEvents
<1>2. CASE l.m \in {"started", "delta"}
  BY <1>2 DEF ClaudeEvents, EventTags
<1>3. CASE l.m = "result"
  <2>1. ErrorOrLimit(l.msg) \in SUBSET EventTags
    BY <1>3, LineKinds, ErrorTags DEF IsVerdict
  <2> QED
    BY <1>0, <1>3, <2>1 DEF ClaudeEvents
<1> QED
  BY <1>1, <1>2, <1>3

-----------------------------------------------------------------------------
(* Types and phases: SInv is inductive. *)

LEMMA SInvInit == Init => SInv
<1> SUFFICES ASSUME Init PROVE SInv
  OBVIOUS
<1>1. SpecTypes
  BY SessionAssumption DEF Init, SpecTypes, SessionSpec, RunSpec, ValidateRuntimeBudget
<1>2. spec.mode = "none"
  BY SessionAssumption DEF Init, SessionSpec
<1>3. DriverTypes /\ TableTypes /\ EventTypes /\ AskTypes
  <2>1. DriverTypes
    BY DEF Init, DriverTypes, Pcs
  <2>2. TableTypes
    BY DEF Init, TableTypes
  <2>3. EventTypes
    BY DEF Init, EventTypes
  <2>4. AskTypes
    BY DEF Init, AskTypes
  <2> QED
    BY <2>1, <2>2, <2>3, <2>4
<1>4. ProvTypes
  <2>1. NoMessage \in Messages
    BY DEF NoMessage, Messages
  <2>2. prov \in Prov
    BY <2>1 DEF Init, Prov, Boxes
  <2>3. run \in StreamRun
    BY DEF Init, StreamRun, Use, NoUsage
  <2>4. << >> \in Seq(Line)
    OBVIOUS
  <2> QED
    BY <2>2, <2>3, <2>4 DEF Init, ProvTypes
<1>5. LinesFit /\ ModeFits /\ ChildFits /\ Fresh /\ Undecided
  BY <1>2 DEF Init, LinesFit, ModeFits, ChildFits, Fresh, Undecided, AppServer, ClaudeRun,
              AppPcs, StreamPcs, Startup
<1> QED
  BY <1>1, <1>3, <1>4, <1>5 DEF SInv

(* A process is started with what the session was asked for. *)
LEMMA LaunchKeepsSInv ==
    ASSUME SInv, Launch \/ SpawnFails
    PROVE  SInv'
<1>1. /\ spec \in RunSpec /\ spec.mode = "none" /\ ValidateRuntimeBudget(spec)
      /\ pc = "launch" /\ prov \in Prov /\ run \in StreamRun /\ outp = << >>
      /\ UNCHANGED <<wait, req, reply, pending, closed, term, status, ctl, inp, outp, asks,
                     replies, events>>
  BY LaunchFrame DEF SInv, SpecTypes, ModeFits, ProvTypes, Fresh
<1>2. TableTypes' /\ EventTypes' /\ AskTypes'
  BY <1>1 DEF SInv, TableTypes, EventTypes, AskTypes
<1>3. /\ CodexPolicy(spec.deny) \in SUBSET Denials /\ ClaudePolicy(spec.deny) \in SUBSET Denials
      /\ \A p, b : ExecSandbox(p, b) \in Boxes /\ ClaudeMode(p, b) \in Boxes
  <2>1. CodexPolicy(spec.deny) \in SUBSET Denials /\ ClaudePolicy(spec.deny) \in SUBSET Denials
    BY <1>1 DEF CodexPolicy, ClaudePolicy, Denials, RunSpec
  <2>2. \A p, b : ExecSandbox(p, b) \in Boxes
    BY DEF ExecSandbox, Boxes
  <2>3. \A p, b : ClaudeMode(p, b) \in Boxes
    BY DEF ClaudeMode, Boxes
  <2> QED
    BY <2>1, <2>2, <2>3
<1>4. CASE LaunchAppServer
  <2>1. /\ spec' = [spec EXCEPT !.mode = "appserver"] /\ run' = run
        /\ pc' = "initialize" /\ reader' = "on" /\ child' = "up"
        /\ prov' = [prov EXCEPT !.stdin = TRUE, !.sandbox = prov.sandbox,
                                !.denied = CodexPolicy(spec.deny), !.turn = "none"]
    BY <1>4 DEF LaunchAppServer, Spawn
  <2>2. SpecTypes' /\ spec'.mode = "appserver"
    BY <1>1, <2>1 DEF SpecTypes, RunSpec, ValidateRuntimeBudget
  <2>3. ProvTypes'
    BY <1>1, <1>3, <2>1 DEF SInv, ProvTypes, Prov
  <2> QED
    BY <1>1, <1>2, <2>1, <2>2, <2>3
    DEF SInv, DriverTypes, LinesFit, ModeFits, ChildFits, Fresh, Undecided, AppServer, ClaudeRun,
        Pcs, AppPcs, StreamPcs, Startup
<1>5. CASE AppServerUnavailable \/ LaunchDocker
  <2>1. CASE spec' = [spec EXCEPT !.mode = "exec"] /\ pc' = "stream"
    <3>1. /\ run' = run /\ reader' = reader /\ child' = "up" /\ spec.transport # "claude"
          /\ spec.budget # "weekly"
          /\ \E b \in BOOLEAN :
               prov' = [prov EXCEPT !.stdin = FALSE, !.sandbox = ExecSandbox(spec.perm, b),
                                    !.denied = CodexPolicy(spec.deny), !.turn = "open"]
      BY <1>1, <1>5, <2>1 DEF AppServerUnavailable, LaunchDocker, Spawn, ValidateRuntimeBudget
    <3>2. SpecTypes' /\ spec'.mode = "exec" /\ spec'.transport # "claude" /\ spec'.budget # "weekly"
      BY <1>1, <2>1, <3>1 DEF SpecTypes, RunSpec, ValidateRuntimeBudget
    <3>3. ProvTypes'
      <4>1. PICK b \in BOOLEAN :
              prov' = [prov EXCEPT !.stdin = FALSE, !.sandbox = ExecSandbox(spec.perm, b),
                                   !.denied = CodexPolicy(spec.deny), !.turn = "open"]
        BY <3>1
      <4>2. ExecSandbox(spec.perm, b) \in Boxes
        BY <1>3
      <4> QED
        BY <1>1, <1>3, <3>1, <4>1, <4>2 DEF SInv, ProvTypes, Prov
    <3> QED
      BY <1>1, <1>2, <2>1, <3>1, <3>2, <3>3
      DEF SInv, DriverTypes, LinesFit, ModeFits, ChildFits, Fresh, Undecided, AppServer, ClaudeRun,
          Pcs, AppPcs, StreamPcs, Startup
  <2>2. CASE pc' = "refused" /\ UNCHANGED <<spec, child, prov>>
    <3>1. run' = run /\ reader' = reader
      BY <1>5 DEF AppServerUnavailable, LaunchDocker
    <3> QED
      BY <1>1, <1>2, <2>2, <3>1
      DEF SInv, SpecTypes, ProvTypes, DriverTypes, LinesFit, ModeFits, ChildFits, Fresh, Undecided,
          AppServer, ClaudeRun, Pcs, AppPcs, StreamPcs, Startup
  <2> QED
    BY <1>5, <2>1, <2>2 DEF AppServerUnavailable, LaunchDocker
<1>6. CASE LaunchClaude
  <2>1. /\ spec' = [spec EXCEPT !.mode = "claude"] /\ spec.transport = "claude"
        /\ pc' = "stream" /\ reader' = reader /\ child' = "up"
        /\ run' = [run EXCEPT !.input = StreamInput(spec)]
        /\ prov' = [prov EXCEPT !.stdin = StreamInput(spec),
                                !.sandbox = ClaudeMode(spec.perm, spec.approver),
                                !.denied = ClaudePolicy(spec.deny), !.turn = "open"]
    BY <1>6 DEF LaunchClaude, Spawn
  <2>2. SpecTypes' /\ spec'.mode = "claude" /\ spec'.transport = "claude"
    BY <1>1, <2>1 DEF SpecTypes, RunSpec, ValidateRuntimeBudget
  <2>3. StreamInput(spec) \in BOOLEAN
    BY DEF StreamInput
  <2>4. ProvTypes' /\ run'.last = run.last /\ run'.use = run.use
    BY <1>1, <1>3, <2>1, <2>3 DEF SInv, ProvTypes, Prov, StreamRun
  <2> QED
    BY <1>1, <1>2, <2>1, <2>2, <2>4
    DEF SInv, DriverTypes, LinesFit, ModeFits, ChildFits, Fresh, Undecided, AppServer, ClaudeRun,
        Pcs, AppPcs, StreamPcs, Startup
<1>7. CASE SpawnFails
  <2>1. pc' = "refused" /\ UNCHANGED <<spec, reader, child, prov, run>>
    BY <1>7 DEF SpawnFails
  <2> QED
    BY <1>1, <1>2, <2>1
    DEF SInv, SpecTypes, ProvTypes, DriverTypes, LinesFit, ModeFits, ChildFits, Fresh, Undecided,
        AppServer, ClaudeRun, Pcs, AppPcs, StreamPcs, Startup
<1> QED
  BY <1>4, <1>5, <1>6, <1>7 DEF Launch

(* The app-server driver: what is left to show of one of its steps. *)
LEMMA DriverPart ==
    ASSUME SInv, DriverStep \/ DriverTimer, pc \in AppPcs, TableTypes', EventTypes', prov' \in Prov,
           DriverTypes', pc' \in AppPcs \cup {"done"}, reader' # "off", Undecided',
           child' # "none", pc' \in {"ending", "abort", "done"} => child' \in {"kill", "dead"}
    PROVE  SInv'
<1>1. UNCHANGED <<spec, term, outp, asks, replies, run>> /\ AppServer
  BY DriverFrame DEF SInv, ModeFits
<1>2. SpecTypes' /\ AskTypes' /\ ProvTypes' /\ LinesFit'
  BY <1>1 DEF SInv, SpecTypes, AskTypes, ProvTypes, LinesFit, AppServer, ClaudeRun
<1>3. ModeFits' /\ ChildFits' /\ Fresh'
  BY <1>1 DEF SInv, ModeFits, ChildFits, Fresh, AppServer, ClaudeRun, AppPcs, StreamPcs, Startup
<1> QED
  BY <1>2, <1>3 DEF SInv

(* A request is registered under a new id. *)
LEMMA NewId ==
    ASSUME NEW n \in Nat, NEW P \in SUBSET (1..n), NEW R, NEW m \in R, NEW I \in SUBSET ((1..n) \X R)
    PROVE  /\ n + 1 \in Nat /\ P \cup {n + 1} \in SUBSET (1..(n + 1))
           /\ I \in SUBSET ((1..(n + 1)) \X R)
           /\ I \cup {<<n + 1, m>>} \in SUBSET ((1..(n + 1)) \X R)
<1>1. 1..n \subseteq 1..(n + 1) /\ n + 1 \in 1..(n + 1)
  OBVIOUS
<1> QED
  BY <1>1

LEMMA RegisterTypes ==
    ASSUME SInv, NEW m \in Startup \cup {"final quota"}, Register(m), UNCHANGED term
    PROVE  TableTypes'
<1>1. /\ req' = req + 1 /\ reply' = "none" /\ pending' = pending \cup {req + 1}
      /\ (inp' = inp \/ inp' = inp \cup {<<req + 1, m>>}) /\ wait' = TRUE /\ closed' = closed
  BY DEF Register
<1>2. TableTypes
  BY DEF SInv
<1>3. req \in Nat /\ pending \in SUBSET (1..req) /\ inp \in SUBSET ((1..req) \X (Startup \cup {"final quota"}))
  BY <1>2 DEF TableTypes
<1> DEFINE R == Startup \cup {"final quota"}
<1>5. /\ req + 1 \in Nat /\ pending \cup {req + 1} \in SUBSET (1..(req + 1))
      /\ inp \in SUBSET ((1..(req + 1)) \X R) /\ inp \cup {<<req + 1, m>>} \in SUBSET ((1..(req + 1)) \X R)
  <2> HIDE DEF R
  <2>1. m \in R /\ inp \in SUBSET ((1..req) \X R)
    BY <1>3 DEF R
  <2> QED
    BY <1>3, <2>1, NewId
<1>4. /\ req' \in Nat /\ pending' \in SUBSET (1..req')
      /\ inp' \in SUBSET ((1..req') \X (Startup \cup {"final quota"}))
  BY <1>1, <1>5
<1> QED
  BY <1>1, <1>2, <1>4 DEF TableTypes

LEMMA DriverKeepsSInv ==
    ASSUME SInv, DriverStep \/ DriverTimer
    PROVE  SInv'
<1>1. /\ DriverTypes /\ TableTypes /\ EventTypes /\ prov \in Prov /\ Undecided /\ ModeFits /\ ChildFits
      /\ UNCHANGED <<spec, term, outp, asks, replies, run>>
  BY DriverFrame DEF SInv, ProvTypes
<1> USE DEF DriverTypes, Undecided, Pcs, AppPcs, StreamPcs, Startup, AppServer
<1>2. CASE \E m \in Startup : StartupRequest(m)
  <2>1. PICK m \in Startup : StartupRequest(m)
    BY <1>2
  <2>2. CASE Register(m)
    <3>1. TableTypes'
      BY <1>1, <2>2, RegisterTypes
    <3> QED
      BY <1>1, <2>1, <2>2, <3>1, SilenceTells, DriverPart DEF StartupRequest, Register, ModeFits, ChildFits
  <2>3. CASE StartupFails(m) /\ UNCHANGED <<rpcVars, inp>>
    <3>1. TableTypes'
      BY <1>1, <2>3 DEF TableTypes, rpcVars
    <3>2. EventTypes' /\ \E es : Tells(es)
      BY <1>1, <2>3, SilenceTells, EmitTells DEF StartupFails, EventTags
    <3> QED
      BY <1>1, <2>1, <2>3, <3>1, <3>2, DriverPart
      DEF StartupRequest, StartupFails, Decide, Statuses, Tells, ModeFits, ChildFits
  <2> QED
    BY <2>1, <2>2, <2>3 DEF StartupRequest
<1>3. CASE \E m \in Startup : StartupAnswered(m)
  <2>1. PICK m \in Startup : StartupAnswered(m)
    BY <1>3
  <2>2. TableTypes'
    BY <1>1, <2>1 DEF StartupAnswered, TableTypes, tableVars
  <2>3. EventTypes' /\ \E es : Tells(es)
    <3>1. UNCHANGED events \/ \E es \in SUBSET EventTags : Emit(es)
      <4>1. CASE Emit(CASE m \in {"thread/resume", "thread/start"} -> {"Started"}
                        [] m = "quota" -> {"Quota"}
                        [] OTHER -> {})
        BY <4>1 DEF EventTags
      <4> QED
        BY <2>1, <4>1 DEF StartupAnswered, StartupFails, EventTags
    <3> QED
      BY <1>1, <3>1, SilenceTells, EmitTells
  <2>4. \/ status' = status /\ pc' \in Startup \cup {"turn"}
        \/ status' = "Failed" /\ pc' = "final quota"
    <3>1. AfterRequest(m) \in Startup \cup {"turn"}
      BY <2>1 DEF AfterRequest
    <3> QED
      BY <2>1, <3>1 DEF StartupAnswered, StartupFails, Decide
  <2> QED
    BY <1>1, <2>1, <2>2, <2>3, <2>4, DriverPart
    DEF StartupAnswered, Statuses, Tells, ModeFits, ChildFits
<1>4. CASE StartupCancelled \/ TurnTerminal \/ TurnCancelled
  <2>1. TableTypes' /\ EventTypes'
    BY <1>1, <1>4 DEF StartupCancelled, TurnTerminal, TurnCancelled, TableTypes, tableVars, EventTypes
  <2>2. term.status \in Statuses \cup {"none"}
    BY <1>1 DEF TableTypes
  <2> QED
    BY <1>1, <1>4, <2>1, <2>2, DriverPart
    DEF StartupCancelled, TurnTerminal, TurnCancelled, Decide, Statuses, InStartup, ModeFits, ChildFits
<1>5. CASE TurnSteer
  <2>1. TableTypes' /\ EventTypes'
    BY <1>1, <1>5 DEF TurnSteer, TableTypes, rpcVars, EventTypes
  <2>2. prov' \in Prov
    BY <1>1, <1>5 DEF TurnSteer, Prov
  <2>3. ctl' \in [cancel : BOOLEAN, steers : Nat, gone : BOOLEAN]
    BY <1>1, <1>5 DEF TurnSteer
  <2> QED
    BY <1>1, <1>5, <2>1, <2>2, <2>3, DriverPart DEF TurnSteer, ModeFits, ChildFits
<1>6. CASE StartupTimeout \/ TurnTimeout
  <2>1. TableTypes'
    BY <1>1, <1>6 DEF StartupTimeout, TurnTimeout, TableTypes, tableVars
  <2>2. EventTypes' /\ \E es : Tells(es)
    BY <1>1, <1>6, EmitTells DEF StartupTimeout, TurnTimeout, EventTags
  <2> QED
    BY <1>1, <1>6, <2>1, <2>2, DriverPart
    DEF StartupTimeout, TurnTimeout, Decide, Statuses, InStartup, Tells, ModeFits, ChildFits
<1>7. CASE FinalQuotaRequest
  <2>1. CASE Register("final quota")
    <3>1. TableTypes'
      BY <1>1, <2>1, RegisterTypes
    <3> QED
      BY <1>1, <1>7, <2>1, <3>1, SilenceTells, DriverPart
      DEF FinalQuotaRequest, Register, ModeFits, ChildFits
  <2>2. CASE pc' = "terminate" /\ Emit(NoReading) /\ UNCHANGED <<rpcVars, status, inp>>
    <3>1. TableTypes'
      BY <1>1, <2>2 DEF TableTypes, rpcVars
    <3>2. EventTypes' /\ \E es : Tells(es)
      BY <1>1, <2>2, EmitTells DEF NoReading, EventTags
    <3> QED
      BY <1>1, <1>7, <2>2, <3>1, <3>2, DriverPart DEF FinalQuotaRequest, Tells, ModeFits, ChildFits
  <2> QED
    BY <1>7, <2>1, <2>2 DEF FinalQuotaRequest
<1>8. CASE FinalQuotaAnswered \/ FinalQuotaTimeout
  <2>1. TableTypes'
    BY <1>1, <1>8 DEF FinalQuotaAnswered, FinalQuotaTimeout, TableTypes, tableVars
  <2>2. EventTypes' /\ \E es : Tells(es)
    <3>1. \E es \in SUBSET EventTags : Emit(es)
      BY <1>8 DEF FinalQuotaAnswered, FinalQuotaTimeout, NoReading, EventTags
    <3> QED
      BY <1>1, <3>1, EmitTells
  <2> QED
    BY <1>1, <1>8, <2>1, <2>2, DriverPart
    DEF FinalQuotaAnswered, FinalQuotaTimeout, Tells, ModeFits, ChildFits
<1>9. CASE TearDown \/ GraceOver
  <2>1. TableTypes' /\ EventTypes'
    BY <1>1, <1>9 DEF TearDown, GraceOver, TableTypes, rpcVars, EventTypes
  <2> QED
    BY <1>1, <1>9, <2>1, DriverPart DEF TearDown, GraceOver, Terminate, Kill, ModeFits, ChildFits
<1>10. CASE SendEnded
  <2>1. TableTypes'
    BY <1>1, <1>10 DEF SendEnded, TableTypes, rpcVars
  <2>3. pc = "ending" /\ events.ended = 0
    BY <1>1, <1>10 DEF SendEnded
  <2>4. EventTypes' /\ events'.after = events.after
    BY <1>1, <1>10, <2>3, EndTells DEF SendEnded
  <2> QED
    BY <1>1, <1>10, <2>1, <2>3, <2>4, DriverPart DEF SendEnded, ModeFits, ChildFits
<1>11. CASE AbortTasks
  <2>1. TableTypes' /\ EventTypes'
    BY <1>1, <1>11 DEF AbortTasks, TableTypes, rpcVars, EventTypes
  <2> QED
    BY <1>1, <1>11, <2>1, DriverPart DEF AbortTasks, ModeFits, ChildFits
<1> QED
  BY <1>2, <1>3, <1>4, <1>5, <1>6, <1>7, <1>8, <1>9, <1>10, <1>11 DEF DriverStep, DriverTimer

(* The core's handle. *)
LEMMA HandleKeepsSInv ==
    ASSUME SInv, Cancel \/ Steer \/ DropReceiver
    PROVE  SInv'
<1>1. ctl' \in [cancel : BOOLEAN, steers : Nat, gone : BOOLEAN]
  <2>1. ctl \in [cancel : BOOLEAN, steers : Nat, gone : BOOLEAN]
    BY DEF SInv, DriverTypes
  <2>2. \/ ctl' = [ctl EXCEPT !.cancel = TRUE] \/ ctl' = [ctl EXCEPT !.steers = @ + 1]
        \/ ctl' = [ctl EXCEPT !.gone = TRUE]
    BY DEF Cancel, Steer, DropReceiver
  <2>3. ctl.steers + 1 \in Nat
    BY <2>1
  <2>4. CASE ctl' = [ctl EXCEPT !.steers = @ + 1]
    BY <2>1, <2>3, <2>4
  <2>5. CASE ctl' = [ctl EXCEPT !.cancel = TRUE] \/ ctl' = [ctl EXCEPT !.gone = TRUE]
    BY <2>1, <2>5
  <2> QED
    BY <2>2, <2>4, <2>5
<1>2. UNCHANGED <<spec, pc, wait, req, reply, pending, closed, reader, term, status, child,
                  prov, inp, outp, asks, replies, run, events>>
  BY HandleFrame
<1>3. SpecTypes' /\ DriverTypes' /\ TableTypes' /\ EventTypes' /\ ProvTypes' /\ AskTypes'
  BY <1>1, <1>2 DEF SInv, SpecTypes, DriverTypes, TableTypes, EventTypes, ProvTypes, AskTypes
<1>4. LinesFit' /\ ModeFits' /\ ChildFits' /\ Fresh' /\ Undecided'
  BY <1>2 DEF SInv, LinesFit, ModeFits, ChildFits, Fresh, Undecided, AppServer, ClaudeRun
<1> QED
  BY <1>3, <1>4 DEF SInv

(* The reader. *)
LEMMA ReaderPart ==
    ASSUME SInv, ReaderStep, reader = "on", reader' \in {"on", "eof"}, TableTypes', EventTypes',
           NEW es, Tells(es), AskTypes', outp' \in Seq(Line), LinesFit'
    PROVE  SInv'
<1>1. UNCHANGED <<spec, pc, wait, req, status, ctl, child, prov, inp, run>> /\ AppServer
  BY ReaderFrame DEF SInv, ModeFits
<1>2. SpecTypes' /\ DriverTypes' /\ ProvTypes'
  BY <1>1 DEF SInv, SpecTypes, DriverTypes, ProvTypes
<1>3. ModeFits' /\ ChildFits' /\ Fresh' /\ Undecided'
  BY <1>1 DEF SInv, ModeFits, ChildFits, Fresh, Undecided, Tells, AppServer, ClaudeRun
<1> QED
  BY <1>2, <1>3 DEF SInv

LEMMA NoteTells ==
    ASSUME SInv, NEW l \in Line, ReadNotification(l),
           l.m \in {"item", "delta", "quota", "error", "completed"}
    PROVE  EventTypes' /\ \E es : Tells(es)
<1> DEFINE Es == CASE l.m = "item" -> MapItem(l.type, l.done)
                   [] l.m = "delta" -> {"Delta"}
                   [] l.m = "quota" -> {"Quota"}
                   [] l.m = "error" -> ErrorOrLimit(l.msg)
                   [] l.m = "completed" ->
                         {"Usage"} \cup (IF l.status = "Failed" THEN ErrorOrLimit(l.msg) ELSE {})
<1>1. Emit(Es) /\ l.t = "note"
  BY DEF ReadNotification
<1>2. Es \in SUBSET EventTags
  <2>1. CASE l.m = "item"
    BY <1>1, <2>1, LineKinds, ItemTags
  <2>2. CASE l.m \in {"delta", "quota"}
    BY <2>2 DEF EventTags
  <2>3. CASE l.m = "error"
    BY <1>1, <2>3, LineKinds, ErrorTags
  <2>4. CASE l.m = "completed"
    <3>1. ErrorOrLimit(l.msg) \in SUBSET EventTags
      BY <1>1, <2>4, LineKinds, ErrorTags DEF IsVerdict
    <3> QED
      BY <2>4, <3>1 DEF EventTags
  <2> QED
    BY <2>1, <2>2, <2>3, <2>4
<1> HIDE DEF Es
<1> QED
  BY <1>1, <1>2, EmitTells DEF SInv

LEMMA ReaderKeepsSInv ==
    ASSUME SInv, ReaderStep
    PROVE  SInv'
<1>1. /\ TableTypes /\ EventTypes /\ ProvTypes /\ AskTypes /\ LinesFit /\ ModeFits
      /\ UNCHANGED <<spec, pc, wait, req, status, ctl, child, prov, inp, run>>
  BY ReaderFrame DEF SInv
<1>2. CASE ReadLine
  <2> DEFINE l == Head(outp)
  <2>1. /\ reader = "on" /\ reader' = reader /\ closed' = closed /\ outp # << >> /\ outp' = Tail(outp)
        /\ ReadResponse(l) \/ ReadNotification(l) \/ ReadServerRequest(l)
    BY <1>2 DEF ReadLine
  <2>2. /\ outp' \in Seq(Line) /\ l \in Line /\ l = outp[1] /\ 1 \in DOMAIN outp
        /\ \A i \in DOMAIN outp' : i + 1 \in DOMAIN outp /\ outp'[i] = outp[i + 1]
    BY <1>1, <2>1, TakenLine
  <2>3. LinesFit'
    BY <1>1, <2>2 DEF LinesFit, AppServer, ClaudeRun
  <2>4. /\ AppServer /\ (IsAsk(l) => l.m # "can_use_tool")
        /\ l.t = "note" => l.m \in {"item", "delta", "quota", "error", "completed"}
    BY <1>1, <2>1, <2>2 DEF ModeFits, LinesFit
  <2> HIDE DEF l
  <2>5. CASE ReadResponse(l)
    <3>1. l.res \in Replies
      BY <2>2, <2>5, LineKinds DEF ReadResponse, IsResp
    <3>2. TableTypes'
      BY <1>1, <2>1, <2>5, <3>1 DEF ReadResponse, TableTypes
    <3>3. AskTypes' /\ EventTypes' /\ Tells({})
      BY <1>1, <2>5, SilenceTells DEF ReadResponse, AskTypes
    <3> QED
      BY <2>1, <2>2, <2>3, <3>2, <3>3, ReaderPart
  <2>6. CASE ReadNotification(l)
    <3>1. EventTypes' /\ \E es : Tells(es)
      BY <2>2, <2>4, <2>6, NoteTells DEF ReadNotification
    <3>2. term' \in [sent : BOOLEAN, status : Statuses \cup {"none"}]
      <4>1. l.m = "completed" => l.status \in Statuses
        BY <2>2, <2>6, LineKinds DEF ReadNotification, IsVerdict
      <4>2. term' = term \/ (l.m = "completed" /\ term' = [sent |-> TRUE, status |-> l.status])
        BY <2>6 DEF ReadNotification
      <4>3. CASE l.m = "completed" /\ term' = [sent |-> TRUE, status |-> l.status]
        BY <4>1, <4>3
      <4> QED
        BY <1>1, <4>2, <4>3 DEF TableTypes
    <3>3. TableTypes' /\ AskTypes'
      BY <1>1, <2>1, <2>6, <3>2 DEF ReadNotification, TableTypes, AskTypes
    <3> QED
      BY <2>1, <2>2, <2>3, <3>1, <3>3, ReaderPart
  <2>7. CASE ReadServerRequest(l)
    <3>1. l.id \in Nat /\ l.m \in RequestMethods
      BY <2>2, <2>7, LineKinds, SessionAssumption DEF ReadServerRequest, IsAsk
    <3>2. TableTypes'
      BY <1>1, <2>1, <2>7 DEF ReadServerRequest, TableTypes
    <3>3. EventTypes' /\ \E es : Tells(es)
      BY <1>1, <2>7, SilenceTells, EmitTells DEF ReadServerRequest, EventTags
    <3>4. AskTypes'
      <4>1. CASE l.m \in ApprovalMethods \cup {"question"} /\ asks' = asks \cup {<<l.id, l.m>>}
                 /\ replies' = replies
        BY <1>1, <3>1, <4>1 DEF AskTypes
      <4>2. CASE asks' = asks /\ \E v \in {"empty", "error"} :
                   replies' = replies \cup {[id |-> l.id, m |-> l.m, d |-> "none", v |-> v]}
        BY <1>1, <3>1, <4>2 DEF AskTypes, Words
      <4> QED
        BY <2>7, <4>1, <4>2 DEF ReadServerRequest
    <3> QED
      BY <2>1, <2>2, <2>3, <3>2, <3>3, <3>4, ReaderPart
  <2> QED
    BY <2>1, <2>5, <2>6, <2>7
<1>3. CASE ReadEof
  <2>1. /\ reader = "on" /\ reader' = "eof" /\ closed' = TRUE /\ pending' = {} /\ outp' = outp
        /\ reply' \in {"err", reply} /\ asks' = asks /\ replies' = replies
        /\ term' \in {term, Disconnected}
    BY <1>3 DEF ReadEof
  <2>2. TableTypes' /\ AskTypes' /\ LinesFit' /\ outp' \in Seq(Line)
    <3>1. term' \in [sent : BOOLEAN, status : Statuses \cup {"none"}]
      <4>1. Disconnected \in [sent : BOOLEAN, status : Statuses \cup {"none"}]
        BY DEF Disconnected, Statuses
      <4>2. term \in [sent : BOOLEAN, status : Statuses \cup {"none"}]
        BY <1>1 DEF TableTypes
      <4> QED
        BY <2>1, <4>1, <4>2
    <3>2. TableTypes'
      BY <1>1, <2>1, <3>1 DEF TableTypes, Replies
    <3> QED
      BY <1>1, <2>1, <3>2 DEF AskTypes, LinesFit, ProvTypes, AppServer, ClaudeRun
  <2>3. UNCHANGED events \/ \E es \in SUBSET EventTags : Emit(es)
    BY <1>3 DEF ReadEof, EventTags
  <2>4. EventTypes' /\ \E es : Tells(es)
    BY <1>1, <2>3, SilenceTells, EmitTells
  <2> QED
    BY <2>1, <2>2, <2>4, ReaderPart
<1> QED
  BY <1>2, <1>3 DEF ReaderStep

(* A decision of the user in the words of the request it answers. *)
LEMMA ReplyWords ==
    ASSUME NEW m \in ApprovalMethods \cup {"question", "can_use_tool"}, NEW d \in Decisions
    PROVE  ReplyTo(m, d) \in Words /\ (ReplyTo(m, d) \in Grants(m) <=> IsAllow(d))
<1> USE DEF Decisions, Words, IsAllow
<1>1. CASE m = "can_use_tool"
  BY <1>1 DEF ReplyTo, ControlResponse, Grants, V2, Legacy
<1>2. CASE m = "question"
  BY <1>2 DEF ReplyTo, QuestionAnswer, Grants, V2, Legacy
<1>3. CASE m = "permissions"
  BY <1>3 DEF ReplyTo, ApprovalResponse, Grants, V2, Legacy
<1>4. CASE m \in V2
  BY <1>4 DEF ReplyTo, ApprovalResponse, Grants, V2, Legacy
<1>5. CASE m \in Legacy
  BY <1>5 DEF ReplyTo, ApprovalResponse, ReviewDecision, Grants, V2, Legacy
<1> QED
  BY <1>1, <1>2, <1>3, <1>4, <1>5 DEF ApprovalMethods

LEMMA AnswerKeepsSInv ==
    ASSUME SInv, NEW a \in asks, AnswerAsk(a)
    PROVE  SInv'
<1>1. UNCHANGED <<spec, pc, wait, req, reply, pending, closed, reader, term, status, ctl, child,
                  inp, outp, run, events>>
  BY DEF AnswerAsk, rpcVars
<1>2. a[1] \in Nat /\ a[2] \in ApprovalMethods \cup {"question", "can_use_tool"}
      /\ a[2] \in RequestMethods
  BY DEF SInv, AskTypes, ApprovalMethods, V2, Legacy, RequestMethods
<1>3. AskTypes'
  <2>1. PICK d \in Decisions :
           replies' = replies \cup {[id |-> a[1], m |-> a[2], d |-> d, v |-> ReplyTo(a[2], d)]}
    BY DEF AnswerAsk, Decisions
  <2>2. ReplyTo(a[2], d) \in Words
    BY <1>2, ReplyWords
  <2>3. asks' \subseteq asks
    BY DEF AnswerAsk
  <2> QED
    BY <1>2, <2>1, <2>2, <2>3 DEF SInv, AskTypes
<1>4. ProvTypes' /\ prov'.turn = prov.turn /\ prov'.said = prov.said /\ prov'.spent = prov.spent
  <2>1. PICK b \in BOOLEAN : prov' = [prov EXCEPT !.stdin = b]
    BY DEF AnswerAsk
  <2> QED
    BY <1>1, <2>1 DEF SInv, ProvTypes, Prov
<1>5. SpecTypes' /\ DriverTypes' /\ TableTypes' /\ EventTypes'
  <2>1. SpecTypes' /\ DriverTypes'
    BY <1>1 DEF SInv, SpecTypes, DriverTypes
  <2>2. TableTypes'
    BY <1>1 DEF SInv, TableTypes
  <2>3. EventTypes'
    BY <1>1 DEF SInv, EventTypes
  <2> QED
    BY <2>1, <2>2, <2>3
<1>6. LinesFit' /\ ModeFits' /\ ChildFits' /\ Fresh' /\ Undecided'
  BY <1>1, <1>4 DEF SInv, LinesFit, ModeFits, ChildFits, Fresh, Undecided, AppServer, ClaudeRun
<1> QED
  BY <1>3, <1>4, <1>5, <1>6 DEF SInv

(* The stream drivers. *)
LEMMA StreamPart ==
    ASSUME SInv, StreamStep, pc \in StreamPcs, pc' \in StreamPcs \cup {"done"}, DriverTypes', reader' = reader,
           EventTypes', Undecided', ProvTypes', AskTypes', LinesFit', child' # "none",
           pc' = "done" => child' = "dead"
    PROVE  SInv'
<1>1. UNCHANGED <<spec, wait, req, reply, pending, closed, reader, term, inp, replies>>
      /\ spec.mode \in {"exec", "claude"}
  BY StreamFrame DEF SInv, ModeFits
<1>2. SpecTypes' /\ TableTypes'
  BY <1>1 DEF SInv, SpecTypes, TableTypes
<1>3. ModeFits' /\ ChildFits' /\ Fresh'
  BY <1>1 DEF SInv, ModeFits, ChildFits, Fresh, AppServer, ClaudeRun, AppPcs, StreamPcs, Startup
<1> QED
  BY <1>2, <1>3 DEF SInv

LEMMA UseTypes ==
    ASSUME NEW u \in Use
    PROVE  /\ \A id \in {"m1", "m2", ""} : CountMessage(u, id, 1) \in Use
           /\ \A n \in Nat : CountResult(u, n) \in Use /\ Monus(n, u.msgs) \in Nat
<1>1. u.msgs \in Nat /\ u.counted \in Nat /\ u.seen \in SUBSET {"m1", "m2"}
  BY DEF Use
<1>4. u.msgs + 1 \in Nat /\ u.counted + 1 \in Nat
  BY <1>1
<1>2. ASSUME NEW id \in {"m1", "m2", ""} PROVE CountMessage(u, id, 1) \in Use
  <2>2. (IF id = "" THEN u.seen ELSE u.seen \cup {id}) \in SUBSET {"m1", "m2"}
    BY <1>1
  <2> QED
    BY <1>4, <2>2 DEF CountMessage, Use
<1>3. ASSUME NEW n \in Nat PROVE CountResult(u, n) \in Use /\ Monus(n, u.msgs) \in Nat
  <2>1. Monus(n, u.msgs) \in Nat
    BY <1>1 DEF Monus
  <2>2. u.counted + Monus(n, u.msgs) \in Nat
    BY <1>1, <2>1
  <2> QED
    BY <2>1, <2>2 DEF CountResult, Use
<1> QED
  BY <1>2, <1>3

(* What reading a line changes of the loop's locals. *)
LEMMA LineRun ==
    ASSUME ProvTypes, StreamLine
    PROVE  /\ run' \in StreamRun
           /\ run'.last = IF IsVerdict(Head(outp)) THEN Head(outp).status ELSE run.last
           /\ run'.use = CASE IsReport(Head(outp)) -> CountMessage(run.use, Head(outp).id, Head(outp).n)
                           [] IsResult(Head(outp)) -> CountResult(run.use, Head(outp).n)
                           [] OTHER -> run.use
<1> DEFINE l == Head(outp)
<1> DEFINE use == CASE l.t = "note" /\ l.m = "assistant" -> CountMessage(run.use, l.id, l.n)
                    [] l.t = "note" /\ l.m = "result" -> CountResult(run.use, l.n)
                    [] OTHER -> run.use
<1> DEFINE last == IF l.t = "note" /\ l.m \in {"completed", "result"} THEN l.status ELSE run.last
<1>1. l \in Line /\ run \in StreamRun
  BY TakenLine DEF StreamLine, ProvTypes
<1>2. \E saw, lost, input \in BOOLEAN :
         run' = [run EXCEPT !.saw = saw, !.cancelled = lost, !.last = last, !.input = input, !.use = use]
  BY DEF StreamLine
<1> HIDE DEF l
<1>3. last \in Statuses \cup {"none"}
  BY <1>1, LineKinds DEF IsVerdict, StreamRun
<1>4. use \in Use
  <2>1. run.use \in Use
    BY <1>1 DEF StreamRun
  <2>2. CASE IsReport(l)
    BY <1>1, <2>1, <2>2, LineKinds, UseTypes DEF IsReport
  <2>3. CASE IsResult(l)
    BY <1>1, <2>1, <2>3, LineKinds, UseTypes DEF IsResult
  <2>4. CASE ~IsReport(l) /\ ~IsResult(l)
    BY <2>1, <2>4 DEF IsReport, IsResult
  <2> QED
    BY <2>2, <2>3, <2>4
<1>5. /\ last = IF IsVerdict(l) THEN l.status ELSE run.last
      /\ use = CASE IsReport(l) -> CountMessage(run.use, l.id, l.n)
                 [] IsResult(l) -> CountResult(run.use, l.n)
                 [] OTHER -> run.use
  BY DEF IsVerdict, IsReport, IsResult
<1> HIDE DEF last, use
<1>6. run' \in StreamRun /\ run'.last = last /\ run'.use = use
  BY <1>1, <1>2, <1>3, <1>4 DEF StreamRun
<1> QED
  BY <1>5, <1>6 DEF l

LEMMA StreamLineKeepsSInv ==
    ASSUME SInv, StreamLine
    PROVE  SInv'
<1> DEFINE l == Head(outp)
<1>1. /\ DriverTypes /\ EventTypes /\ ProvTypes /\ AskTypes /\ LinesFit /\ ModeFits /\ ChildFits /\ Undecided
      /\ StreamStep /\ pc = "stream" /\ spec.mode \in {"exec", "claude"}
      /\ outp # << >> /\ outp' = Tail(outp) /\ UNCHANGED <<spec, reader, status, ctl, child, replies>>
  BY DEF SInv, ModeFits, StreamLine, StreamStep, StreamLoop, StreamPcs
<1>2. /\ outp' \in Seq(Line) /\ l \in Line /\ l = outp[1] /\ 1 \in DOMAIN outp
      /\ \A i \in DOMAIN outp' : i + 1 \in DOMAIN outp /\ outp'[i] = outp[i + 1]
  BY <1>1, TakenLine
<1>3. LinesFit'
  BY <1>1, <1>2 DEF LinesFit, AppServer, ClaudeRun
<1>4. EventTypes' /\ \E es : Tells(es)
  <2>1. l.t = "note" => StreamEvents(l) \in SUBSET EventTags
    BY <1>1, <1>2, ExecTags, ClaudeTags DEF LinesFit, StreamEvents, AppServer, ClaudeRun
  <2>2. UNCHANGED events \/ \E es \in SUBSET EventTags : Emit(es)
    BY <2>1 DEF StreamLine
  <2> QED
    BY <1>1, <2>2, SilenceTells, EmitTells
<1>5. AskTypes'
  <2>1. asks' = asks \/ (IsAsk(l) /\ asks' = asks \cup {<<l.id, l.m>>})
    BY DEF StreamLine, IsAsk
  <2>2. IsAsk(l) => l.id \in Nat /\ l.m = "can_use_tool"
    BY <1>1, <1>2, LineKinds DEF LinesFit, AppServer
  <2> HIDE DEF l
  <2> QED
    BY <1>1, <2>1, <2>2 DEF AskTypes
<1>6. pc' \in {"stream", "stop"}
  BY <1>1 DEF StreamLine
<1>7. ProvTypes'
  <2>1. run' \in StreamRun
    BY <1>1, LineRun
  <2>2. \E b \in BOOLEAN : prov' = [prov EXCEPT !.stdin = b]
    BY DEF StreamLine
  <2>3. prov' \in Prov
    BY <1>1, <2>2 DEF ProvTypes, Prov
  <2> QED
    BY <1>2, <2>1, <2>3 DEF ProvTypes
<1>8. DriverTypes' /\ Undecided' /\ child' # "none"
  BY <1>1, <1>4, <1>6 DEF DriverTypes, Undecided, Tells, ChildFits, Pcs, StreamPcs, AppServer
<1> QED
  BY <1>1, <1>3, <1>4, <1>5, <1>6, <1>7, <1>8, StreamPart DEF StreamPcs

LEMMA FinalStatusType ==
    ASSUME ProvTypes
    PROVE  FinalStatus \in Statuses
  BY DEF ProvTypes, StreamRun, FinalStatus, Statuses

LEMMA StreamKeepsSInv ==
    ASSUME SInv, StreamStep
    PROVE  SInv'
<1>1. /\ DriverTypes /\ EventTypes /\ ProvTypes /\ AskTypes /\ LinesFit /\ ModeFits /\ ChildFits /\ Undecided
      /\ UNCHANGED <<spec, reader, replies>>
      /\ pc \in StreamPcs
  <2>1. pc \in StreamPcs
    BY DEF StreamStep, StreamLoop, StreamLine, StreamEof, StreamSteer, StreamSteerFails, StreamCut, StreamFinish,
           StreamTerminate, StreamGrace, StreamEnd, StreamPcs
  <2> QED
    BY <2>1, StreamFrame DEF SInv
<1>2. child # "none" /\ spec.mode \in {"exec", "claude"}
  BY <1>1 DEF ModeFits, ChildFits
<1>3. CASE StreamLine
  BY <1>3, StreamLineKeepsSInv
<1>4. CASE StreamEof \/ StreamSteer \/ StreamSteerFails \/ StreamCut
  <2>1. /\ pc = "stream" /\ pc' \in {"stream", "stop", "reap"}
        /\ UNCHANGED <<status, child, outp, asks, events>>
    BY <1>4 DEF StreamEof, StreamSteer, StreamSteerFails, StreamCut
  <2>2. prov' \in Prov
    <3>1. prov \in Prov
      BY <1>1 DEF ProvTypes
    <3>2. \/ prov' = prov \/ prov' = [prov EXCEPT !.stdin = FALSE]
          \/ prov' = [prov EXCEPT !.steered = @ + 1]
      BY <1>4 DEF StreamEof, StreamSteer, StreamSteerFails, StreamCut
    <3>3. prov.steered + 1 \in Nat
      BY <3>1 DEF Prov
    <3>4. CASE prov' = [prov EXCEPT !.steered = @ + 1]
      BY <3>1, <3>3, <3>4 DEF Prov
    <3>5. CASE prov' = prov \/ prov' = [prov EXCEPT !.stdin = FALSE]
      BY <3>1, <3>5 DEF Prov
    <3> QED
      BY <3>2, <3>4, <3>5
  <2>3. run' \in StreamRun
    <3>1. run \in StreamRun
      BY <1>1 DEF ProvTypes
    <3>2. \/ run' = run \/ run' = [run EXCEPT !.input = FALSE]
          \/ \E b \in BOOLEAN : run' = [run EXCEPT !.cancelled = TRUE, !.timedOut = b, !.input = FALSE]
      BY <1>4 DEF StreamEof, StreamSteer, StreamSteerFails, StreamCut
    <3> QED
      BY <3>1, <3>2 DEF StreamRun
  <2>4. ctl' \in [cancel : BOOLEAN, steers : Nat, gone : BOOLEAN]
    <3>1. ctl \in [cancel : BOOLEAN, steers : Nat, gone : BOOLEAN]
      BY <1>1 DEF DriverTypes
    <3>2. ctl' = ctl \/ (ctl.steers > 0 /\ ctl' = [ctl EXCEPT !.steers = @ - 1])
      BY <1>4 DEF StreamEof, StreamSteer, StreamSteerFails, StreamCut
    <3> QED
      BY <3>1, <3>2
  <2>5. ProvTypes' /\ AskTypes' /\ EventTypes' /\ LinesFit'
    BY <1>1, <2>1, <2>2, <2>3 DEF ProvTypes, AskTypes, EventTypes, LinesFit, AppServer, ClaudeRun
  <2>6. DriverTypes' /\ Undecided'
    BY <1>1, <2>1, <2>4 DEF DriverTypes, Undecided, Pcs, StreamPcs, AppServer
  <2> QED
    BY <1>1, <1>2, <2>1, <2>5, <2>6, StreamPart DEF StreamPcs
<1>5. CASE StreamTerminate \/ StreamGrace
  <2>1. /\ pc' \in {"stop grace", "reap"} /\ UNCHANGED <<status, ctl, prov, run, outp, asks, events>>
        /\ child' \in {"term", "kill", "dead", child}
    BY <1>5 DEF StreamTerminate, StreamGrace, Terminate, Kill
  <2>2. ProvTypes' /\ AskTypes' /\ EventTypes' /\ LinesFit' /\ DriverTypes' /\ Undecided'
    BY <1>1, <2>1
    DEF ProvTypes, AskTypes, EventTypes, LinesFit, DriverTypes, Undecided, Pcs, StreamPcs, AppServer, ClaudeRun
  <2> QED
    BY <1>1, <1>2, <2>1, <2>2, StreamPart DEF StreamPcs
<1>6. CASE StreamEnd
  <2>1. /\ pc' = "done" /\ child = "dead" /\ UNCHANGED <<ctl, child, prov, run, outp, asks>>
        /\ status' = FinalStatus /\ events.ended = 0
    BY <1>1, <1>6 DEF StreamEnd, Undecided
  <2>2. EventTypes' /\ events'.after = events.after
    <3>1. ErrorOrLimit(prov.diag) \in SUBSET EventTags
      BY <1>1, ErrorTags DEF ProvTypes, Prov
    <3>2. \E es \in SUBSET EventTags : EmitEnded(es)
      BY <1>6, <3>1 DEF StreamEnd, EventTags
    <3> QED
      BY <1>1, <2>1, <3>2, EndTells
  <2>3. ProvTypes' /\ AskTypes' /\ LinesFit'
    BY <1>1, <2>1 DEF ProvTypes, AskTypes, LinesFit, AppServer, ClaudeRun
  <2>4. DriverTypes' /\ Undecided'
    BY <1>1, <1>2, <2>1, <2>2, FinalStatusType DEF DriverTypes, Undecided, Pcs, StreamPcs, AppServer, Startup
  <2> QED
    BY <1>1, <1>2, <2>1, <2>2, <2>3, <2>4, StreamPart DEF StreamPcs
<1> QED
  BY <1>3, <1>4, <1>5, <1>6 DEF StreamStep, StreamLoop, StreamFinish

(* The provider. *)
LEMMA ProviderPart ==
    ASSUME SInv, Provider \/ Exit, child # "none", child' \in {child, "dead"},
           inp' \in SUBSET inp, ProvTypes', LinesFit'
    PROVE  SInv'
<1>1. /\ UNCHANGED <<spec, pc, wait, req, reply, pending, closed, reader, term, status, ctl,
                     asks, replies, run, events>>
  BY ProviderFrame
<1>2. SpecTypes' /\ DriverTypes' /\ TableTypes' /\ EventTypes' /\ AskTypes'
  <2>1. SpecTypes' /\ DriverTypes' /\ EventTypes' /\ AskTypes'
    BY <1>1 DEF SInv, SpecTypes, DriverTypes, EventTypes, AskTypes
  <2>2. inp \subseteq (1..req) \X (Startup \cup {"final quota"})
    BY DEF SInv, TableTypes
  <2>3. inp' \subseteq (1..req) \X (Startup \cup {"final quota"})
    BY <2>2
  <2>4. TableTypes'
    BY <1>1, <2>3 DEF SInv, TableTypes
  <2> QED
    BY <2>1, <2>4
<1>3. ModeFits' /\ ChildFits' /\ Fresh' /\ Undecided'
  BY <1>1 DEF SInv, ModeFits, ChildFits, Fresh, Undecided, AppServer, ClaudeRun
<1> QED
  BY <1>2, <1>3 DEF SInv

(* A line of its turn: what is written and what the provider keeps of it. *)
Fits(l) ==
    /\ l \in Line
    /\ l.t = "note" =>
         /\ AppServer => l.m \in {"item", "delta", "quota", "error", "completed"}
         /\ ClaudeRun => l.m \in {"assistant", "started", "delta", "result"}
         /\ spec.mode = "exec" => l.m \in {"item", "started", "error", "completed"}
    /\ IsAsk(l) => (AppServer <=> l.m # "can_use_tool")

LEMMA FittingLine ==
    ASSUME ProvTypes, LinesFit, spec' = spec, NEW l, Fits(l), outp' = Append(outp, l)
    PROVE  outp' \in Seq(Line) /\ LinesFit'
<1>1. l \in Line
  BY DEF Fits
<1>2. outp' \in Seq(Line) /\ \A i \in DOMAIN outp' : (i \in DOMAIN outp /\ outp'[i] = outp[i]) \/ outp'[i] = l
  BY <1>1, Appended
<1> QED
  BY <1>2 DEF LinesFit, Fits, AppServer, ClaudeRun

LEMMA ReportFits ==
    ASSUME SInv, child # "none", ~ClaudeRun, NEW l \in TurnLines
    PROVE  Fits(l) /\ l.t \in {"note", "noise"} /\ (l.t = "note" => l.m \notin {"completed", "result", "assistant"})
<1>0. spec.mode \in {"appserver", "exec"}
  BY DEF SInv, SpecTypes, RunSpec, ChildFits, ClaudeRun
<1>1. CASE \E type \in ItemTypes, done \in BOOLEAN : l = Item(type, done)
  BY <1>0, <1>1 DEF Fits, Item, Line, Items, IsAsk, AppServer, ClaudeRun
<1>2. CASE \E m \in Texts : l = Failing(m)
  BY <1>0, <1>2, SessionAssumption DEF Fits, Failing, Line, Failures, IsAsk, AppServer, ClaudeRun
<1>3. CASE AppServer /\ \E m \in Notices : l = Note(m)
  BY <1>0, <1>3, SessionAssumption DEF Fits, Note, Line, Plain, IsAsk, AppServer, ClaudeRun
<1>4. CASE ~AppServer /\ l \in {Note("started"), [t |-> "noise"]}
  BY <1>0, <1>4 DEF Fits, Note, Line, Plain, Noise, IsAsk, AppServer, ClaudeRun
<1> QED
  BY <1>1, <1>2, <1>3, <1>4 DEF TurnLines

LEMMA ReportShape ==
    ASSUME NEW I, NEW id \in I, NEW k
    PROVE  LET l == [t |-> "note", m |-> "assistant", id |-> id, n |-> k]
           IN  /\ l \in [t : {"note"}, m : {"assistant"}, id : I, n : {k}]
               /\ l.t = "note" /\ l.m = "assistant" /\ l.id = id /\ l.n = k
  OBVIOUS

LEMMA ClaudeFits ==
    ASSUME SInv, ClaudeRun, NEW l \in ClaudeLines
    PROVE  Fits(l) /\ l.t \in {"note", "noise"} /\ (l.t = "note" => l.m \notin {"completed", "result"})
<1>1. CASE \E id \in {"m1", "m2", ""} : l = [t |-> "note", m |-> "assistant", id |-> id, n |-> 1]
  <2>1. PICK id \in {"m1", "m2", ""} : l = [t |-> "note", m |-> "assistant", id |-> id, n |-> 1]
    BY <1>1
  <2>2. l \in Reports
    BY <2>1, ReportShape DEF Reports
  <2>3. l.t = "note" /\ l.m = "assistant"
    BY <2>1, ReportShape
  <2> QED
    BY <2>2, <2>3 DEF Fits, Line, IsAsk, AppServer, ClaudeRun
<1>2. CASE l \in {Note("started"), Note("delta"), [t |-> "noise"]}
  BY <1>2 DEF Fits, Note, Line, Plain, Noise, IsAsk, AppServer, ClaudeRun
<1> QED
  BY <1>1, <1>2 DEF ClaudeLines

LEMMA AskFits ==
    ASSUME SInv, NEW m \in Methods, Ask(m)
    PROVE  Fits([t |-> "ask", id |-> prov.lines, m |-> m])
<1>1. prov.lines \in Nat
  BY DEF SInv, ProvTypes, Prov
<1> QED
  BY <1>1 DEF Ask, Fits, Line, Questions, IsAsk, AppServer

LEMMA VerdictFits ==
    ASSUME SInv, child # "none", ~ClaudeRun, NEW s \in Statuses, NEW m \in Texts
    PROVE  Fits(Verdict(s, m)) /\ IsVerdict(Verdict(s, m)) /\ Verdict(s, m).status = s
<1>1. Verdict(s, m) \in Verdicts
  BY SessionAssumption DEF Verdict, Verdicts
<1> QED
  BY <1>1 DEF Verdict, Fits, Line, IsAsk, IsVerdict, AppServer, ClaudeRun

LEMMA ResultFits ==
    ASSUME SInv, ClaudeRun, NEW s \in {"Completed", "Failed"}, NEW m \in Texts, NEW n \in Nat
    PROVE  Fits([t |-> "note", m |-> "result", status |-> s, msg |-> m, n |-> n])
<1> DEFINE l == [t |-> "note", m |-> "result", status |-> s, msg |-> m, n |-> n]
<1>1. l \in Results
  BY SessionAssumption DEF Results, Statuses
<1> QED
  BY <1>1 DEF Fits, Line, IsAsk, AppServer, ClaudeRun

LEMMA WriteKeepsSInv ==
    ASSUME SInv, Provider, NEW l, Write(l), Fits(l), prov' \in Prov
    PROVE  SInv'
<1>1. ProvTypes /\ LinesFit /\ child # "none"
  BY DEF SInv, Write, Alive
<1>2. outp' = Append(outp, l) /\ UNCHANGED <<spec, child, inp, run>>
  BY DEF Write
<1>3. outp' \in Seq(Line) /\ LinesFit'
  BY <1>1, <1>2, FittingLine
<1> QED
  BY <1>1, <1>2, <1>3, ProviderPart DEF ProvTypes

(* The numbers the provider keeps. *)
LEMMA ProvNumbers ==
    ASSUME SInv
    PROVE  /\ prov \in Prov /\ prov.lines + 1 \in Nat /\ prov.spent + 0 \in Nat /\ prov.spent + 1 \in Nat
           /\ prov.results + 1 \in Nat /\ prov.steered + 1 \in Nat
<1>1. prov \in Prov
  BY DEF SInv, ProvTypes
<1>2. prov.lines \in Nat /\ prov.spent \in Nat /\ prov.results \in Nat /\ prov.steered \in Nat
  BY <1>1 DEF Prov
<1> QED
  BY <1>1, <1>2

LEMMA ProviderKeepsSInv ==
    ASSUME SInv, Provider \/ Exit
    PROVE  SInv'
<1>1. ProvTypes /\ LinesFit /\ TableTypes
  BY DEF SInv
<1>2. CASE \E q \in inp, res \in {"ok", "bare", "err"} : Answer(q, res)
  <2>1. PICK q \in inp, res \in {"ok", "bare", "err"} : Answer(q, res)
    BY <1>2
  <2> DEFINE l == [t |-> "resp", id |-> q[1], res |-> res]
  <2>2. /\ child # "none" /\ child' = child /\ inp' \in SUBSET inp /\ outp' = Append(outp, l)
        /\ run' = run /\ spec' = spec
    BY <2>1 DEF Answer, Alive
  <2>3. q[1] \in Nat
    <3>1. inp \subseteq (1..req) \X (Startup \cup {"final quota"})
      BY <1>1 DEF TableTypes
    <3>2. q[1] \in 1..req
      BY <3>1
    <3> QED
      BY <3>2
  <2>4. Fits(l)
    <3>1. l \in Responses
      BY <2>3 DEF Responses, Replies
    <3> QED
      BY <3>1 DEF Fits, Line, IsAsk
  <2> HIDE DEF l
  <2>5. outp' \in Seq(Line) /\ LinesFit'
    BY <1>1, <2>2, <2>4, FittingLine
  <2>6. prov' \in Prov
    <3>1. prov \in Prov
      BY <1>1 DEF ProvTypes
    <3>2. prov' = prov \/ \E box \in Boxes, turn \in {"open", prov.turn} :
                            prov' = [prov EXCEPT !.sandbox = box, !.turn = turn]
      <4>1. prov.sandbox \in Boxes /\ \A p : StartSandbox(p) \in Boxes /\ TurnSandbox(p) \in Boxes
        BY <3>1 DEF Prov, StartSandbox, TurnSandbox, Boxes
      <4>2. "retained" \in Boxes
        BY DEF Boxes
      <4> QED
        BY <2>1, <4>1, <4>2 DEF Answer
    <3> QED
      BY <3>1, <3>2 DEF Prov
  <2> QED
    BY <1>1, <1>2, <2>2, <2>5, <2>6, ProviderPart DEF ProvTypes, Provider
<1>3. CASE Report
  <2>1. PICK l \in TurnLines : Write(l)
    BY <1>3 DEF Report
  <2>2. Fits(l)
    BY <1>3, <2>1, ReportFits DEF Report, Write, Alive
  <2>3. prov' \in Prov
    BY <1>3, ProvNumbers DEF Report, Prov
  <2> QED
    BY <1>3, <2>1, <2>2, <2>3, WriteKeepsSInv DEF Provider
<1>4. CASE ReportClaude
  <2>1. PICK l \in ClaudeLines :
           /\ Write(l)
           /\ prov' = [prov EXCEPT !.lines = @ + 1,
                         !.spent = @ + IF l.t = "note" /\ l.m = "assistant" THEN SpentBy(l) ELSE 0]
    BY <1>4 DEF ReportClaude
  <2>2. Fits(l)
    BY <1>4, <2>1, ClaudeFits DEF ReportClaude
  <2>3. SpentBy(l) \in {0, 1}
    BY DEF SpentBy
  <2>4. PICK n \in {0, 1} : prov' = [prov EXCEPT !.lines = @ + 1, !.spent = @ + n]
    BY <2>1, <2>3
  <2>5. prov.spent + n \in Nat
    BY ProvNumbers
  <2>6. prov' \in Prov
    BY <2>4, <2>5, ProvNumbers DEF Prov
  <2> QED
    BY <1>4, <2>1, <2>2, <2>6, WriteKeepsSInv DEF Provider
<1>5. CASE EndTurn
  <2>1. PICK s \in Statuses, m \in Texts :
           /\ Write(Verdict(s, m))
           /\ prov' = [prov EXCEPT !.lines = @ + 1, !.turn = "over", !.said = s]
    BY <1>5 DEF EndTurn
  <2>2. Fits(Verdict(s, m))
    BY <1>5, <2>1, VerdictFits DEF EndTurn, Write, Alive
  <2>3. prov' \in Prov
    BY <2>1, ProvNumbers DEF Prov
  <2> QED
    BY <1>5, <2>1, <2>2, <2>3, WriteKeepsSInv DEF Provider
<1>6. CASE EndClaude
  <2>1. PICK s \in {"Completed", "Failed"}, m \in Texts, extra \in {0, 1} :
           /\ Write([t |-> "note", m |-> "result", status |-> s, msg |-> m, n |-> prov.spent + extra])
           /\ prov' = [prov EXCEPT !.lines = @ + 1, !.turn = "over", !.said = s,
                                   !.spent = @ + extra, !.results = @ + 1]
    BY <1>6 DEF EndClaude
  <2>2. prov.spent + extra \in Nat
    BY ProvNumbers
  <2>3. Fits([t |-> "note", m |-> "result", status |-> s, msg |-> m, n |-> prov.spent + extra])
    BY <1>6, <2>2, ResultFits DEF EndClaude
  <2>4. prov' \in Prov
    BY <2>1, <2>2, ProvNumbers DEF Prov, Statuses
  <2> QED
    BY <1>6, <2>1, <2>3, <2>4, WriteKeepsSInv DEF Provider
<1>7. CASE \E m \in Methods : Ask(m)
  <2>1. PICK m \in Methods : Ask(m)
    BY <1>7
  <2>2. Fits([t |-> "ask", id |-> prov.lines, m |-> m])
    BY <2>1, AskFits
  <2>3. prov' \in Prov
    BY <2>1, ProvNumbers DEF Ask, Prov
  <2> QED
    BY <1>7, <2>1, <2>2, <2>3, WriteKeepsSInv DEF Provider, Ask
<1>8. CASE Exit
  <2>1. PICK ok \in BOOLEAN, d \in Texts : prov' = [prov EXCEPT !.ok = ok, !.diag = d]
    BY <1>8 DEF Exit
  <2>2. prov' \in Prov
    BY <2>1, ProvNumbers, SessionAssumption DEF Prov
  <2>3. child # "none" /\ child' = "dead" /\ inp' = {} /\ UNCHANGED <<spec, outp, run>>
    BY <1>8 DEF Exit
  <2>4. ProvTypes' /\ LinesFit'
    BY <1>1, <2>2, <2>3 DEF ProvTypes, LinesFit, AppServer, ClaudeRun
  <2> QED
    BY <1>8, <2>3, <2>4, ProviderPart
<1> QED
  BY <1>2, <1>3, <1>4, <1>5, <1>6, <1>7, <1>8 DEF Provider

LEMMA SInvStep == SInv /\ [Next]_vars => SInv'
<1> SUFFICES ASSUME SInv, [Next]_vars PROVE SInv'
  OBVIOUS
<1>1. CASE UNCHANGED vars
  <2>1. UNCHANGED <<spec, pc, wait, req, reply, pending, closed, reader, term, status, ctl,
                    child, prov, inp, outp, asks, replies, run, events>>
    BY <1>1 DEF vars
  <2>2. SpecTypes' /\ DriverTypes' /\ TableTypes' /\ EventTypes' /\ ProvTypes' /\ AskTypes'
    <3>1. SpecTypes' /\ DriverTypes'
      BY <2>1 DEF SInv, SpecTypes, DriverTypes
    <3>2. TableTypes'
      BY <2>1 DEF SInv, TableTypes
    <3>3. EventTypes' /\ ProvTypes' /\ AskTypes'
      BY <2>1 DEF SInv, EventTypes, ProvTypes, AskTypes
    <3> QED
      BY <3>1, <3>2, <3>3
  <2>3. LinesFit' /\ ModeFits' /\ ChildFits' /\ Fresh' /\ Undecided'
    BY <2>1 DEF SInv, LinesFit, ModeFits, ChildFits, Fresh, Undecided, AppServer, ClaudeRun
  <2> QED
    BY <2>2, <2>3 DEF SInv
<1> QED
  BY <1>1, LaunchKeepsSInv, DriverKeepsSInv, StreamKeepsSInv, ReaderKeepsSInv, AnswerKeepsSInv,
     HandleKeepsSInv, ProviderKeepsSInv DEF Next

LEMMA SInvHolds == Spec => []SInv
  BY SInvInit, SInvStep, PTL DEF Spec

-----------------------------------------------------------------------------
(* Requests in flight: RInv is inductive relative to SInv. *)

LEMMA RInvInit == Init => RInv
<1> SUFFICES ASSUME Init PROVE RInv
  OBVIOUS
<1> QED
  BY DEF Init, RInv, TableFits, OneRequest, TurnFits, Startup

(* Steps that touch neither requests nor the phase of the driver. *)
LEMMA RInvFrame ==
    ASSUME RInv, UNCHANGED <<reader, closed, pending, inp, req, pc, wait, reply, spec>>,
           child' = "dead" => child = "dead", prov'.turn = "none" <=> prov.turn = "none",
           \A i \in DOMAIN outp' : IsResp(outp'[i]) => \E k \in DOMAIN outp : outp[k] = outp'[i]
    PROVE  RInv'
<1>1. TableFits'
  BY DEF RInv, TableFits, AppServer
<1>2. OneRequest' /\ TurnFits'
  BY DEF RInv, OneRequest, TurnFits, AppServer
<1> QED
  BY <1>1, <1>2 DEF RInv

(* Steps of the driver from the last reading on, or on the way to it. *)
LEMMA LeaveStartup ==
    ASSUME RInv, pc' \notin Startup \cup {"turn"}, UNCHANGED <<closed, pending, inp, req, reply, spec, outp>>,
           child' = "dead" => child = "dead", prov'.turn = prov.turn, reader' = "eof" <=> reader = "eof"
    PROVE  RInv'
<1>1. TableFits'
  BY DEF RInv, TableFits, AppServer
<1>2. OneRequest' /\ TurnFits'
  BY DEF RInv, OneRequest, TurnFits, AppServer
<1> QED
  BY <1>1, <1>2 DEF RInv

(* A new id differs from every id answered so far. *)
LEMMA FreshId ==
    ASSUME NEW n \in Nat
    PROVE  \A x \in 1..n : x \in 1..(n + 1) /\ x # n + 1
  OBVIOUS

LEMMA RegisterKeepsRInv ==
    ASSUME SInv, RInv, NEW m, m = pc, m \in Startup \cup {"final quota"}, ~wait, Register(m),
           UNCHANGED <<spec, reader, child, prov, outp>>
    PROVE  RInv'
<1>1. /\ ~closed /\ req' = req + 1 /\ reply' = "none" /\ pending' = pending \cup {req + 1}
      /\ inp' = IF child = "dead" THEN inp ELSE inp \cup {<<req + 1, m>>}
      /\ pc' = m /\ wait' = TRUE /\ closed' = closed
  BY DEF Register
<1>2. AppServer /\ TableFits /\ OneRequest /\ TurnFits /\ req \in Nat
  BY DEF SInv, ModeFits, AppPcs, RInv, TableTypes
<1>3. \A x \in 1..req : x \in 1..req' /\ x # req'
  BY <1>1, <1>2, FreshId
<1>4. TableFits'
  <2>1. /\ reader' = "eof" => closed' /\ pending' = {}
        /\ closed' => reader' = "eof"
        /\ child' = "dead" \/ ~AppServer' => inp' = {}
    BY <1>1, <1>2 DEF TableFits, AppServer
  <2>2. ASSUME NEW i \in DOMAIN outp, IsResp(outp[i])
        PROVE  outp[i].id \in 1..req' /\ \A q \in inp' : q[1] # outp[i].id
    <3>1. outp[i].id \in 1..req /\ \A q \in inp : q[1] # outp[i].id
      BY <1>2, <2>2 DEF TableFits
    <3>2. <<req', m>>[1] = req'
      OBVIOUS
    <3> QED
      BY <1>1, <1>3, <3>1, <3>2
  <2>3. \A q, p \in inp' : q[1] = p[1] => q = p
    <3>1. \A q \in inp : q[1] \in 1..req
      BY DEF SInv, TableTypes
    <3>2. <<req', m>>[1] = req'
      OBVIOUS
    <3>3. \A q \in inp : q[1] # req'
      BY <1>3, <3>1
    <3>4. \A q \in inp' : q \in inp \/ q = <<req', m>>
      BY <1>1
    <3>5. \A q, p \in inp : q[1] = p[1] => q = p
      BY <1>2 DEF TableFits
    <3> QED
      BY <3>2, <3>3, <3>4, <3>5
  <2> QED
    BY <2>1, <2>2, <2>3 DEF TableFits
<1>5. OneRequest'
  BY <1>1, <1>2 DEF OneRequest, Startup
<1>6. TurnFits'
  <2>1. <<req', m>>[2] = m
    OBVIOUS
  <2>2. \A q \in inp' : q \in inp \/ q = <<req', m>>
    BY <1>1
  <2>3. CASE m \in Startup
    <3>1. inp = {} /\ prov.turn = "none"
      BY <1>2, <2>3 DEF OneRequest, TurnFits
    <3>2. m # "turn" /\ m # "final quota"
      BY <2>3 DEF Startup
    <3> QED
      BY <1>1, <2>1, <2>2, <2>3, <3>1, <3>2 DEF TurnFits
  <2>4. CASE m = "final quota"
    <3>1. m \notin Startup /\ m # "turn" /\ m # "turn/start"
      BY <2>4 DEF Startup
    <3> QED
      BY <1>1, <1>2, <2>1, <2>2, <2>4, <3>1 DEF TurnFits, AppServer
  <2> QED
    BY <2>3, <2>4
<1> QED
  BY <1>4, <1>5, <1>6 DEF RInv

(* The driver goes on with no request in flight. *)
LEMMA NextRequest ==
    ASSUME SInv, RInv, pc \in Startup, inp = {}, pending = {}, wait' = FALSE,
           UNCHANGED <<closed, pending, inp, req, reply, spec, outp, child, prov, reader>>,
           pc' \in Startup => prov.turn = "none"
    PROVE  RInv'
<1>1. TableFits'
  BY DEF RInv, TableFits, AppServer
<1>2. OneRequest' /\ TurnFits'
  BY DEF RInv, OneRequest, TurnFits, AppServer
<1> QED
  BY <1>1, <1>2 DEF RInv

LEMMA DriverKeepsRInv ==
    ASSUME SInv, RInv, DriverStep \/ DriverTimer
    PROVE  RInv'
<1>1. UNCHANGED <<spec, term, outp, asks, replies, run>>
  BY DriverFrame
<1>2. CASE \E m \in Startup : StartupRequest(m)
  <2>1. PICK m \in Startup : StartupRequest(m)
    BY <1>2
  <2>2. CASE Register(m)
    BY <2>1, <2>2, RegisterKeepsRInv DEF StartupRequest
  <2>3. CASE StartupFails(m) /\ UNCHANGED <<rpcVars, inp>>
    <3>1. inp = {} /\ pending = {} /\ prov.turn = "none"
      BY <2>1 DEF RInv, OneRequest, TurnFits, StartupRequest
    <3>2. wait' = FALSE
      BY <2>1, <2>3 DEF SInv, TableTypes, StartupRequest, rpcVars
    <3> QED
      BY <1>1, <2>1, <2>3, <3>1, <3>2, NextRequest DEF StartupRequest, rpcVars
  <2> QED
    BY <2>1, <2>2, <2>3 DEF StartupRequest
<1>3. CASE \E m \in Startup : StartupAnswered(m)
  <2>1. PICK m \in Startup : StartupAnswered(m)
    BY <1>3
  <2>2. /\ pc = m /\ wait /\ reply # "none" /\ wait' = FALSE
        /\ UNCHANGED <<closed, pending, inp, req, reply, spec, outp, child, prov, reader>>
    BY <2>1 DEF StartupAnswered, tableVars
  <2>3. inp = {} /\ pending = {}
    BY <2>2 DEF RInv, OneRequest
  <2>4. pc' \in Startup => m # "turn/start"
    BY <2>1 DEF StartupAnswered, StartupFails, Decide, AfterRequest, Startup
  <2>5. pc' \in Startup => prov.turn = "none"
    BY <2>2, <2>4 DEF RInv, TurnFits
  <2> QED
    BY <2>2, <2>3, <2>5, NextRequest
<1>4. CASE StartupCancelled \/ TurnTerminal \/ TurnCancelled \/ StartupTimeout \/ TurnTimeout
  <2>1. pc' = "final quota" /\ UNCHANGED <<closed, pending, inp, req, reply, child, prov, reader>>
    BY <1>4 DEF StartupCancelled, TurnTerminal, TurnCancelled, StartupTimeout, TurnTimeout, Decide, tableVars
  <2> QED
    BY <1>1, <2>1, LeaveStartup DEF Startup
<1>5. CASE TurnSteer
  <2>1. prov'.turn = prov.turn
    BY <1>5, ProvNumbers DEF TurnSteer, Prov
  <2> QED
    BY <1>1, <1>5, <2>1, RInvFrame DEF TurnSteer, rpcVars
<1>6. CASE FinalQuotaRequest
  <2>1. CASE Register("final quota")
    BY <1>1, <1>6, <2>1, RegisterKeepsRInv DEF FinalQuotaRequest
  <2>2. CASE pc' = "terminate" /\ UNCHANGED <<rpcVars, status, inp>>
    BY <1>1, <1>6, <2>2, LeaveStartup DEF FinalQuotaRequest, rpcVars, Startup
  <2> QED
    BY <1>6, <2>1, <2>2 DEF FinalQuotaRequest
<1>7. CASE FinalQuotaAnswered \/ FinalQuotaTimeout
  <2>1. pc' = "terminate" /\ UNCHANGED <<closed, pending, inp, req, reply, child, prov, reader>>
    BY <1>7 DEF FinalQuotaAnswered, FinalQuotaTimeout, tableVars
  <2> QED
    BY <1>1, <2>1, LeaveStartup DEF Startup
<1>8. CASE TearDown \/ GraceOver \/ SendEnded \/ AbortTasks
  <2>1. /\ pc' \in {"grace", "ending", "abort", "done"} /\ UNCHANGED <<closed, pending, inp, req, reply, prov>>
        /\ child' = "dead" => child = "dead"
        /\ reader' = "eof" <=> reader = "eof"
    BY <1>8 DEF TearDown, GraceOver, SendEnded, AbortTasks, rpcVars, Terminate, Kill
  <2> QED
    BY <1>1, <2>1, LeaveStartup DEF Startup
<1> QED
  BY <1>2, <1>3, <1>4, <1>5, <1>6, <1>7, <1>8 DEF DriverStep, DriverTimer

(* The reader takes a response: what it answers is no longer with the provider. *)
LEMMA ReaderKeepsRInv ==
    ASSUME SInv, RInv, ReaderStep
    PROVE  RInv'
<1>1. /\ UNCHANGED <<spec, pc, wait, req, status, ctl, child, prov, inp, run>>
      /\ ProvTypes /\ TableFits /\ OneRequest /\ TurnFits
  BY ReaderFrame DEF SInv, RInv
<1>2. CASE ReadLine
  <2> DEFINE l == Head(outp)
  <2>1. /\ reader = "on" /\ reader' = reader /\ closed' = closed /\ outp # << >> /\ outp' = Tail(outp)
        /\ ReadResponse(l) \/ ReadNotification(l) \/ ReadServerRequest(l)
    BY <1>2 DEF ReadLine
  <2>2. /\ l = outp[1] /\ 1 \in DOMAIN outp
        /\ \A i \in DOMAIN outp' : i + 1 \in DOMAIN outp /\ outp'[i] = outp[i + 1]
    BY <1>1, <2>1, TakenLine
  <2> HIDE DEF l
  <2>3. \A i \in DOMAIN outp' : \E k \in DOMAIN outp : outp[k] = outp'[i]
    BY <2>2
  <2>4. CASE ReadNotification(l) \/ ReadServerRequest(l)
    <3>1. UNCHANGED <<pending, reply>>
      BY <2>4 DEF ReadNotification, ReadServerRequest
    <3> QED
      BY <1>1, <2>1, <2>3, <3>1, RInvFrame
  <2>5. CASE ReadResponse(l)
    <3>1. /\ IsResp(l) /\ pending' = pending \ {l.id}
          /\ reply' = IF l.id \in pending /\ l.id = req THEN l.res ELSE reply
      BY <2>5 DEF ReadResponse, IsResp
    <3>2. \A q \in inp : q[1] # l.id
      BY <1>1, <2>2, <3>1 DEF TableFits
    <3>3. TableFits'
      BY <1>1, <2>1, <2>3, <3>1 DEF TableFits, AppServer
    <3>4. OneRequest'
      <4>1. <<req, pc>>[1] = req
        OBVIOUS
      <4> QED
        BY <1>1, <3>1, <3>2, <4>1 DEF OneRequest
    <3>5. TurnFits'
      BY <1>1, <3>1 DEF TurnFits, AppServer
    <3> QED
      BY <3>3, <3>4, <3>5 DEF RInv
  <2> QED
    BY <2>1, <2>4, <2>5
<1>3. CASE ReadEof
  <2>1. /\ reader' = "eof" /\ closed' = TRUE /\ pending' = {} /\ outp' = outp /\ child = "dead"
    BY <1>3 DEF ReadEof
  <2>2. inp = {}
    BY <1>1, <2>1 DEF TableFits
  <2>3. TableFits'
    BY <1>1, <2>1, <2>2 DEF TableFits, AppServer
  <2>4. OneRequest' /\ TurnFits'
    BY <1>1, <2>1, <2>2 DEF OneRequest, TurnFits, AppServer
  <2> QED
    BY <2>3, <2>4 DEF RInv
<1> QED
  BY <1>2, <1>3 DEF ReaderStep

(* What the provider writes during its turn, in one form for all invariants. *)
Writing == Report \/ ReportClaude \/ EndTurn \/ EndClaude \/ \E m \in Methods : Ask(m)
Written(l) ==
    /\ Fits(l) /\ ~IsResp(l) /\ outp' = Append(outp, l)
    /\ prov.turn = "open" /\ child \in {"up", "term"} /\ UNCHANGED <<child, inp>>
    /\ prov'.sandbox = prov.sandbox /\ prov'.denied = prov.denied /\ prov'.lines = prov.lines + 1
    /\ prov'.ok = prov.ok /\ prov'.diag = prov.diag
    /\ IF IsVerdict(l) THEN prov'.turn = "over" /\ prov'.said = l.status
                       ELSE prov'.turn = prov.turn /\ prov'.said = prov.said
    /\ IsAsk(l) => l.id = prov.lines

LEMMA TurnWrites ==
    ASSUME SInv, Writing
    PROVE  \E l : Written(l)
<1>0. prov \in Prov
  BY ProvNumbers
<1>1. CASE Report
  <2>1. PICK l \in TurnLines : Write(l)
    BY <1>1 DEF Report
  <2>2. Fits(l) /\ ~IsResp(l) /\ ~IsAsk(l) /\ ~IsVerdict(l)
    BY <1>1, <2>1, ReportFits DEF Report, Write, Alive, IsResp, IsAsk, IsVerdict
  <2>3. /\ prov.turn = "open" /\ prov' = [prov EXCEPT !.lines = @ + 1] /\ child \in {"up", "term"}
        /\ outp' = Append(outp, l) /\ UNCHANGED <<child, inp>>
    BY <1>1, <2>1 DEF Report, Write, Alive
  <2>4. Written(l)
    BY <1>0, <2>2, <2>3 DEF Written, Prov
  <2> QED
    BY <2>4
<1>2. CASE ReportClaude
  <2>1. PICK l \in ClaudeLines :
           Write(l) /\ \E n : prov' = [prov EXCEPT !.lines = @ + 1, !.spent = n]
    BY <1>2 DEF ReportClaude
  <2>2. Fits(l) /\ ~IsResp(l) /\ ~IsAsk(l) /\ ~IsVerdict(l)
    BY <1>2, <2>1, ClaudeFits DEF ReportClaude, IsResp, IsAsk, IsVerdict
  <2>3. /\ prov.turn = "open" /\ child \in {"up", "term"}
        /\ outp' = Append(outp, l) /\ UNCHANGED <<child, inp>>
    BY <1>2, <2>1 DEF ReportClaude, Write, Alive
  <2>4. Written(l)
    BY <1>0, <2>1, <2>2, <2>3 DEF Written, Prov
  <2> QED
    BY <2>4
<1>3. CASE EndTurn
  <2>1. PICK s \in Statuses, m \in Texts :
           /\ Write(Verdict(s, m))
           /\ prov' = [prov EXCEPT !.lines = @ + 1, !.turn = "over", !.said = s]
    BY <1>3 DEF EndTurn
  <2> DEFINE l == Verdict(s, m)
  <2>2. Fits(l) /\ IsVerdict(l) /\ l.status = s
    BY <1>3, <2>1, VerdictFits DEF EndTurn, Write, Alive
  <2>3. /\ prov.turn = "open" /\ child \in {"up", "term"}
        /\ outp' = Append(outp, l) /\ UNCHANGED <<child, inp>>
    BY <1>3, <2>1 DEF EndTurn, Write, Alive
  <2> HIDE DEF l
  <2>4. Written(l)
    BY <1>0, <2>1, <2>2, <2>3 DEF Written, Prov, IsResp, IsAsk, IsVerdict
  <2> QED
    BY <2>4
<1>4. CASE EndClaude
  <2>1. PICK s \in {"Completed", "Failed"}, m \in Texts, extra \in {0, 1} :
           /\ Write([t |-> "note", m |-> "result", status |-> s, msg |-> m, n |-> prov.spent + extra])
           /\ prov' = [prov EXCEPT !.lines = @ + 1, !.turn = "over", !.said = s,
                                   !.spent = @ + extra, !.results = @ + 1]
    BY <1>4 DEF EndClaude
  <2> DEFINE l == [t |-> "note", m |-> "result", status |-> s, msg |-> m, n |-> prov.spent + extra]
  <2>2. Fits(l)
    <3>1. prov.spent + extra \in Nat
      BY ProvNumbers
    <3> QED
      BY <1>4, <3>1, ResultFits DEF EndClaude
  <2>3. IsVerdict(l) /\ l.status = s
    BY DEF IsVerdict
  <2>4. /\ prov.turn = "open" /\ child \in {"up", "term"}
        /\ outp' = Append(outp, l) /\ UNCHANGED <<child, inp>>
    BY <1>4, <2>1 DEF EndClaude, Write, Alive
  <2> HIDE DEF l
  <2>5. Written(l)
    BY <1>0, <2>1, <2>2, <2>3, <2>4 DEF Written, Prov, IsResp, IsAsk, IsVerdict
  <2> QED
    BY <2>5
<1>5. CASE \E m \in Methods : Ask(m)
  <2>1. PICK m \in Methods : Ask(m)
    BY <1>5
  <2> DEFINE l == [t |-> "ask", id |-> prov.lines, m |-> m]
  <2>2. Fits(l) /\ IsAsk(l) /\ l.id = prov.lines
    BY <2>1, AskFits DEF IsAsk
  <2>3. /\ prov.turn = "open" /\ prov' = [prov EXCEPT !.lines = @ + 1] /\ child \in {"up", "term"}
        /\ outp' = Append(outp, l) /\ UNCHANGED <<child, inp>>
    BY <2>1 DEF Ask, Write, Alive
  <2> HIDE DEF l
  <2>4. Written(l)
    BY <1>0, <2>2, <2>3 DEF Written, Prov, IsResp, IsAsk, IsVerdict
  <2> QED
    BY <2>4
<1> QED
  BY <1>1, <1>2, <1>3, <1>4, <1>5 DEF Writing

LEMMA ProviderKeepsRInv ==
    ASSUME SInv, RInv, Provider \/ Exit
    PROVE  RInv'
<1>1. /\ UNCHANGED <<spec, pc, wait, req, reply, pending, closed, reader, term, status, ctl,
                     asks, replies, run, events>>
      /\ ProvTypes /\ TableFits /\ OneRequest /\ TurnFits
  BY ProviderFrame DEF SInv, RInv
<1>2. CASE \E q \in inp, res \in {"ok", "bare", "err"} : Answer(q, res)
  <2>1. PICK q \in inp, res \in {"ok", "bare", "err"} : Answer(q, res)
    BY <1>2
  <2> DEFINE l == [t |-> "resp", id |-> q[1], res |-> res]
  <2>2. /\ child' = child /\ inp' = inp \ {q} /\ outp' = Append(outp, l)
        /\ prov'.turn = prov.turn \/ (q[2] = "turn/start" /\ prov'.turn = "open")
    <3>1. prov \in Prov
      BY ProvNumbers
    <3> QED
      BY <2>1, <3>1 DEF Answer, Prov
  <2>3. q[1] \in 1..req /\ l \in Line /\ l.id = q[1]
    <3>1. inp \subseteq (1..req) \X (Startup \cup {"final quota"})
      BY DEF SInv, TableTypes
    <3>2. q[1] \in 1..req
      BY <3>1
    <3>3. q[1] \in Nat
      BY <3>2
    <3>4. l \in Responses
      BY <3>3 DEF Responses, Replies
    <3> QED
      BY <3>2, <3>4 DEF Line
  <2> HIDE DEF l
  <2>4. \A i \in DOMAIN outp' : (i \in DOMAIN outp /\ outp'[i] = outp[i]) \/ outp'[i] = l
    BY <1>1, <2>2, <2>3, Appended
  <2>5. \A p \in inp' : p[1] # q[1]
    BY <1>1, <2>2 DEF TableFits
  <2>6. TableFits'
    BY <1>1, <2>2, <2>3, <2>4, <2>5 DEF TableFits, AppServer
  <2>7. OneRequest'
    BY <1>1, <2>2 DEF OneRequest
  <2>8. CASE prov'.turn = prov.turn
    <3>1. TurnFits'
      BY <1>1, <2>2, <2>8 DEF TurnFits, AppServer
    <3> QED
      BY <2>6, <2>7, <3>1 DEF RInv
  <2>9. CASE q[2] = "turn/start" /\ prov'.turn = "open"
    <3>1. \A p \in inp' : p[2] = "final quota"
      BY <1>1, <2>2, <2>9 DEF TurnFits
    <3>2. pc # "turn"
      BY <1>1 DEF TurnFits
    <3>3. pc \in Startup => pc = "turn/start" /\ wait
      <4>1. <<req, pc>>[2] = pc
        OBVIOUS
      <4> QED
        BY <1>1, <2>9, <4>1 DEF OneRequest
    <3>4. TurnFits'
      BY <1>1, <3>1, <3>2, <3>3 DEF TurnFits
    <3> QED
      BY <2>6, <2>7, <3>4 DEF RInv
  <2> QED
    BY <2>2, <2>8, <2>9
<1>3. CASE Writing
  <2>1. PICK l : Written(l)
    BY <1>3, TurnWrites
  <2>2. \A i \in DOMAIN outp' : (i \in DOMAIN outp /\ outp'[i] = outp[i]) \/ outp'[i] = l
    BY <1>1, <2>1, Appended DEF Written, Fits
  <2>3. \A i \in DOMAIN outp' : IsResp(outp'[i]) => \E k \in DOMAIN outp : outp[k] = outp'[i]
    BY <2>1, <2>2 DEF Written
  <2>4. prov'.turn # "none" /\ prov.turn # "none"
    BY <2>1 DEF Written
  <2> QED
    BY <1>1, <2>1, <2>3, <2>4, RInvFrame DEF Written
<1>4. CASE Exit
  <2>1. child' = "dead" /\ inp' = {} /\ outp' = outp /\ prov'.turn = prov.turn
    <3>1. prov \in Prov
      BY ProvNumbers
    <3> QED
      BY <1>4, <3>1 DEF Exit, Prov
  <2>2. TableFits'
    BY <1>1, <2>1 DEF TableFits, AppServer
  <2>3. OneRequest' /\ TurnFits'
    BY <1>1, <2>1 DEF OneRequest, TurnFits, AppServer
  <2> QED
    BY <2>2, <2>3 DEF RInv
<1> QED
  BY <1>2, <1>3, <1>4 DEF Provider, Writing

(* The stream drivers use none of this, and nothing is there at launch. *)
LEMMA StreamKeepsRInv ==
    ASSUME SInv, RInv, StreamStep
    PROVE  RInv'
<1>1. /\ UNCHANGED <<spec, wait, req, reply, pending, closed, reader, term, inp, replies>>
      /\ TableFits /\ ProvTypes
  BY StreamFrame DEF SInv, RInv
<1>2. pc \notin Startup /\ pc # "turn" /\ pc' \notin Startup \cup {"turn"}
  BY DEF StreamStep, StreamLoop, StreamFinish, StreamLine, StreamEof, StreamSteer, StreamSteerFails,
         StreamCut, StreamTerminate, StreamGrace, StreamEnd, Startup
<1>3. ~AppServer
  <2>1. pc \in StreamPcs
    BY DEF StreamStep, StreamLoop, StreamFinish, StreamLine, StreamEof, StreamSteer, StreamSteerFails,
           StreamCut, StreamTerminate, StreamGrace, StreamEnd, StreamPcs
  <2> QED
    BY <2>1 DEF SInv, ModeFits, AppServer
<1>4. inp = {}
  BY <1>1, <1>3 DEF TableFits
<1>5. \A i \in DOMAIN outp' : \E k \in DOMAIN outp : outp'[i] = outp[k]
  <2>1. CASE StreamLine
    BY <1>1, <2>1, TakenLine DEF StreamLine
  <2>2. CASE outp' = outp
    BY <2>2
  <2> QED
    BY <2>1, <2>2 DEF StreamStep, StreamLoop, StreamFinish, StreamEof, StreamSteer, StreamSteerFails,
                      StreamCut, StreamTerminate, StreamGrace, StreamEnd
<1>6. TableFits'
  BY <1>1, <1>3, <1>4, <1>5 DEF TableFits, AppServer
<1>7. OneRequest' /\ TurnFits'
  BY <1>1, <1>2, <1>3, <1>4 DEF OneRequest, TurnFits, AppServer
<1> QED
  BY <1>6, <1>7 DEF RInv

LEMMA LaunchKeepsRInv ==
    ASSUME SInv, RInv, Launch \/ SpawnFails
    PROVE  RInv'
<1>1. /\ pc = "launch"
      /\ UNCHANGED <<wait, req, reply, pending, closed, term, status, ctl, inp, outp, asks,
                     replies, events>>
  BY LaunchFrame
<1>2. /\ inp = {} /\ outp = << >> /\ pending = {} /\ closed = FALSE /\ wait = FALSE /\ prov.turn = "none"
      /\ prov \in Prov
  BY <1>1, ProvNumbers DEF SInv, ModeFits, Fresh, TableTypes
<1>3. reader # "eof" /\ reader' # "eof"
  <2>1. reader = "off"
    BY <1>1 DEF SInv, ModeFits, AppServer
  <2> QED
    BY <2>1 DEF Launch, LaunchAppServer, AppServerUnavailable, LaunchDocker, LaunchClaude, SpawnFails
<1>4. (pc' = "initialize" /\ prov'.turn = "none") \/ pc' \notin Startup \cup {"turn"}
  BY <1>2 DEF Launch, LaunchAppServer, AppServerUnavailable, LaunchDocker, LaunchClaude, SpawnFails,
              Spawn, Startup, Prov
<1>5. TableFits'
  BY <1>1, <1>2, <1>3 DEF TableFits
<1>6. OneRequest' /\ TurnFits'
  BY <1>1, <1>2, <1>4 DEF OneRequest, TurnFits, Startup
<1> QED
  BY <1>5, <1>6 DEF RInv

LEMMA RInvStep == SInv /\ RInv /\ [Next]_vars => RInv'
<1> SUFFICES ASSUME SInv, RInv, [Next]_vars PROVE RInv'
  OBVIOUS
<1>1. CASE Launch \/ SpawnFails
  BY <1>1, LaunchKeepsRInv
<1>2. CASE DriverStep \/ DriverTimer
  BY <1>2, DriverKeepsRInv
<1>3. CASE StreamStep
  BY <1>3, StreamKeepsRInv
<1>4. CASE ReaderStep
  BY <1>4, ReaderKeepsRInv
<1>5. CASE \E a \in asks : AnswerAsk(a)
  <2>1. prov'.turn = prov.turn
    BY <1>5, ProvNumbers DEF AnswerAsk, Prov
  <2>2. UNCHANGED <<reader, closed, pending, inp, req, pc, wait, reply, spec, child, outp>>
    BY <1>5 DEF AnswerAsk, rpcVars
  <2> QED
    BY <2>1, <2>2, RInvFrame
<1>6. CASE Cancel \/ Steer \/ DropReceiver
  <2>1. UNCHANGED <<reader, closed, pending, inp, req, pc, wait, reply, spec, child, prov, outp>>
    BY <1>6, HandleFrame
  <2> QED
    BY <2>1, RInvFrame
<1>7. CASE Provider \/ Exit
  BY <1>7, ProviderKeepsRInv
<1>8. CASE UNCHANGED vars
  BY <1>8, RInvFrame DEF vars
<1> QED
  BY <1>1, <1>2, <1>3, <1>4, <1>5, <1>6, <1>7, <1>8 DEF Next

LEMMA RInvHolds == Spec => []RInv
<1>1. Init => RInv
  BY RInvInit
<1>2. SInv /\ RInv /\ [Next]_vars => RInv'
  BY RInvStep
<1> QED
  BY <1>1, <1>2, SInvHolds, PTL DEF Spec

-----------------------------------------------------------------------------
(* What no step takes back: events, and the receiver that is gone. *)

Grows == /\ events.before \subseteq events'.before /\ events.after \subseteq events'.after
         /\ ctl.gone => ctl'.gone

LEMMA EmitGrows ==
    ASSUME EventTypes, NEW es, Emit(es)
    PROVE  Tells(es)
  BY DEF EventTypes, Emit, Tells

LEMMA EndGrows ==
    ASSUME EventTypes, NEW es, EmitEnded(es)
    PROVE  /\ events.before \subseteq events'.before /\ events.after \subseteq events'.after
           /\ ctl.gone \/ es \subseteq events'.before
  BY DEF EventTypes, EmitEnded

LEMMA DriverGrows ==
    ASSUME SInv, DriverStep \/ DriverTimer
    PROVE  Grows
<1>1. EventTypes /\ ctl \in [cancel : BOOLEAN, steers : Nat, gone : BOOLEAN]
  BY DEF SInv, DriverTypes
<1>2. ctl' = ctl \/ TurnSteer
  BY DEF DriverStep, DriverTimer, StartupRequest, StartupAnswered, StartupCancelled, TurnTerminal,
         TurnCancelled, FinalQuotaRequest, FinalQuotaAnswered, TearDown, GraceOver, SendEnded,
         AbortTasks, StartupTimeout, TurnTimeout, FinalQuotaTimeout
<1>3. ctl'.gone = ctl.gone
  BY <1>1, <1>2 DEF TurnSteer
<1>4. CASE \E es : Emit(es)
  BY <1>1, <1>3, <1>4, EmitGrows DEF Tells, Grows
<1>5. CASE events' = events
  BY <1>3, <1>5 DEF Grows
<1>6. CASE SendEnded
  BY <1>1, <1>3, <1>6, EndGrows DEF SendEnded, Grows
<1>7. CASE \E m \in Startup : StartupRequest(m)
  <2>1. PICK m \in Startup : StartupRequest(m)
    BY <1>7
  <2> QED
    BY <1>4, <1>5, <2>1 DEF StartupRequest, StartupFails, Register
<1>8. CASE \E m \in Startup : StartupAnswered(m)
  <2>1. PICK m \in Startup : StartupAnswered(m)
    BY <1>8
  <2> QED
    BY <1>4, <1>5, <2>1 DEF StartupAnswered, StartupFails
<1>9. CASE FinalQuotaRequest
  BY <1>4, <1>5, <1>9 DEF FinalQuotaRequest, Register
<1>10. CASE FinalQuotaAnswered \/ DriverTimer
  BY <1>4, <1>10 DEF FinalQuotaAnswered, DriverTimer, StartupTimeout, TurnTimeout, FinalQuotaTimeout
<1> QED
  BY <1>5, <1>6, <1>7, <1>8, <1>9, <1>10 DEF DriverStep, StartupCancelled, TurnTerminal, TurnSteer,
     TurnCancelled, TearDown, GraceOver, AbortTasks

LEMMA EventsGrow ==
    ASSUME SInv, [Next]_vars
    PROVE  Grows
<1>1. EventTypes /\ ctl \in [cancel : BOOLEAN, steers : Nat, gone : BOOLEAN]
  BY DEF SInv, DriverTypes
<1>2. CASE DriverStep \/ DriverTimer
  BY <1>2, DriverGrows
<1>3. CASE Launch \/ SpawnFails
  BY <1>3, LaunchFrame DEF Grows
<1>4. CASE StreamStep
  <2>1. ctl'.gone = ctl.gone
    BY <1>1, <1>4 DEF StreamStep, StreamLoop, StreamFinish, StreamLine, StreamEof, StreamSteer,
          StreamSteerFails, StreamCut, StreamTerminate, StreamGrace, StreamEnd
  <2>2. CASE StreamLine
    <3>1. (\E es : Emit(es)) \/ events' = events
      BY <2>2 DEF StreamLine
    <3> QED
      BY <1>1, <2>1, <3>1, EmitGrows DEF Tells, Grows
  <2>3. CASE StreamEnd
    <3>1. \E es : EmitEnded(es)
      BY <2>3 DEF StreamEnd
    <3> QED
      BY <1>1, <2>1, <3>1, EndGrows DEF Grows
  <2>4. CASE events' = events
    BY <2>1, <2>4 DEF Grows
  <2> QED
    BY <1>4, <2>2, <2>3, <2>4 DEF StreamStep, StreamLoop, StreamFinish, StreamEof, StreamSteer,
          StreamSteerFails, StreamCut, StreamTerminate, StreamGrace
<1>5. CASE ReaderStep
  <2>1. (\E es : Emit(es)) \/ events' = events
    BY <1>5 DEF ReaderStep, ReadLine, ReadEof, ReadResponse, ReadNotification, ReadServerRequest
  <2>2. ctl' = ctl
    BY <1>5, ReaderFrame
  <2> QED
    BY <1>1, <2>1, <2>2, EmitGrows DEF Tells, Grows
<1>6. CASE \E a \in asks : AnswerAsk(a)
  BY <1>6 DEF AnswerAsk, Grows
<1>7. CASE Cancel \/ Steer \/ DropReceiver
  BY <1>1, <1>7 DEF Cancel, Steer, DropReceiver, Grows
<1>8. CASE Provider \/ Exit
  BY <1>8, ProviderFrame DEF Grows
<1>9. CASE UNCHANGED vars
  BY <1>9 DEF vars, Grows
<1> QED
  BY <1>2, <1>3, <1>4, <1>5, <1>6, <1>7, <1>8, <1>9 DEF Next

-----------------------------------------------------------------------------
(* Permissions: what the provider runs under. *)

(* A step that leaves the sandbox and the policy of the provider alone. *)
Unboxed ==
    /\ spec' = spec /\ (child = "none" => child' = "none")
    /\ prov'.sandbox = prov.sandbox /\ prov'.denied = prov.denied
    /\ prov'.turn # "none" => prov.turn # "none"

LEMMA UnboxedKeepsBoxed ==
    ASSUME Boxed, Unboxed
    PROVE  Boxed'
  BY DEF Boxed, Unboxed, ReadOnlyStays

LEMMA LaunchBoxes ==
    ASSUME SInv, Boxed, Launch \/ SpawnFails
    PROVE  Boxed'
<1>1. prov \in Prov /\ spec \in RunSpec
  BY ProvNumbers DEF SInv, SpecTypes
<1>2. spec.deny \subseteq Denials
  BY <1>1 DEF RunSpec
<1>3. prov.turn = "none"
  BY LaunchFrame DEF SInv, ModeFits, Fresh
<1>4. CASE LaunchAppServer
  <2>1. /\ spec'.deny = spec.deny /\ prov'.turn = "none"
        /\ prov'.denied = spec.deny \cap {"mcp tool", "server", "files"}
    BY <1>1, <1>4 DEF LaunchAppServer, Spawn, CodexPolicy, Prov, RunSpec
  <2> QED
    BY <2>1 DEF Boxed, ReadOnlyStays
<1>5. CASE (AppServerUnavailable /\ spec.budget = "none") \/ LaunchDocker
  <2>1. /\ spec'.deny = spec.deny /\ spec'.perm = spec.perm
        /\ prov'.denied = spec.deny \cap {"mcp tool", "server", "files"}
        /\ prov'.sandbox \in {ExecSandbox(spec.perm, FALSE), ExecSandbox(spec.perm, TRUE)}
    BY <1>1, <1>5 DEF AppServerUnavailable, LaunchDocker, Spawn, CodexPolicy, Prov, RunSpec
  <2>2. spec.perm = "ReadOnly" => prov'.sandbox = "read-only"
    BY <2>1 DEF ExecSandbox
  <2> QED
    BY <2>1, <2>2 DEF Boxed, ReadOnlyStays
<1>6. CASE LaunchClaude
  <2>1. /\ spec'.deny = spec.deny /\ spec'.perm = spec.perm /\ prov'.denied = spec.deny \cap Denials
        /\ prov'.sandbox = ClaudeMode(spec.perm, spec.approver)
    BY <1>1, <1>6 DEF LaunchClaude, Spawn, ClaudePolicy, Prov, RunSpec
  <2>2. spec.perm = "ReadOnly" => prov'.sandbox = "plan"
    BY <2>1 DEF ClaudeMode
  <2> QED
    BY <1>2, <2>1, <2>2 DEF Boxed, ReadOnlyStays
<1>7. CASE (AppServerUnavailable /\ spec.budget # "none") \/ SpawnFails
  BY <1>7, UnboxedKeepsBoxed DEF AppServerUnavailable, SpawnFails, Unboxed
<1> QED
  BY <1>4, <1>5, <1>6, <1>7 DEF Launch

LEMMA AnswerBoxes ==
    ASSUME SInv, RInv, Boxed, NEW q \in inp, NEW res \in {"ok", "bare", "err"}, Answer(q, res)
    PROVE  Boxed'
<1>1. spec' = spec /\ child' = child
  BY DEF Answer
<1>2. prov \in Prov
  BY ProvNumbers
<1>3. AppServer
  BY DEF RInv, TableFits
<1>4. CASE prov.turn # "none"
  <2>1. q[2] = "final quota"
    BY <1>3, <1>4 DEF RInv, TurnFits
  <2>2. prov' = prov \/ prov' = [prov EXCEPT !.sandbox = prov.sandbox, !.turn = prov.turn]
    BY <2>1 DEF Answer
  <2> QED
    BY <1>1, <1>2, <1>4, <2>2, UnboxedKeepsBoxed DEF Unboxed, Prov
<1>5. CASE prov.turn = "none" /\ q[2] = "turn/start"
  <2>1. prov' = prov \/ prov' = [prov EXCEPT !.sandbox = TurnSandbox(spec.perm), !.turn = "open"]
    BY <1>5 DEF Answer
  <2>2. CASE prov' = prov
    BY <1>1, <2>2, UnboxedKeepsBoxed DEF Unboxed
  <2>3. CASE prov' = [prov EXCEPT !.sandbox = TurnSandbox(spec.perm), !.turn = "open"]
    <3>1. prov'.sandbox = TurnSandbox(spec.perm) /\ prov'.denied = prov.denied
      BY <1>2, <2>3 DEF Prov
    <3>2. spec.perm = "ReadOnly" => prov'.sandbox = "read-only"
      BY <3>1 DEF TurnSandbox
    <3> QED
      BY <1>1, <3>1, <3>2 DEF Boxed, ReadOnlyStays
  <2> QED
    BY <2>1, <2>2, <2>3
<1>6. CASE prov.turn = "none" /\ q[2] # "turn/start"
  <2>1. prov'.turn = "none" /\ prov'.denied = prov.denied
    BY <1>2, <1>6 DEF Answer, Prov
  <2> QED
    BY <1>1, <2>1 DEF Boxed, ReadOnlyStays
<1> QED
  BY <1>4, <1>5, <1>6

LEMMA BoxedStep ==
    ASSUME SInv, RInv, Boxed, [Next]_vars
    PROVE  Boxed'
<1>0. prov \in Prov
  BY ProvNumbers
<1>1. CASE Launch \/ SpawnFails
  BY <1>1, LaunchBoxes
<1>2. CASE \E q \in inp, res \in {"ok", "bare", "err"} : Answer(q, res)
  BY <1>2, AnswerBoxes
<1>3. CASE Writing
  <2>1. Unboxed
    <3>1. spec' = spec
      BY <1>3, ProviderFrame DEF Writing, Provider
    <3> QED
      BY <1>3, <3>1, TurnWrites DEF Written, Unboxed
  <2> QED
    BY <2>1, UnboxedKeepsBoxed
<1>4. CASE Exit
  <2>1. Unboxed
    BY <1>0, <1>4, ProviderFrame DEF Exit, Unboxed, Prov
  <2> QED
    BY <2>1, UnboxedKeepsBoxed
<1>5. CASE DriverStep \/ DriverTimer
  <2>1. spec' = spec
    BY <1>5, DriverFrame
  <2>2. prov' = prov \/ prov' = [prov EXCEPT !.steered = @ + 1]
    BY <1>5 DEF DriverStep, DriverTimer, StartupRequest, StartupAnswered, StartupCancelled,
         TurnTerminal, TurnSteer, TurnCancelled, FinalQuotaRequest, FinalQuotaAnswered, TearDown,
         GraceOver, SendEnded, AbortTasks, StartupTimeout, TurnTimeout, FinalQuotaTimeout
  <2>3. child = "none" => child' = "none"
    <3>1. child # "none"
      <4>1. pc \in AppPcs
        BY <1>5 DEF DriverStep, DriverTimer, StartupRequest, StartupAnswered, StartupCancelled,
             TurnTerminal, TurnSteer, TurnCancelled, FinalQuotaRequest, FinalQuotaAnswered, TearDown,
             GraceOver, SendEnded, AbortTasks, StartupTimeout, TurnTimeout, FinalQuotaTimeout,
             AppPcs, InStartup
      <4> QED
        BY <4>1 DEF SInv, ModeFits, ChildFits, AppServer
    <3> QED
      BY <3>1
  <2>4. Unboxed
    BY <1>0, <2>1, <2>2, <2>3 DEF Unboxed, Prov
  <2> QED
    BY <2>4, UnboxedKeepsBoxed
<1>6. CASE StreamStep
  <2>1. spec' = spec
    BY <1>6, StreamFrame
  <2>2. pc \in StreamPcs
    BY <1>6 DEF StreamStep, StreamLoop, StreamFinish, StreamLine, StreamEof, StreamSteer,
           StreamSteerFails, StreamCut, StreamTerminate, StreamGrace, StreamEnd, StreamPcs
  <2>3. child # "none"
    BY <2>2 DEF SInv, ModeFits, ChildFits
  <2>4. prov'.sandbox = prov.sandbox /\ prov'.denied = prov.denied /\ prov'.turn = prov.turn
    BY <1>0, <1>6 DEF StreamStep, StreamLoop, StreamFinish, StreamLine, StreamEof, StreamSteer,
           StreamSteerFails, StreamCut, StreamTerminate, StreamGrace, StreamEnd, Prov
  <2>5. Unboxed
    BY <2>1, <2>3, <2>4 DEF Unboxed
  <2> QED
    BY <2>5, UnboxedKeepsBoxed
<1>7. CASE ReaderStep
  BY <1>7, ReaderFrame, UnboxedKeepsBoxed DEF Unboxed
<1>8. CASE \E a \in asks : AnswerAsk(a)
  <2>1. Unboxed
    BY <1>0, <1>8 DEF AnswerAsk, Unboxed, Prov
  <2> QED
    BY <2>1, UnboxedKeepsBoxed
<1>9. CASE Cancel \/ Steer \/ DropReceiver
  BY <1>9, HandleFrame, UnboxedKeepsBoxed DEF Unboxed
<1>10. CASE UNCHANGED vars
  BY <1>10, UnboxedKeepsBoxed DEF vars, Unboxed
<1> QED
  BY <1>1, <1>2, <1>3, <1>4, <1>5, <1>6, <1>7, <1>8, <1>9, <1>10 DEF Next, Provider, Writing

LEMMA BoxedHolds == Spec => []Boxed
<1>1. Init => Boxed
  BY DEF Init, Boxed, ReadOnlyStays
<1>2. SInv /\ RInv /\ Boxed /\ [Next]_vars => Boxed'
  BY BoxedStep
<1> QED
  BY <1>1, <1>2, SInvHolds, RInvHolds, PTL DEF Spec

-----------------------------------------------------------------------------
(* Permissions: requests of the provider and the answers to them.  A request *)
(* is a line, then perhaps a waiting task, then an answer: never two of them. *)

LEMMA IdOrder ==
    ASSUME NEW n \in Nat
    PROVE  n < n + 1 /\ \A x \in Nat : x < n => x < n + 1 /\ x # n
  OBVIOUS

LEMMA QuietKeepsKInv ==
    ASSUME KInv, UNCHANGED <<outp, asks, replies>>, prov'.lines = prov.lines
    PROVE  KInv'
  BY DEF KInv, AsksKnown, DecisionKept

LEMMA WriteKeepsKInv ==
    ASSUME SInv, KInv, NEW l \in Line, outp' = Append(outp, l), UNCHANGED <<asks, replies>>,
           prov'.lines \in {prov.lines, prov.lines + 1},
           IsAsk(l) => l.id = prov.lines /\ prov'.lines = prov.lines + 1
    PROVE  KInv'
<1>1. /\ prov.lines \in Nat /\ ProvTypes /\ \A a \in asks : a[1] \in Nat
      /\ \A r \in replies : r.id \in Nat
  BY DEF SInv, ProvTypes, Prov, AskTypes
<1>2. \A x \in Nat : x < prov.lines => x < prov'.lines /\ x # prov.lines
  BY <1>1, IdOrder
<1>3. IsAsk(l) => l.id < prov'.lines
  BY <1>1, IdOrder
<1>4. /\ \A i \in DOMAIN outp : outp[i] \in Line
      /\ \A i \in DOMAIN outp' : (i \in DOMAIN outp /\ outp'[i] = outp[i]) \/ (i = Len(outp) + 1 /\ outp'[i] = l)
  BY <1>1, Appended DEF ProvTypes
<1>5. \A i \in DOMAIN outp : IsAsk(outp[i]) => outp[i].id \in Nat
  BY <1>4, LineKinds
<1>6. ASSUME NEW i \in DOMAIN outp', IsAsk(outp'[i])
      PROVE  /\ outp'[i].id < prov'.lines
             /\ \A k \in DOMAIN outp' : IsAsk(outp'[k]) /\ outp'[k].id = outp'[i].id => k = i
             /\ \A a \in asks : a[1] # outp'[i].id
             /\ \A r \in replies : r.id # outp'[i].id
  <2>1. CASE i \in DOMAIN outp /\ outp'[i] = outp[i]
    <3>1. outp[i].id \in Nat /\ outp[i].id < prov.lines
      BY <1>5, <1>6, <2>1 DEF KInv, AsksKnown
    <3>2. outp[i].id < prov'.lines /\ (IsAsk(l) => outp[i].id # l.id)
      BY <1>2, <3>1
    <3> QED
      BY <1>4, <1>6, <2>1, <3>2 DEF KInv, AsksKnown
  <2>2. CASE i = Len(outp) + 1 /\ outp'[i] = l
    <3>1. \A k \in DOMAIN outp : IsAsk(outp[k]) => outp[k].id # l.id
      BY <1>2, <1>5, <1>6, <2>2 DEF KInv, AsksKnown
    <3>2. (\A a \in asks : a[1] # l.id) /\ (\A r \in replies : r.id # l.id)
      BY <1>1, <1>2, <1>6, <2>2 DEF KInv, AsksKnown
    <3> QED
      BY <1>3, <1>4, <1>6, <2>2, <3>1, <3>2
  <2> QED
    BY <1>4, <2>1, <2>2
<1>7. AsksKnown'
  <2>1. \A a \in asks : a[1] < prov'.lines
    BY <1>1, <1>2 DEF KInv, AsksKnown
  <2>2. \A r \in replies : r.id < prov'.lines
    BY <1>1, <1>2 DEF KInv, AsksKnown
  <2> QED
    BY <1>6, <2>1, <2>2 DEF KInv, AsksKnown
<1> QED
  BY <1>7 DEF KInv, DecisionKept

(* The line read goes to the waiting tasks, is answered at once, or needs none. *)
LEMMA ReadKeepsKInv ==
    ASSUME SInv, KInv, outp # << >>, outp' = Tail(outp), prov'.lines = prov.lines,
           NEW l, l = Head(outp),
           \/ UNCHANGED <<asks, replies>>
           \/ IsAsk(l) /\ asks' = asks \cup {<<l.id, l.m>>} /\ replies' = replies
           \/ /\ IsAsk(l) /\ asks' = asks
              /\ \E r : /\ replies' = replies \cup {r} /\ r.id = l.id /\ r.d = "none"
                        /\ r.v \notin Grants(r.m)
    PROVE  KInv'
<1>1. ProvTypes
  BY DEF SInv
<1>2. l \in Line /\ l = outp[1] /\ 1 \in DOMAIN outp
  BY <1>1, TakenLine
<1>3. \A i \in DOMAIN outp' : i \in Nat /\ i + 1 \in DOMAIN outp /\ outp'[i] = outp[i + 1]
  BY <1>1, TakenLine
<1>4. \A i \in DOMAIN outp' : i + 1 # 1 /\ \A k \in DOMAIN outp' : k + 1 = i + 1 => k = i
  BY <1>3
<1>5. ASSUME NEW i \in DOMAIN outp', IsAsk(outp'[i])
      PROVE  /\ outp'[i].id < prov.lines /\ (IsAsk(l) => outp'[i].id # l.id)
             /\ \A k \in DOMAIN outp' : IsAsk(outp'[k]) /\ outp'[k].id = outp'[i].id => k = i
             /\ \A a \in asks : a[1] # outp'[i].id
             /\ \A r \in replies : r.id # outp'[i].id
  BY <1>2, <1>3, <1>4, <1>5 DEF KInv, AsksKnown
<1>6. CASE UNCHANGED <<asks, replies>>
  <2>1. AsksKnown'
    BY <1>5, <1>6 DEF KInv, AsksKnown
  <2> QED
    BY <1>6, <2>1 DEF KInv, DecisionKept
<1>7. CASE IsAsk(l) /\ asks' = asks \cup {<<l.id, l.m>>} /\ replies' = replies
  <2>1. <<l.id, l.m>>[1] = l.id
    OBVIOUS
  <2>2. /\ l.id < prov.lines /\ (\A a \in asks : a[1] # l.id) /\ (\A r \in replies : r.id # l.id)
    BY <1>2, <1>7 DEF KInv, AsksKnown
  <2>3. \A a \in asks' : a \in asks \/ a = <<l.id, l.m>>
    BY <1>7
  <2>4. \A i \in DOMAIN outp' : IsAsk(outp'[i]) =>
           /\ outp'[i].id < prov.lines
           /\ \A k \in DOMAIN outp' : IsAsk(outp'[k]) /\ outp'[k].id = outp'[i].id => k = i
           /\ \A a \in asks' : a[1] # outp'[i].id
           /\ \A r \in replies : r.id # outp'[i].id
    BY <1>5, <1>7, <2>1, <2>3
  <2>5. \A a \in asks' : /\ a[1] < prov.lines /\ (\A b \in asks' : b[1] = a[1] => b = a)
                         /\ \A r \in replies : r.id # a[1]
    BY <2>1, <2>2, <2>3 DEF KInv, AsksKnown
  <2>6. AsksKnown'
    BY <1>7, <2>4, <2>5 DEF KInv, AsksKnown
  <2> QED
    BY <1>7, <2>6 DEF KInv, DecisionKept
<1>8. CASE /\ IsAsk(l) /\ asks' = asks
           /\ \E r : /\ replies' = replies \cup {r} /\ r.id = l.id /\ r.d = "none"
                     /\ r.v \notin Grants(r.m)
  <2>1. PICK r : replies' = replies \cup {r} /\ r.id = l.id /\ r.d = "none" /\ r.v \notin Grants(r.m)
    BY <1>8
  <2>2. /\ r.id < prov.lines /\ (\A a \in asks : a[1] # r.id) /\ (\A s \in replies : s.id # r.id)
    BY <1>2, <1>8, <2>1 DEF KInv, AsksKnown
  <2>3. \A s \in replies' : s \in replies \/ s = r
    BY <2>1
  <2>4. AsksKnown'
    BY <1>5, <1>8, <2>1, <2>2, <2>3 DEF KInv, AsksKnown
  <2>5. DecisionKept'
    BY <2>1, <2>2, <2>3 DEF KInv, DecisionKept, IsAllow
  <2> QED
    BY <2>4, <2>5 DEF KInv
<1> QED
  BY <1>6, <1>7, <1>8

LEMMA AnswerKeepsKInv ==
    ASSUME SInv, KInv, NEW a \in asks, AnswerAsk(a)
    PROVE  KInv'
<1>1. PICK d \in Decisions :
         replies' = replies \cup {[id |-> a[1], m |-> a[2], d |-> d, v |-> ReplyTo(a[2], d)]}
  BY DEF AnswerAsk, Decisions
<1>2. outp' = outp /\ asks' = asks \ {a} /\ prov'.lines = prov.lines
  BY ProvNumbers DEF AnswerAsk, Prov
<1> DEFINE r == [id |-> a[1], m |-> a[2], d |-> d, v |-> ReplyTo(a[2], d)]
<1>3. r.id = a[1] /\ (r.v \in Grants(r.m) <=> IsAllow(r.d))
  <2>1. a[2] \in ApprovalMethods \cup {"question", "can_use_tool"}
    BY DEF SInv, AskTypes
  <2> QED
    BY <2>1, ReplyWords
<1>4. replies' = replies \cup {r}
  BY <1>1
<1> HIDE DEF r
<1>5. /\ r.id < prov.lines /\ (\A b \in asks' : b[1] # r.id) /\ (\A s \in replies : s.id # r.id)
      /\ \A i \in DOMAIN outp : IsAsk(outp[i]) => outp[i].id # r.id
  BY <1>2, <1>3 DEF KInv, AsksKnown
<1>6. \A s \in replies' : s \in replies \/ s = r
  BY <1>4
<1>7. AsksKnown'
  BY <1>2, <1>5, <1>6 DEF KInv, AsksKnown
<1>8. DecisionKept'
  BY <1>3, <1>5, <1>6 DEF KInv, DecisionKept
<1> QED
  BY <1>7, <1>8 DEF KInv

LEMMA KInvStep ==
    ASSUME SInv, KInv, [Next]_vars
    PROVE  KInv'
<1>0. prov \in Prov /\ prov.lines \in Nat
  BY ProvNumbers DEF Prov
<1>1. CASE Launch \/ SpawnFails
  <2>1. prov'.lines = prov.lines
    BY <1>0, <1>1 DEF Launch, LaunchAppServer, AppServerUnavailable, LaunchDocker, LaunchClaude,
                      SpawnFails, Spawn, Prov
  <2> QED
    BY <1>1, <2>1, LaunchFrame, QuietKeepsKInv
<1>2. CASE \E q \in inp, res \in {"ok", "bare", "err"} : Answer(q, res)
  <2>1. PICK q \in inp, res \in {"ok", "bare", "err"} : Answer(q, res)
    BY <1>2
  <2> DEFINE l == [t |-> "resp", id |-> q[1], res |-> res]
  <2>2. outp' = Append(outp, l) /\ prov'.lines = prov.lines /\ UNCHANGED <<asks, replies>>
    BY <1>0, <2>1 DEF Answer, Prov
  <2>3. l \in Line /\ ~IsAsk(l)
    <3>1. q[1] \in Nat
      <4>1. inp \subseteq (1..req) \X (Startup \cup {"final quota"})
        BY DEF SInv, TableTypes
      <4>2. q[1] \in 1..req
        BY <4>1
      <4> QED
        BY <4>2
    <3>2. l \in Responses
      BY <3>1 DEF Responses, Replies
    <3> QED
      BY <3>2 DEF Line, IsAsk
  <2> HIDE DEF l
  <2> QED
    BY <2>2, <2>3, WriteKeepsKInv
<1>3. CASE Writing
  <2>1. PICK l : Written(l)
    BY <1>3, TurnWrites
  <2>2. UNCHANGED <<asks, replies>>
    BY <1>3, ProviderFrame DEF Writing, Provider
  <2> QED
    BY <2>1, <2>2, WriteKeepsKInv DEF Written, Fits
<1>4. CASE Exit
  <2>1. outp' = outp /\ prov'.lines = prov.lines
    BY <1>0, <1>4 DEF Exit, Prov
  <2> QED
    BY <1>4, <2>1, ProviderFrame, QuietKeepsKInv
<1>5. CASE DriverStep \/ DriverTimer
  <2>1. prov' = prov \/ prov' = [prov EXCEPT !.steered = @ + 1]
    BY <1>5 DEF DriverStep, DriverTimer, StartupRequest, StartupAnswered, StartupCancelled,
         TurnTerminal, TurnSteer, TurnCancelled, FinalQuotaRequest, FinalQuotaAnswered, TearDown,
         GraceOver, SendEnded, AbortTasks, StartupTimeout, TurnTimeout, FinalQuotaTimeout
  <2>2. prov'.lines = prov.lines
    BY <1>0, <2>1 DEF Prov
  <2> QED
    BY <1>5, <2>2, DriverFrame, QuietKeepsKInv
<1>6. CASE StreamStep
  <2>1. replies' = replies /\ prov'.lines = prov.lines
    <3>1. prov'.lines = prov.lines
      BY <1>0, <1>6 DEF StreamStep, StreamLoop, StreamFinish, StreamLine, StreamEof, StreamSteer,
           StreamSteerFails, StreamCut, StreamTerminate, StreamGrace, StreamEnd, Prov
    <3> QED
      BY <1>6, <3>1, StreamFrame
  <2>2. CASE StreamLine
    <3>1. /\ outp # << >> /\ outp' = Tail(outp)
          /\ asks' = asks \/ (IsAsk(Head(outp)) /\ asks' = asks \cup {<<Head(outp).id, Head(outp).m>>})
      BY <2>2 DEF StreamLine, IsAsk
    <3> QED
      BY <2>1, <3>1, ReadKeepsKInv
  <2>3. CASE UNCHANGED <<outp, asks>>
    BY <2>1, <2>3, QuietKeepsKInv
  <2> QED
    BY <1>6, <2>2, <2>3 DEF StreamStep, StreamLoop, StreamFinish, StreamEof, StreamSteer,
           StreamSteerFails, StreamCut, StreamTerminate, StreamGrace, StreamEnd
<1>7. CASE ReadLine
  <2> DEFINE l == Head(outp)
  <2>1. /\ outp # << >> /\ outp' = Tail(outp) /\ prov'.lines = prov.lines
        /\ ReadResponse(l) \/ ReadNotification(l) \/ ReadServerRequest(l)
    BY <1>7 DEF ReadLine
  <2> HIDE DEF l
  <2>2. CASE ReadResponse(l) \/ ReadNotification(l)
    BY <2>1, <2>2, ReadKeepsKInv DEF ReadResponse, ReadNotification, l
  <2>3. CASE ReadServerRequest(l)
    <3>1. IsAsk(l)
      BY <2>3 DEF ReadServerRequest, IsAsk
    <3>2. CASE asks' = asks \cup {<<l.id, l.m>>} /\ replies' = replies
      BY <2>1, <3>1, <3>2, ReadKeepsKInv DEF l
    <3>3. CASE /\ l.m \in {"input", "elicitation", "unsupported"} /\ asks' = asks
               /\ \E v \in {"empty", "error"} :
                    replies' = replies \cup {[id |-> l.id, m |-> l.m, d |-> "none", v |-> v]}
      <4>1. PICK v \in {"empty", "error"} :
                    replies' = replies \cup {[id |-> l.id, m |-> l.m, d |-> "none", v |-> v]}
        BY <3>3
      <4> DEFINE r == [id |-> l.id, m |-> l.m, d |-> "none", v |-> v]
      <4>2. r.id = l.id /\ r.d = "none" /\ r.v \notin Grants(r.m)
        BY DEF Grants, V2, Legacy
      <4>3. replies' = replies \cup {r}
        BY <4>1
      <4> HIDE DEF r
      <4> QED
        BY <2>1, <3>1, <3>3, <4>2, <4>3, ReadKeepsKInv DEF l
    <3> QED
      BY <2>3, <3>2, <3>3 DEF ReadServerRequest
  <2> QED
    BY <2>1, <2>2, <2>3
<1>8. CASE ReadEof
  BY <1>8, QuietKeepsKInv DEF ReadEof
<1>9. CASE \E a \in asks : AnswerAsk(a)
  BY <1>9, AnswerKeepsKInv
<1>10. CASE Cancel \/ Steer \/ DropReceiver
  BY <1>10, HandleFrame, QuietKeepsKInv
<1>11. CASE UNCHANGED vars
  BY <1>11, QuietKeepsKInv DEF vars
<1> QED
  BY <1>1, <1>2, <1>3, <1>4, <1>5, <1>6, <1>7, <1>8, <1>9, <1>10, <1>11 DEF Next, Provider, Writing, ReaderStep

LEMMA KInvHolds == Spec => []KInv
<1>1. Init => KInv
  BY DEF Init, KInv, AsksKnown, DecisionKept
<1>2. SInv /\ KInv /\ [Next]_vars => KInv'
  BY KInvStep
<1> QED
  BY <1>1, <1>2, SInvHolds, PTL DEF Spec

(* The provider may do what the user allowed and no more, in every session   *)
(* however its tasks interleave: decisions reach it unchanged and once, a    *)
(* read-only run stays read-only on every transport, and what the policy     *)
(* denies is denied on each (codex_app_server.rs handle_server_request,      *)
(* turn_sandbox_policy, codex.rs and claude.rs build_args).                  *)
THEOREM SessionPermission == Spec => []PermissionKept
<1>1. SInv /\ Boxed /\ KInv => PermissionKept
  BY DEF SInv, ChildFits, Fresh, Boxed, KInv, PermissionKept, PolicyCarried
<1> QED
  BY <1>1, SInvHolds, BoxedHolds, KInvHolds, PTL

-----------------------------------------------------------------------------
(* The outcome: a verdict is the provider's, and the status follows it. *)

LEMMA VerdictsFrame ==
    ASSUME VerdictsFit, prov'.said = prov.said, prov.turn = "over" => prov'.turn = "over",
           run'.last = run.last, term' = term,
           \A i \in DOMAIN outp' : IsVerdict(outp'[i]) => \E k \in DOMAIN outp : outp'[i] = outp[k]
    PROVE  VerdictsFit'
  BY DEF VerdictsFit

(* What breaks off a request that waits is told by that request. *)
Broken == closed /\ pc # "turn" /\ (pc \in Startup /\ wait => reply = "err")

LEMMA ToldFrame ==
    ASSUME TermTold, TermSays, Grows, term' = term, prov.said = "Failed" => prov'.said = "Failed",
           term.sent /\ Broken => Broken'
    PROVE  TermTold' /\ TermSays'
<1>1. TermSays'
  BY DEF TermSays
<1>2. TermTold'
  BY DEF TermTold, Broken, Grows, Sent
<1> QED
  BY <1>1, <1>2

LEMMA StatusFrame ==
    ASSUME CompletedMeansDone, FailureExplained, Grows, UNCHANGED <<status, spec>>,
           prov.said # "none" => prov'.said = prov.said,
           status # "none" => prov'.ok = prov.ok /\ prov'.diag = prov.diag
    PROVE  CompletedMeansDone' /\ FailureExplained'
<1>1. CompletedMeansDone'
  BY DEF CompletedMeansDone, AppServer
<1>2. FailureExplained'
  BY DEF FailureExplained, AppServer, ClaudeRun, Grows, Sent
<1> QED
  BY <1>1, <1>2

LEMMA LaunchKeepsOInv ==
    ASSUME SInv, OInv, Launch \/ SpawnFails
    PROVE  OInv'
<1>1. /\ pc = "launch"
      /\ UNCHANGED <<wait, req, reply, pending, closed, term, status, ctl, inp, outp, asks,
                     replies, events>>
  BY LaunchFrame
<1>2. /\ ~term.sent /\ outp = << >> /\ prov.said = "none" /\ run.last = "none" /\ status = "none"
      /\ prov \in Prov /\ run \in StreamRun
  BY <1>1, ProvNumbers DEF SInv, ModeFits, Fresh, Undecided, ProvTypes
<1>3. prov'.said = "none" /\ run'.last = "none"
  BY <1>2 DEF Launch, LaunchAppServer, AppServerUnavailable, LaunchDocker, LaunchClaude, SpawnFails,
              Spawn, Prov, StreamRun
<1>4. VerdictsFit'
  BY <1>1, <1>2, <1>3 DEF VerdictsFit
<1>5. TermTold' /\ TermSays' /\ CompletedMeansDone' /\ FailureExplained'
  BY <1>1, <1>2 DEF TermTold, TermSays, CompletedMeansDone, FailureExplained
<1> QED
  BY <1>4, <1>5 DEF OInv

(* The driver: the startup that fails says so, the turn ends by the verdict. *)
LEMMA DriverKeepsOInv ==
    ASSUME SInv, RInv, OInv, DriverStep \/ DriverTimer
    PROVE  OInv'
<1>1. /\ UNCHANGED <<spec, term, outp, asks, replies, run>> /\ Grows
      /\ VerdictsFit /\ TermTold /\ TermSays /\ CompletedMeansDone /\ FailureExplained
  BY DriverFrame, DriverGrows DEF OInv
<1>2. /\ prov'.said = prov.said /\ prov'.turn = prov.turn /\ prov'.ok = prov.ok
      /\ prov'.diag = prov.diag
  <2>1. prov' = prov \/ prov' = [prov EXCEPT !.steered = @ + 1]
    BY DEF DriverStep, DriverTimer, StartupRequest, StartupAnswered, StartupCancelled,
         TurnTerminal, TurnSteer, TurnCancelled, FinalQuotaRequest, FinalQuotaAnswered, TearDown,
         GraceOver, SendEnded, AbortTasks, StartupTimeout, TurnTimeout, FinalQuotaTimeout
  <2> QED
    BY <2>1, ProvNumbers DEF Prov
<1>3. VerdictsFit'
  BY <1>1, <1>2, VerdictsFrame
<1>4. term.sent /\ Broken => Broken'
  <2> SUFFICES ASSUME Broken PROVE Broken'
    OBVIOUS
  <2>1. CASE \E m \in Startup : StartupRequest(m)
    <3>1. PICK m \in Startup : StartupRequest(m)
      BY <2>1
    <3>2. ~wait /\ closed /\ StartupFails(m) /\ UNCHANGED <<wait, closed>>
      BY <3>1 DEF StartupRequest, Register, Broken, rpcVars
    <3>3. pc' \in {"thread/start", "final quota"}
      BY <3>2 DEF StartupFails, Decide
    <3> QED
      BY <3>2, <3>3 DEF Broken
  <2>2. CASE \E m \in Startup : StartupAnswered(m)
    <3>1. PICK m \in Startup : StartupAnswered(m)
      BY <2>2
    <3>2. reply = "err" /\ wait' = FALSE /\ closed' = closed
      BY <3>1 DEF StartupAnswered, Broken, tableVars
    <3>3. pc' \in {"thread/start", "final quota"}
      BY <3>1, <3>2 DEF StartupAnswered, StartupFails, Decide
    <3> QED
      BY <3>2, <3>3 DEF Broken
  <2>3. CASE FinalQuotaRequest
    <3>1. closed' = closed /\ pc' \in {"final quota", "terminate"}
      BY <2>3 DEF FinalQuotaRequest, Register, rpcVars
    <3> QED
      BY <3>1 DEF Broken, Startup
  <2>4. CASE StartupCancelled \/ FinalQuotaAnswered \/ DriverTimer
    <3>1. closed' = closed /\ pc' \in {"final quota", "terminate"}
      BY <2>4 DEF StartupCancelled, FinalQuotaAnswered, DriverTimer, StartupTimeout, TurnTimeout,
                  FinalQuotaTimeout, Decide, tableVars
    <3> QED
      BY <3>1 DEF Broken, Startup
  <2>5. CASE TurnTerminal \/ TurnSteer \/ TurnCancelled
    BY <2>5 DEF TurnTerminal, TurnSteer, TurnCancelled, Broken
  <2>6. CASE TearDown \/ GraceOver \/ SendEnded \/ AbortTasks
    <3>1. closed' = closed /\ pc' \in {"grace", "ending", "abort", "done"}
      BY <2>6 DEF TearDown, GraceOver, SendEnded, AbortTasks, rpcVars
    <3> QED
      BY <3>1 DEF Broken, Startup
  <2> QED
    BY <2>1, <2>2, <2>3, <2>4, <2>5, <2>6 DEF DriverStep
<1>5. TermTold' /\ TermSays'
  BY <1>1, <1>2, <1>4, ToldFrame
<1>6. CASE status' = status
  <2>1. CompletedMeansDone' /\ FailureExplained'
    BY <1>1, <1>2, <1>6, StatusFrame
  <2> QED
    BY <1>3, <1>5, <2>1 DEF OInv
<1>7. CASE status' = "Interrupted"
  BY <1>3, <1>5, <1>7 DEF OInv, CompletedMeansDone, FailureExplained
<1>8. CASE status' = "Failed" /\ Emit({"Error"}) /\ ctl' = ctl
  <2>1. ctl.gone \/ "Error" \in events'.before \cup events'.after
    BY <1>8, EmitGrows DEF SInv, Tells
  <2> QED
    BY <1>3, <1>5, <1>8, <2>1 DEF OInv, CompletedMeansDone, FailureExplained, Sent
<1>9. CASE TurnTerminal
  <2>1. status' = term.status /\ term.sent /\ pc = "turn" /\ UNCHANGED <<events, ctl, prov>>
    BY <1>9 DEF TurnTerminal, Decide
  <2>2. CompletedMeansDone'
    BY <1>1, <2>1 DEF CompletedMeansDone, VerdictsFit
  <2>3. FailureExplained'
    BY <1>1, <2>1 DEF FailureExplained, TermTold, Sent
  <2> QED
    BY <1>3, <1>5, <2>2, <2>3 DEF OInv
<1>10. CASE \E m \in Startup : StartupRequest(m)
  <2>1. PICK m \in Startup : StartupRequest(m)
    BY <1>10
  <2> QED
    BY <1>6, <1>8, <2>1 DEF StartupRequest, StartupFails, Register, Decide
<1>11. CASE \E m \in Startup : StartupAnswered(m)
  <2>1. PICK m \in Startup : StartupAnswered(m)
    BY <1>11
  <2> QED
    BY <1>6, <1>8, <2>1 DEF StartupAnswered, StartupFails, Decide
<1>12. CASE StartupCancelled \/ TurnCancelled \/ StartupTimeout \/ TurnTimeout
  BY <1>7, <1>12 DEF StartupCancelled, TurnCancelled, StartupTimeout, TurnTimeout, Decide
<1>13. CASE FinalQuotaRequest
  BY <1>6, <1>13 DEF FinalQuotaRequest, Register
<1> QED
  BY <1>6, <1>9, <1>10, <1>11, <1>12, <1>13 DEF DriverStep, DriverTimer, TurnSteer, FinalQuotaAnswered,
     FinalQuotaTimeout, TearDown, GraceOver, SendEnded, AbortTasks

(* The stream drivers: the last verdict read is the provider's. *)
LEMMA StreamKeepsOInv ==
    ASSUME SInv, OInv, StreamStep
    PROVE  OInv'
<1>1. /\ UNCHANGED <<spec, wait, reply, closed, term>> /\ prov \in Prov /\ ProvTypes /\ EventTypes
      /\ VerdictsFit /\ TermTold /\ TermSays /\ CompletedMeansDone /\ FailureExplained
  BY StreamFrame, ProvNumbers DEF OInv, SInv
<1>2. Grows
  BY EventsGrow DEF Next
<1>3. pc \in StreamPcs /\ pc' \in StreamPcs \cup {"done"}
  BY DEF StreamStep, StreamLoop, StreamFinish, StreamLine, StreamEof, StreamSteer, StreamSteerFails,
         StreamCut, StreamTerminate, StreamGrace, StreamEnd, StreamPcs
<1>4. ~AppServer /\ status = "none"
  BY <1>3 DEF SInv, ModeFits, Undecided, AppServer
<1>5. /\ prov'.said = prov.said /\ prov'.turn = prov.turn /\ prov'.ok = prov.ok
      /\ prov'.diag = prov.diag
  BY <1>1 DEF StreamStep, StreamLoop, StreamFinish, StreamLine, StreamEof, StreamSteer,
         StreamSteerFails, StreamCut, StreamTerminate, StreamGrace, StreamEnd, Prov
<1>6. TermTold' /\ TermSays'
  <2>1. Broken => Broken'
    BY <1>1, <1>3 DEF Broken, StreamPcs, Startup
  <2> QED
    BY <1>1, <1>2, <1>5, <2>1, ToldFrame
<1>7. VerdictsFit'
  <2>1. CASE StreamLine
    <3>1. outp # << >> /\ outp' = Tail(outp)
      BY <2>1 DEF StreamLine
    <3>2. /\ Head(outp) = outp[1] /\ 1 \in DOMAIN outp
          /\ \A i \in DOMAIN outp' : \E k \in DOMAIN outp : outp'[i] = outp[k]
      BY <1>1, <3>1, TakenLine
    <3>3. run'.last = IF IsVerdict(Head(outp)) THEN Head(outp).status ELSE run.last
      BY <1>1, <2>1, LineRun
    <3>4. IsVerdict(Head(outp)) => Head(outp).status = prov.said
      BY <1>1, <3>2 DEF VerdictsFit
    <3> QED
      BY <1>1, <1>5, <3>2, <3>3, <3>4 DEF VerdictsFit
  <2>2. CASE outp' = outp /\ run'.last = run.last
    BY <1>1, <1>5, <2>2, VerdictsFrame
  <2>3. ~StreamLine => outp' = outp /\ run'.last = run.last
    <3>1. run \in StreamRun
      BY <1>1 DEF ProvTypes
    <3> QED
      BY <3>1 DEF StreamStep, StreamLoop, StreamFinish, StreamEof, StreamSteer, StreamSteerFails,
         StreamCut, StreamTerminate, StreamGrace, StreamEnd, StreamRun
  <2> QED
    BY <2>1, <2>2, <2>3
<1>8. CASE StreamEnd
  <2>1. status' = FinalStatus /\ UNCHANGED <<ctl, prov, run>>
    BY <1>8 DEF StreamEnd
  <2>2. CompletedMeansDone'
    BY <1>1, <1>4, <2>1 DEF CompletedMeansDone, FinalStatus, VerdictsFit, AppServer
  <2>3. FailureExplained'
    <3>1. SUFFICES ASSUME status' = "Failed", ~ClaudeRun, ~ctl.gone, prov.said # "Failed", prov.diag.words
                   PROVE  \E e \in {"Error", "Disconnected", "Limit", "LimitUntil", "Network"} : Sent(e)'
      BY <1>1, <1>4, <2>1 DEF FailureExplained, ClaudeRun, AppServer
    <3>2. ~run.cancelled /\ run.last = "none" /\ ~prov.ok
      BY <1>1, <2>1, <3>1 DEF FinalStatus, VerdictsFit
    <3>3. \E es : EmitEnded(es) /\ ErrorOrLimit(prov.diag) \subseteq es
      BY <1>8, <3>2 DEF StreamEnd
    <3>4. ErrorOrLimit(prov.diag) \subseteq events'.before
      BY <1>1, <3>1, <3>3, EndGrows
    <3>5. prov.diag \in Messages
      BY <1>1 DEF Prov
    <3>6. \E e \in {"Error", "Disconnected", "Limit", "LimitUntil", "Network"} : e \in ErrorOrLimit(prov.diag)
      BY <3>1, <3>5, ErrorTags
    <3> QED
      BY <3>4, <3>6 DEF Sent
  <2> QED
    BY <1>6, <1>7, <2>2, <2>3 DEF OInv
<1>9. CASE ~StreamEnd
  <2>1. status' = status
    BY <1>9 DEF StreamStep, StreamLoop, StreamFinish, StreamLine, StreamEof, StreamSteer,
         StreamSteerFails, StreamCut, StreamTerminate, StreamGrace
  <2> QED
    BY <1>4, <1>6, <1>7, <2>1 DEF OInv, CompletedMeansDone, FailureExplained
<1> QED
  BY <1>8, <1>9

(* The reader: the verdict it keeps, and the end of a stream without one. *)
LEMMA ReaderKeepsOInv ==
    ASSUME SInv, RInv, OInv, ReaderStep
    PROVE  OInv'
<1>1. /\ UNCHANGED <<spec, pc, wait, req, status, ctl, child, prov, inp, run>>
      /\ ProvTypes /\ EventTypes /\ TableFits /\ OneRequest /\ TurnFits
      /\ VerdictsFit /\ TermTold /\ TermSays /\ CompletedMeansDone /\ FailureExplained
  BY ReaderFrame DEF SInv, RInv, OInv
<1>2. Grows
  BY EventsGrow DEF Next
<1>3. CompletedMeansDone' /\ FailureExplained'
  BY <1>1, <1>2, StatusFrame
<1>4. reader = "on" /\ ~closed
  <2>1. reader = "on"
    BY DEF ReaderStep, ReadLine, ReadEof
  <2> QED
    BY <1>1, <2>1 DEF TableFits
<1>5. ~Broken
  BY <1>4 DEF Broken
<1>6. CASE ReadLine
  <2> DEFINE l == Head(outp)
  <2>1. /\ outp # << >> /\ outp' = Tail(outp)
        /\ ReadResponse(l) \/ ReadNotification(l) \/ ReadServerRequest(l)
    BY <1>6 DEF ReadLine
  <2>2. /\ l = outp[1] /\ 1 \in DOMAIN outp /\ l \in Line
        /\ \A i \in DOMAIN outp' : \E k \in DOMAIN outp : outp'[i] = outp[k]
    BY <1>1, <2>1, TakenLine
  <2> HIDE DEF l
  <2>3. CASE term' = term
    BY <1>1, <1>2, <1>3, <1>5, <2>2, <2>3, VerdictsFrame, ToldFrame DEF OInv
  <2>4. CASE l.t = "note" /\ l.m = "completed" /\ ~term.sent /\ term' = [sent |-> TRUE, status |-> l.status]
    <3>1. l.status = prov.said /\ IsVerdict(l)
      BY <1>1, <2>2, <2>4 DEF VerdictsFit, IsVerdict
    <3>2. term'.sent /\ term'.status = prov.said /\ prov.said \in Statuses
      BY <2>2, <2>4, <3>1, LineKinds
    <3>3. VerdictsFit'
      BY <1>1, <2>2, <3>2 DEF VerdictsFit
    <3>4. TermTold' /\ TermSays'
      BY <1>1, <3>2 DEF TermTold, TermSays, Statuses
    <3> QED
      BY <1>3, <3>3, <3>4 DEF OInv
  <2> QED
    BY <2>1, <2>3, <2>4 DEF ReadResponse, ReadNotification, ReadServerRequest
<1>7. CASE ReadEof
  <2>1. /\ outp' = outp /\ closed' = TRUE /\ reply' = IF req \in pending THEN "err" ELSE reply
    BY <1>7 DEF ReadEof
  <2>2. CASE term' = term
    BY <1>1, <1>2, <1>3, <1>5, <2>1, <2>2, VerdictsFrame, ToldFrame DEF OInv
  <2>3. CASE ~term.sent /\ term' = Disconnected /\ Emit(IF pending = {} THEN {"Disconnected"} ELSE {})
    <3>1. term'.sent /\ term'.status = "Failed"
      BY <2>3 DEF Disconnected
    <3>2. VerdictsFit'
      BY <1>1, <2>1, <3>1 DEF VerdictsFit
    <3>3. TermSays'
      BY <3>1 DEF TermSays
    <3>4. CASE pending = {}
      <4>1. ctl.gone \/ "Disconnected" \in events'.before \cup events'.after
        BY <1>1, <2>3, <3>4, EmitGrows DEF Tells
      <4>2. TermTold'
        BY <1>1, <4>1 DEF TermTold, Sent
      <4> QED
        BY <1>3, <3>2, <3>3, <4>2 DEF OInv
    <3>5. CASE pending # {}
      <4>1. pc # "turn" /\ (pc \in Startup => req \in pending)
        BY <1>1, <3>5 DEF TurnFits, OneRequest
      <4>2. TermTold'
        BY <1>1, <2>1, <4>1 DEF TermTold
      <4> QED
        BY <1>3, <3>2, <3>3, <4>2 DEF OInv
    <3> QED
      BY <3>4, <3>5
  <2> QED
    BY <1>7, <2>2, <2>3 DEF ReadEof
<1> QED
  BY <1>6, <1>7 DEF ReaderStep

(* The provider: one verdict, at the end of its turn. *)
LEMMA ProviderKeepsOInv ==
    ASSUME SInv, RInv, OInv, Provider \/ Exit
    PROVE  OInv'
<1>1. /\ UNCHANGED <<spec, pc, wait, req, reply, pending, closed, reader, term, status, ctl,
                     asks, replies, run, events>>
      /\ prov \in Prov /\ ProvTypes
      /\ VerdictsFit /\ TermTold /\ TermSays /\ CompletedMeansDone /\ FailureExplained
  BY ProviderFrame, ProvNumbers DEF SInv, OInv
<1>2. Grows /\ (Broken => Broken')
  BY <1>1 DEF Grows, Broken
<1>3. CASE \E q \in inp, res \in {"ok", "bare", "err"} : Answer(q, res)
  <2>1. PICK q \in inp, res \in {"ok", "bare", "err"} : Answer(q, res)
    BY <1>3
  <2> DEFINE l == [t |-> "resp", id |-> q[1], res |-> res]
  <2>2. /\ outp' = Append(outp, l) /\ prov'.said = prov.said /\ prov'.ok = prov.ok
        /\ prov'.diag = prov.diag
        /\ prov'.turn = prov.turn \/ q[2] = "turn/start"
    BY <1>1, <2>1 DEF Answer, Prov
  <2>3. l \in Line /\ ~IsVerdict(l)
    <3>1. q[1] \in Nat
      <4>1. inp \subseteq (1..req) \X (Startup \cup {"final quota"})
        BY DEF SInv, TableTypes
      <4>2. q[1] \in 1..req
        BY <4>1
      <4> QED
        BY <4>2
    <3>2. l \in Responses
      BY <3>1 DEF Responses, Replies
    <3> QED
      BY <3>2 DEF Line, IsVerdict
  <2> HIDE DEF l
  <2>4. \A i \in DOMAIN outp' : (i \in DOMAIN outp /\ outp'[i] = outp[i]) \/ outp'[i] = l
    BY <1>1, <2>2, <2>3, Appended
  <2>5. prov.turn = "over" => prov'.turn = "over"
    BY <2>2 DEF RInv, TurnFits, TableFits
  <2>6. VerdictsFit'
    BY <1>1, <2>2, <2>3, <2>4, <2>5, VerdictsFrame
  <2>7. TermTold' /\ TermSays' /\ CompletedMeansDone' /\ FailureExplained'
    BY <1>1, <1>2, <2>2, ToldFrame, StatusFrame
  <2> QED
    BY <2>6, <2>7 DEF OInv
<1>4. CASE Writing
  <2>1. PICK l : Written(l)
    BY <1>4, TurnWrites
  <2>2. prov.said = "none" /\ run.last = "none" /\ ~(term.sent /\ term.status = "Completed")
    BY <1>1, <2>1 DEF Written, VerdictsFit
  <2>3. /\ \A i \in DOMAIN outp : ~IsVerdict(outp[i])
        /\ \A i \in DOMAIN outp' : (i \in DOMAIN outp /\ outp'[i] = outp[i]) \/ outp'[i] = l
    BY <1>1, <2>1, Appended DEF Written, VerdictsFit, Fits
  <2>4. VerdictsFit'
    BY <1>1, <2>1, <2>2, <2>3 DEF VerdictsFit, Written
  <2>5. prov'.ok = prov.ok /\ prov'.diag = prov.diag
    BY <2>1 DEF Written
  <2>6. TermTold' /\ TermSays' /\ CompletedMeansDone' /\ FailureExplained'
    BY <1>1, <1>2, <2>2, <2>5, ToldFrame, StatusFrame
  <2> QED
    BY <2>4, <2>6 DEF OInv
<1>5. CASE Exit
  <2>1. outp' = outp /\ prov'.said = prov.said /\ prov'.turn = prov.turn /\ child # "dead"
    BY <1>1, <1>5 DEF Exit, Prov
  <2>2. VerdictsFit'
    BY <1>1, <2>1, VerdictsFrame
  <2>3. TermTold' /\ TermSays'
    BY <1>1, <1>2, <2>1, ToldFrame
  <2>4. CASE AppServer
    <3>1. CompletedMeansDone'
      BY <1>1, <2>1, <2>4 DEF CompletedMeansDone, AppServer
    <3>2. FailureExplained'
      BY <1>1, <2>1, <2>4 DEF FailureExplained, AppServer, ClaudeRun, Sent
    <3> QED
      BY <2>2, <2>3, <3>1, <3>2 DEF OInv
  <2>5. CASE ~AppServer
    <3>1. status = "none"
      BY <2>1, <2>5 DEF SInv, ChildFits, ModeFits, Undecided, DriverTypes, Pcs
    <3> QED
      BY <1>1, <2>2, <2>3, <3>1 DEF OInv, CompletedMeansDone, FailureExplained
  <2> QED
    BY <2>4, <2>5
<1> QED
  BY <1>3, <1>4, <1>5 DEF Provider, Writing

LEMMA OInvStep ==
    ASSUME SInv, RInv, OInv, [Next]_vars
    PROVE  OInv'
<1>1. Grows
  BY EventsGrow
<1>2. CASE \/ \E a \in asks : AnswerAsk(a)
           \/ Cancel \/ Steer \/ DropReceiver
           \/ UNCHANGED vars
  <2>1. UNCHANGED <<spec, pc, wait, reply, closed, term, status, outp, run>>
    BY <1>2, HandleFrame DEF AnswerAsk, rpcVars, vars
  <2>2. /\ prov'.said = prov.said /\ prov'.turn = prov.turn /\ prov'.ok = prov.ok
        /\ prov'.diag = prov.diag
    <3>1. prov' = prov \/ \E b : prov' = [prov EXCEPT !.stdin = b]
      BY <1>2, HandleFrame DEF AnswerAsk, vars
    <3> QED
      BY <3>1, ProvNumbers DEF Prov
  <2>3. VerdictsFit /\ TermTold /\ TermSays /\ CompletedMeansDone /\ FailureExplained
    BY DEF OInv
  <2>4. Broken => Broken'
    BY <2>1 DEF Broken
  <2>5. VerdictsFit'
    BY <2>1, <2>2, <2>3, VerdictsFrame
  <2>6. TermTold' /\ TermSays' /\ CompletedMeansDone' /\ FailureExplained'
    BY <1>1, <2>1, <2>2, <2>3, <2>4, ToldFrame, StatusFrame
  <2> QED
    BY <2>5, <2>6 DEF OInv
<1> QED
  BY <1>2, LaunchKeepsOInv, DriverKeepsOInv, StreamKeepsOInv, ReaderKeepsOInv, ProviderKeepsOInv DEF Next

LEMMA OInvHolds == Spec => []OInv
<1>1. Init => OInv
  BY DEF Init, OInv, VerdictsFit, TermTold, TermSays, CompletedMeansDone, FailureExplained
<1>2. SInv /\ RInv /\ OInv /\ [Next]_vars => OInv'
  BY OInvStep
<1> QED
  BY <1>1, <1>2, SInvHolds, RInvHolds, PTL DEF Spec

(* What a session reports of its end is true, in every session however the   *)
(* provider behaves and the tasks interleave: every waiter is answered, a    *)
(* completed run was completed by the provider, a failed one of Codex says   *)
(* why, and the end is told once, after the process (codex_app_server.rs     *)
(* reader and drive, codex.rs and claude.rs drive).                          *)
THEOREM SessionOutcome == Spec => []OutcomeTold
<1>1. SInv => TypeOK
  <2> SUFFICES ASSUME SInv PROVE TypeOK
    OBVIOUS
  <2>1. pc \in Pcs /\ DriverTypes /\ TableTypes /\ EventTypes /\ AskTypes
    BY DEF SInv, DriverTypes
  <2>2. \A r \in replies : r.d \in Decisions \cup {"none"}
    BY <2>1 DEF AskTypes
  <2>3. events \in [before : SUBSET EventTags, ended : 0..2, after : SUBSET EventTags]
    BY <2>1 DEF EventTypes
  <2>4. pc \in {"launch", "refused", "turn", "final quota", "terminate", "grace", "ending", "abort",
                "stream", "stop", "stop grace", "reap", "done"} \cup Startup
    BY <2>1 DEF Pcs, AppPcs, StreamPcs
  <2> QED
    BY <2>1, <2>2, <2>3, <2>4 DEF TypeOK, DriverTypes, TableTypes, Replies
<1>2. RInv => NoWaiterLeft
  BY DEF RInv, TableFits, NoWaiterLeft
<1>3. SInv => EndedAfterStop
  <2> SUFFICES ASSUME SInv, events.ended > 0 PROVE EndedAfterStop
    BY DEF EndedAfterStop
  <2>1. events.ended = 1
    BY DEF SInv, EventTypes
  <2>2. pc \in {"abort", "done"} /\ (AppServer \/ events.after = {})
    BY <2>1 DEF SInv, Undecided
  <2>3. child \in {"kill", "dead"}
    BY <2>2 DEF SInv, ChildFits
  <2> QED
    BY <2>1, <2>2, <2>3 DEF EndedAfterStop
<1>4. SInv /\ RInv /\ OInv => OutcomeTold
  BY <1>1, <1>2, <1>3 DEF OInv, OutcomeTold
<1> QED
  BY <1>4, SInvHolds, RInvHolds, OInvHolds, PTL

-----------------------------------------------------------------------------
(* Usage: the weekly readings that frame a run. *)

Ending == {"terminate", "grace", "ending", "abort", "done"}

(* A step that starts no turn and does not enter the end. *)
LEMMA WeeklyFrame ==
    ASSUME WeeklyFits, Grows, spec' = spec,
           pc' \in {"turn/start", "turn"} => pc \in {"turn/start", "turn"},
           pc' \in Ending => pc \in Ending,
           \A q \in inp' : q \in inp \/ (q[2] = "turn/start" => pc = "turn/start"),
           prov'.turn # "none" =>
               prov.turn # "none" \/ \E q \in inp : q[2] = "turn/start"
    PROVE  WeeklyFits'
  BY DEF WeeklyFits, Grows, Sent, Ending

(* A weekly budget is Codex's, on the host: no other session has one. *)
LEMMA WeeklyIsCodex ==
    ASSUME SInv, spec.budget = "weekly"
    PROVE  spec.transport = "codex" /\ spec.mode \in {"none", "appserver"}
<1>1. spec.transport = "codex" /\ spec.mode \in {"none", "appserver", "exec", "claude"}
  BY DEF SInv, SpecTypes, ValidateRuntimeBudget, RunSpec
<1> QED
  BY <1>1 DEF SInv, ModeFits, ClaudeRun

LEMMA DriverKeepsWeekly ==
    ASSUME SInv, RInv, WeeklyFits, DriverStep \/ DriverTimer
    PROVE  WeeklyFits'
<1>1. UNCHANGED <<spec, term, outp, asks, replies, run>> /\ Grows /\ EventTypes
  BY DriverFrame, DriverGrows DEF SInv
<1>2. prov'.turn = prov.turn
  <2>1. prov' = prov \/ prov' = [prov EXCEPT !.steered = @ + 1]
    BY DEF DriverStep, DriverTimer, StartupRequest, StartupAnswered, StartupCancelled,
         TurnTerminal, TurnSteer, TurnCancelled, FinalQuotaRequest, FinalQuotaAnswered, TearDown,
         GraceOver, SendEnded, AbortTasks, StartupTimeout, TurnTimeout, FinalQuotaTimeout
  <2> QED
    BY <2>1, ProvNumbers DEF Prov
<1>3. CASE \E m \in Startup : StartupRequest(m)
  <2>1. PICK m \in Startup : StartupRequest(m)
    BY <1>3
  <2>2. pc = m /\ pc' \in {m, "thread/start", "final quota"}
    BY <2>1 DEF StartupRequest, Register, StartupFails, Decide
  <2>3. \A q \in inp' : q \in inp \/ q = <<req + 1, m>>
    BY <2>1 DEF StartupRequest, Register
  <2>4. <<req + 1, m>>[2] = m
    OBVIOUS
  <2>5. pc' \notin Ending
    BY <2>2 DEF Startup, Ending
  <2> QED
    BY <1>1, <1>2, <2>2, <2>3, <2>4, <2>5, WeeklyFrame
<1>4. CASE \E m \in Startup : StartupAnswered(m)
  <2>1. PICK m \in Startup : StartupAnswered(m)
    BY <1>4
  <2>2. pc = m /\ inp' = inp /\ ctl' = ctl
    BY <2>1 DEF StartupAnswered
  <2>3. pc' \notin Ending
    BY <2>1 DEF StartupAnswered, StartupFails, Decide, AfterRequest, Startup, Ending
  <2>4. CASE m = "quota" /\ pc' = "turn/start"
    <3>1. Emit({"Quota"})
      BY <2>1, <2>4 DEF StartupAnswered, StartupFails, Decide
    <3>2. ctl.gone \/ "Quota" \in events'.before \cup events'.after
      BY <1>1, <3>1, EmitGrows DEF Tells
    <3> QED
      BY <1>1, <1>2, <2>2, <2>4, <3>2 DEF WeeklyFits, Grows, Sent
  <2>5. CASE spec.budget = "weekly" /\ ~(m = "quota" /\ pc' = "turn/start")
    <3>1. pc' \in {"turn/start", "turn"} => m = "turn/start"
      BY <2>1, <2>5 DEF StartupAnswered, StartupFails, Decide, AfterRequest, Startup
    <3> QED
      BY <1>1, <1>2, <2>2, <2>3, <3>1, WeeklyFrame
  <2>6. CASE spec.budget # "weekly"
    BY <1>1, <2>6 DEF WeeklyFits
  <2> QED
    BY <2>4, <2>5, <2>6
<1>5. CASE FinalQuotaRequest \/ FinalQuotaAnswered \/ FinalQuotaTimeout
  <2>1. pc = "final quota" /\ ctl' = ctl /\ events.ended = 0
    BY <1>5 DEF FinalQuotaRequest, FinalQuotaAnswered, FinalQuotaTimeout, SInv, Undecided
  <2>2. \A q \in inp' : q \in inp \/ q = <<req + 1, "final quota">>
    BY <1>5 DEF FinalQuotaRequest, FinalQuotaAnswered, FinalQuotaTimeout, Register
  <2>3. <<req + 1, "final quota">>[2] = "final quota"
    OBVIOUS
  <2>4. CASE pc' = pc
    BY <1>1, <1>2, <2>2, <2>3, <2>4, WeeklyFrame
  <2>5. CASE spec.budget = "weekly" /\ pc' = "terminate"
    <3>1. \E es : Emit(es) /\ {"FinalQuota", "Error"} \cap es # {}
      <4>1. NoReading = {"Error"}
        BY <2>5 DEF NoReading
      <4>2. Emit({"FinalQuota"}) \/ Emit(NoReading)
        BY <1>5, <2>1, <2>5 DEF FinalQuotaRequest, FinalQuotaAnswered, FinalQuotaTimeout, Register
      <4> QED
        BY <4>1, <4>2
    <3>2. ctl.gone \/ {"FinalQuota", "Error"} \cap events'.before # {}
      BY <1>1, <2>1, <3>1, EmitGrows DEF Tells
    <3> QED
      BY <1>1, <1>2, <2>1, <2>2, <2>3, <2>5, <3>2 DEF WeeklyFits, Grows, Sent
  <2>6. CASE spec.budget # "weekly"
    BY <1>1, <2>6 DEF WeeklyFits
  <2>7. pc' \in {pc, "terminate"}
    BY <1>5 DEF FinalQuotaRequest, FinalQuotaAnswered, FinalQuotaTimeout, Register
  <2> QED
    BY <2>4, <2>5, <2>6, <2>7
<1>6. CASE StartupCancelled \/ TurnTerminal \/ TurnCancelled \/ StartupTimeout \/ TurnTimeout
  <2>1. pc' = "final quota" /\ inp' = inp
    BY <1>6 DEF StartupCancelled, TurnTerminal, TurnCancelled, StartupTimeout, TurnTimeout, Decide
  <2> QED
    BY <1>1, <1>2, <2>1, WeeklyFrame DEF Ending
<1>7. CASE TurnSteer
  BY <1>1, <1>2, <1>7, WeeklyFrame DEF TurnSteer
<1>8. CASE TearDown \/ GraceOver \/ SendEnded \/ AbortTasks
  <2>1. pc \in Ending /\ pc' \in Ending /\ inp' = inp
    BY <1>8 DEF TearDown, GraceOver, SendEnded, AbortTasks, Ending
  <2> QED
    BY <1>1, <1>2, <2>1, WeeklyFrame DEF Ending
<1> QED
  BY <1>3, <1>4, <1>5, <1>6, <1>7, <1>8 DEF DriverStep, DriverTimer

LEMMA WeeklyStep ==
    ASSUME SInv, RInv, WeeklyFits, [Next]_vars
    PROVE  WeeklyFits'
<1>0. prov \in Prov /\ Grows
  BY ProvNumbers, EventsGrow
<1>1. CASE Launch \/ SpawnFails
  <2>1. pc = "launch" /\ UNCHANGED <<inp, ctl>> /\ prov.turn = "none" /\ inp = {} /\ spec.mode = "none"
    BY <1>1, LaunchFrame DEF SInv, ModeFits, Fresh
  <2>2. CASE spec.budget = "weekly"
    <3>1. spec.transport = "codex"
      BY <2>2, WeeklyIsCodex
    <3>2. prov'.turn = "none" /\ pc' \in {"initialize", "refused"}
      BY <1>0, <1>1, <2>1, <2>2, <3>1 DEF Launch, LaunchAppServer, AppServerUnavailable, LaunchDocker,
         LaunchClaude, SpawnFails, Spawn, Prov
    <3> QED
      BY <2>1, <3>2 DEF WeeklyFits
  <2>3. CASE spec.budget # "weekly"
    <3>1. spec'.budget = spec.budget
      BY <1>1 DEF Launch, LaunchAppServer, AppServerUnavailable, LaunchDocker, LaunchClaude,
                  SpawnFails, SInv, SpecTypes, RunSpec
    <3> QED
      BY <2>3, <3>1 DEF WeeklyFits
  <2> QED
    BY <2>2, <2>3
<1>2. CASE DriverStep \/ DriverTimer
  BY <1>2, DriverKeepsWeekly
<1>3. CASE StreamStep
  <2>1. pc \in StreamPcs /\ spec' = spec
    BY <1>3, StreamFrame DEF StreamStep, StreamLoop, StreamFinish, StreamLine, StreamEof, StreamSteer,
           StreamSteerFails, StreamCut, StreamTerminate, StreamGrace, StreamEnd, StreamPcs
  <2>2. spec.mode \in {"exec", "claude"}
    BY <2>1 DEF SInv, ModeFits
  <2>3. spec.budget # "weekly"
    BY <2>2, WeeklyIsCodex
  <2> QED
    BY <2>1, <2>3 DEF WeeklyFits
<1>4. CASE ReaderStep
  BY <1>0, <1>4, ReaderFrame, WeeklyFrame
<1>5. CASE \E a \in asks : AnswerAsk(a)
  <2>1. prov'.turn = prov.turn /\ UNCHANGED <<spec, pc, inp>>
    BY <1>0, <1>5 DEF AnswerAsk, Prov
  <2> QED
    BY <1>0, <2>1, WeeklyFrame
<1>6. CASE Cancel \/ Steer \/ DropReceiver
  BY <1>0, <1>6, HandleFrame, WeeklyFrame
<1>7. CASE \E q \in inp, res \in {"ok", "bare", "err"} : Answer(q, res)
  <2>1. PICK q \in inp, res \in {"ok", "bare", "err"} : Answer(q, res)
    BY <1>7
  <2>2. /\ UNCHANGED <<spec, pc>> /\ inp' \subseteq inp
        /\ prov'.turn = prov.turn \/ q[2] = "turn/start"
    BY <1>0, <2>1 DEF Answer, Prov
  <2> QED
    BY <1>0, <2>2, WeeklyFrame
<1>8. CASE Writing
  <2>1. UNCHANGED <<spec, pc>>
    BY <1>8, ProviderFrame DEF Writing, Provider
  <2> QED
    BY <1>0, <1>8, <2>1, TurnWrites, WeeklyFrame DEF Written
<1>9. CASE Exit
  <2>1. UNCHANGED <<spec, pc>> /\ inp' = {} /\ prov'.turn = prov.turn
    BY <1>0, <1>9 DEF Exit, Prov
  <2> QED
    BY <1>0, <2>1, WeeklyFrame
<1>10. CASE UNCHANGED vars
  BY <1>0, <1>10, WeeklyFrame DEF vars
<1> QED
  BY <1>1, <1>2, <1>3, <1>4, <1>5, <1>6, <1>7, <1>8, <1>9, <1>10 DEF Next, Provider, Writing

LEMMA WeeklyHolds == Spec => []WeeklyFits
<1>1. Init => WeeklyFits
  BY DEF Init, WeeklyFits
<1>2. SInv /\ RInv /\ WeeklyFits /\ [Next]_vars => WeeklyFits'
  BY WeeklyStep
<1> QED
  BY <1>1, <1>2, SInvHolds, RInvHolds, PTL DEF Spec

-----------------------------------------------------------------------------
(* Usage: what Claude's reports add up to.  Unread are the reports on stdout *)
(* that will count when they are read; a result is the last line.            *)

LEMMA UnreadCounts ==
    ASSUME ProvTypes
    PROVE  Unread \subseteq 1..Len(outp) /\ IsFiniteSet(Unread) /\ Cardinality(Unread) \in Nat
<1>1. Unread \subseteq 1..Len(outp) /\ Len(outp) \in Nat
  <2>1. Len(outp) \in Nat /\ DOMAIN outp = 1..Len(outp)
    BY DEF ProvTypes
  <2> QED
    BY <2>1 DEF Unread
<1>2. IsFiniteSet(1..Len(outp))
  BY <1>1, FS_Interval
<1>3. IsFiniteSet(Unread)
  BY <1>1, <1>2, FS_Subset
<1> QED
  BY <1>1, <1>3, FS_CardinalityType

LEMMA CountingFrame ==
    ASSUME Counting, UNCHANGED <<spec, outp>>, run'.last = run.last, run'.use = run.use,
           prov'.turn = prov.turn, prov'.spent = prov.spent
    PROVE  Counting'
<1>1. Unread' = Unread
  BY DEF Unread
<1>2. ResultLast' <=> ResultLast
  BY DEF ResultLast
<1> QED
  BY <1>1, <1>2 DEF Counting, ClaudeRun

(* A report that is written counts unless its message was reported before. *)
NewReport(l) ==
    /\ IsReport(l)
    /\ l.id # "" => /\ l.id \notin run.use.seen
                    /\ \A k \in DOMAIN outp : IsReport(outp[k]) => outp[k].id # l.id

LEMMA UnreadAppended ==
    ASSUME ProvTypes, NEW l \in Line, outp' = Append(outp, l), run' = run
    PROVE  /\ Cardinality(Unread') = Cardinality(Unread) + (IF NewReport(l) THEN 1 ELSE 0)
<1>1. /\ DOMAIN outp = 1..Len(outp) /\ Len(outp) \in Nat /\ DOMAIN outp' = 1..(Len(outp) + 1)
      /\ (\A i \in 1..Len(outp) : outp'[i] = outp[i]) /\ outp'[Len(outp) + 1] = l
  BY Appended
<1>2. \A i \in 1..(Len(outp) + 1) : i = Len(outp) + 1 \/ i \in 1..Len(outp)
  BY <1>1
<1>3. \A i \in 1..Len(outp) : i \in 1..(Len(outp) + 1) /\ \A k \in 1..(i - 1) : k \in 1..Len(outp)
  BY <1>1
<1>4. \A i \in 1..Len(outp) : i \in Unread' <=> i \in Unread
  BY <1>1, <1>3 DEF Unread
<1>5. 1..((Len(outp) + 1) - 1) = 1..Len(outp) /\ Len(outp) + 1 \in 1..(Len(outp) + 1)
  BY <1>1
<1>6. Len(outp) + 1 \in Unread' <=> NewReport(l)
  BY <1>1, <1>5 DEF Unread, NewReport
<1>7. /\ Unread \subseteq 1..Len(outp) /\ IsFiniteSet(Unread) /\ Cardinality(Unread) \in Nat
      /\ Len(outp) + 1 \notin Unread
  BY <1>1, UnreadCounts
<1>8. Unread' \subseteq 1..(Len(outp) + 1)
  BY <1>1 DEF Unread
<1>9. CASE NewReport(l)
  <2>1. Unread' = Unread \cup {Len(outp) + 1}
    BY <1>2, <1>4, <1>6, <1>7, <1>8, <1>9
  <2> QED
    BY <1>7, <1>9, <2>1, FS_AddElement
<1>10. CASE ~NewReport(l)
  <2>1. Unread' = Unread
    BY <1>2, <1>4, <1>6, <1>7, <1>8, <1>10
  <2> QED
    BY <1>7, <1>10, <2>1
<1> QED
  BY <1>9, <1>10

(* Reading the front of a queue shifts the places of the rest. *)
LEMMA ShiftedPlaces ==
    ASSUME NEW n \in Nat, NEW U \in SUBSET (1..(n + 1)), NEW V \in SUBSET (1..n),
           \A i \in 1..n : i \in V <=> i + 1 \in U
    PROVE  /\ Cardinality(V) \in Nat
           /\ Cardinality(U) = Cardinality(V) + (IF 1 \in U THEN 1 ELSE 0)
<1>1. IsFiniteSet(U) /\ IsFiniteSet(V)
  <2>1. IsFiniteSet(1..n) /\ IsFiniteSet(1..(n + 1))
    BY FS_Interval
  <2> QED
    BY <2>1, FS_Subset
<1> DEFINE f == [i \in V |-> i + 1]
<1>2. f \in Bijection(V, U \ {1})
  <2>1. \A i \in V : i \in 1..n /\ i + 1 \in U \ {1}
    OBVIOUS
  <2>2. \A i, k \in V : i + 1 = k + 1 => i = k
    OBVIOUS
  <2>3. ASSUME NEW u \in U \ {1} PROVE u - 1 \in V /\ (u - 1) + 1 = u
    <3>1. u - 1 \in 1..n /\ (u - 1) + 1 = u
      OBVIOUS
    <3> QED
      BY <3>1
  <2>4. f \in [V -> U \ {1}]
    BY <2>1
  <2>5. f \in Injection(V, U \ {1})
    BY <2>2, <2>4 DEF Injection, IsInjective
  <2>6. f \in Surjection(V, U \ {1})
    BY <2>3, <2>4 DEF Surjection
  <2> QED
    BY <2>5, <2>6 DEF Bijection
<1>3. ExistsBijection(V, U \ {1})
  BY <1>2 DEF ExistsBijection
<1>4. Cardinality(U \ {1}) = Cardinality(V)
  BY <1>1, <1>3, FS_Bijection
<1>5. Cardinality(U \ {1}) = IF 1 \in U THEN Cardinality(U) - 1 ELSE Cardinality(U)
  BY <1>1, FS_RemoveElement
<1>6. Cardinality(U) \in Nat /\ Cardinality(V) \in Nat
  BY <1>1, FS_CardinalityType
<1> QED
  BY <1>4, <1>5, <1>6

LEMMA Places ==
    ASSUME NEW n \in Nat
    PROVE  /\ 1..(1 - 1) = {} /\ 1 \in 1..(n + 1)
           /\ \A i \in 1..n :
                /\ i + 1 \in 1..(n + 1) /\ (i + 1) - 1 = i /\ 1 \in 1..i
                /\ \A k \in 1..(i - 1) : k \in 1..n /\ k + 1 \in 1..i
                /\ \A k \in 1..i : k = 1 \/ (k - 1 \in 1..(i - 1) /\ k - 1 \in 1..n /\ (k - 1) + 1 = k)
  OBVIOUS

LEMMA Predecessor ==
    ASSUME NEW m \in Nat \ {0}
    PROVE  \E n \in Nat : m = n + 1 /\ m - 1 = n
  OBVIOUS

(* The line at the front counts when it is read, and its message is then known. *)
CountsFront == LET h == Head(outp) IN IsReport(h) /\ (h.id # "" => h.id \notin run.use.seen)
LearnsFront ==
    LET h == Head(outp)
    IN  run'.use.seen = IF IsReport(h) /\ h.id # "" THEN run.use.seen \cup {h.id} ELSE run.use.seen

LEMMA UnreadTaken ==
    ASSUME ProvTypes, outp # << >>, outp' = Tail(outp), LearnsFront
    PROVE  /\ Cardinality(Unread') \in Nat
           /\ Cardinality(Unread) = Cardinality(Unread') + (IF CountsFront THEN 1 ELSE 0)
<1> DEFINE h == Head(outp)
<1>9. /\ Len(outp) \in Nat \ {0} /\ DOMAIN outp = 1..Len(outp) /\ DOMAIN outp' = 1..(Len(outp) - 1)
      /\ h = outp[1] /\ \A i \in DOMAIN outp' : outp'[i] = outp[i + 1]
  BY TakenLine
<1>8. PICK n \in Nat : Len(outp) = n + 1 /\ Len(outp) - 1 = n
  BY <1>9, Predecessor
<1>1. /\ DOMAIN outp = 1..(n + 1) /\ DOMAIN outp' = 1..n
      /\ h = outp[1] /\ \A i \in 1..n : outp'[i] = outp[i + 1]
  BY <1>9, <1>8
<1>0. /\ 1..(1 - 1) = {} /\ 1 \in 1..(n + 1)
      /\ \A i \in 1..n :
           /\ i + 1 \in 1..(n + 1) /\ (i + 1) - 1 = i /\ 1 \in 1..i
           /\ \A k \in 1..(i - 1) : k \in 1..n /\ k + 1 \in 1..i
           /\ \A k \in 1..i : k = 1 \/ (k - 1 \in 1..(i - 1) /\ k - 1 \in 1..n /\ (k - 1) + 1 = k)
  BY Places
<1>2. Unread \subseteq 1..(n + 1) /\ Unread' \subseteq 1..n
  BY <1>1 DEF Unread
<1>3. 1 \in Unread <=> CountsFront
  BY <1>0, <1>1 DEF Unread, CountsFront
<1>4. ASSUME NEW i \in 1..n PROVE i \in Unread' <=> i + 1 \in Unread
  <2>1. /\ i + 1 \in 1..(n + 1) /\ (i + 1) - 1 = i
        /\ \A k \in 1..(i - 1) : k \in 1..n /\ k + 1 \in 1..i
        /\ \A k \in 1..i : k = 1 \/ (k - 1 \in 1..(i - 1) /\ k - 1 \in 1..n /\ (k - 1) + 1 = k)
    BY <1>0
  <2>2. 1 \in 1..i
    BY <1>0
  <2> DEFINE id == outp[i + 1].id
  <2>3. (\A k \in 1..(i - 1) : IsReport(outp'[k]) => outp'[k].id # id)
           /\ (IsReport(h) => h.id # id)
        <=> \A k \in 1..i : IsReport(outp[k]) => outp[k].id # id
    <3>1. ASSUME \A k \in 1..i : IsReport(outp[k]) => outp[k].id # id
          PROVE  (\A k \in 1..(i - 1) : IsReport(outp'[k]) => outp'[k].id # id)
                 /\ (IsReport(h) => h.id # id)
      BY <1>1, <2>1, <2>2, <3>1
    <3>2. ASSUME \A k \in 1..(i - 1) : IsReport(outp'[k]) => outp'[k].id # id,
                 IsReport(h) => h.id # id, NEW k \in 1..i
          PROVE  IsReport(outp[k]) => outp[k].id # id
      <4>1. CASE k = 1
        BY <1>1, <3>2, <4>1
      <4>2. CASE k # 1
        <5>1. k - 1 \in 1..(i - 1) /\ outp'[k - 1] = outp[k]
          BY <1>1, <2>1, <4>2
        <5> QED
          BY <3>2, <5>1
      <4> QED
        BY <4>1, <4>2
    <3> QED
      BY <3>1, <3>2
  <2>4. i + 1 \in Unread <=>
           /\ IsReport(outp[i + 1])
           /\ id # "" => id \notin run.use.seen /\ \A k \in 1..i : IsReport(outp[k]) => outp[k].id # id
    BY <1>1, <2>1 DEF Unread
  <2>5. i \in Unread' <=>
           /\ IsReport(outp[i + 1])
           /\ id # "" => id \notin run'.use.seen /\ \A k \in 1..(i - 1) : IsReport(outp'[k]) => outp'[k].id # id
    BY <1>1, <2>1 DEF Unread
  <2> HIDE DEF id
  <2>6. id # "" => (id \notin run'.use.seen <=> (id \notin run.use.seen /\ (IsReport(h) => h.id # id)))
    BY DEF LearnsFront
  <2> QED
    BY <2>3, <2>4, <2>5, <2>6
<1>5. /\ Cardinality(Unread') \in Nat
      /\ Cardinality(Unread) = Cardinality(Unread') + (IF 1 \in Unread THEN 1 ELSE 0)
  <2>1. Unread \in SUBSET (1..(n + 1)) /\ Unread' \in SUBSET (1..n)
    BY <1>2
  <2>2. \A i \in 1..n : i \in Unread' <=> i + 1 \in Unread
    BY <1>4
  <2> QED
    BY <2>1, <2>2, ShiftedPlaces, Zenon
<1> QED
  BY <1>3, <1>5

(* A result is the last line Claude writes. *)
LEMMA ResultStaysLast ==
    ASSUME ProvTypes, outp # << >>, outp' = Tail(outp), ResultLast, ~IsResult(Head(outp))
    PROVE  ResultLast' /\ outp'[Len(outp')] = outp[Len(outp)]
<1>1. /\ Len(outp) \in Nat \ {0} /\ Head(outp) = outp[1] /\ DOMAIN outp' = 1..(Len(outp) - 1)
      /\ Len(outp') = Len(outp) - 1 /\ \A i \in DOMAIN outp' : outp'[i] = outp[i + 1]
  BY TakenLine
<1>2. Len(outp) # 1
  BY <1>1 DEF ResultLast
<1>3. /\ Len(outp) - 1 \in 1..(Len(outp) - 1) /\ (Len(outp) - 1) + 1 = Len(outp)
      /\ \A i \in 1..((Len(outp) - 1) - 1) : i \in 1..(Len(outp) - 1) /\ i + 1 \in 1..(Len(outp) - 1)
  BY <1>1, <1>2
<1>4. outp'[Len(outp')] = outp[Len(outp)] /\ outp' # << >>
  <2>1. outp'[Len(outp')] = outp[Len(outp)]
    BY <1>1, <1>3
  <2>2. Len(outp') # 0
    BY <1>1, <1>2
  <2> QED
    BY <2>1, <2>2
<1>5. \A i \in 1..(Len(outp') - 1) : ~IsResult(outp'[i])
  BY <1>1, <1>3 DEF ResultLast
<1> QED
  BY <1>4, <1>5 DEF ResultLast

LEMMA ResultAlone ==
    ASSUME ProvTypes, outp # << >>, outp' = Tail(outp), ResultLast, IsResult(Head(outp))
    PROVE  outp' = << >> /\ Head(outp) = outp[Len(outp)]
<1>1. /\ Len(outp) \in Nat \ {0} /\ Head(outp) = outp[1] /\ DOMAIN outp' = 1..(Len(outp) - 1)
      /\ Len(outp') = Len(outp) - 1 /\ outp' \in Seq(Line)
  BY TakenLine
<1>2. Len(outp) = 1
  <2>1. Len(outp) # 1 => 1 \in 1..(Len(outp) - 1)
    BY <1>1
  <2> QED
    BY <1>1, <2>1 DEF ResultLast
<1>3. Len(outp') = 0
  BY <1>1, <1>2
<1> QED
  BY <1>1, <1>2, <1>3

LEMMA CountedMessage ==
    ASSUME NEW u, NEW id, id \notin u.seen
    PROVE  /\ CountMessage(u, id, 1).seen = IF id = "" THEN u.seen ELSE u.seen \cup {id}
           /\ CountMessage(u, id, 1).msgs = u.msgs + 1
           /\ CountMessage(u, id, 1).counted = u.counted + 1
  BY DEF CountMessage

(* What counting one line does to the tally. *)
LEMMA FrontCounted ==
    ASSUME SInv, ClaudeRun, StreamLine, ~IsResult(Head(outp))
    PROVE  /\ LearnsFront /\ run'.last = run.last
           /\ CountsFront => /\ run'.use.msgs = run.use.msgs + 1
                             /\ run'.use.counted = run.use.counted + 1
           /\ ~CountsFront => /\ run'.use.msgs = run.use.msgs
                              /\ run'.use.counted = run.use.counted
<1> DEFINE h == Head(outp)
<1>1. ProvTypes /\ LinesFit /\ run.use \in Use /\ outp # << >> /\ outp' = Tail(outp)
  BY DEF SInv, ProvTypes, StreamRun, StreamLine
<1>2. h \in Line /\ 1 \in DOMAIN outp /\ h = outp[1]
  BY <1>1, TakenLine
<1>3. /\ run'.last = IF IsVerdict(h) THEN h.status ELSE run.last
      /\ run'.use = CASE IsReport(h) -> CountMessage(run.use, h.id, h.n)
                      [] IsResult(h) -> CountResult(run.use, h.n)
                      [] OTHER -> run.use
  BY <1>1, LineRun
<1>4. ~IsVerdict(h) /\ ~IsResult(h)
  BY <1>1, <1>2 DEF LinesFit, IsVerdict, IsResult
<1>5. IsReport(h) => h.id \in {"m1", "m2", ""} /\ h.n = 1
  BY <1>2, LineKinds
<1>6. run.use.seen \subseteq {"m1", "m2"}
  BY <1>1 DEF Use
<1> HIDE DEF h
<1>7. CASE IsReport(h)
  <2>1. run'.use = CountMessage(run.use, h.id, 1)
    BY <1>3, <1>4, <1>5, <1>7
  <2>2. CASE h.id \in run.use.seen
    <3>1. run'.use = run.use /\ h.id # ""
      BY <1>6, <2>1, <2>2 DEF CountMessage
    <3> QED
      BY <1>3, <1>4, <1>7, <2>2, <3>1 DEF h, LearnsFront, CountsFront
  <2>3. CASE h.id \notin run.use.seen
    <3>1. /\ run'.use.seen = IF h.id = "" THEN run.use.seen ELSE run.use.seen \cup {h.id}
          /\ run'.use.msgs = run.use.msgs + 1 /\ run'.use.counted = run.use.counted + 1
      <4>1. /\ CountMessage(run.use, h.id, 1).seen = IF h.id = "" THEN run.use.seen ELSE run.use.seen \cup {h.id}
            /\ CountMessage(run.use, h.id, 1).msgs = run.use.msgs + 1
            /\ CountMessage(run.use, h.id, 1).counted = run.use.counted + 1
        BY <2>3, CountedMessage, Zenon
      <4> QED
        BY <2>1, <4>1, Zenon
    <3>2. CountsFront /\ LearnsFront
      BY <1>7, <2>3, <3>1 DEF h, LearnsFront, CountsFront
    <3> QED
      BY <1>3, <1>4, <3>1, <3>2
  <2> QED
    BY <2>2, <2>3
<1>8. CASE ~IsReport(h)
  <2>1. run'.use = run.use
    BY <1>3, <1>4, <1>8
  <2> QED
    BY <1>3, <1>4, <1>8, <2>1 DEF h, LearnsFront, CountsFront
<1> QED
  BY <1>7, <1>8

LEMMA Tally ==
    ASSUME NEW s \in Nat, NEW m \in Nat, NEW c \in Nat
    PROVE  /\ s = m + (c + 1) <=> s = (m + 1) + c
           /\ s >= m + (c + 1) <=> s >= (m + 1) + c
           /\ s = m + c => s + 1 = m + (c + 1)
           /\ s = m + c => s >= m + c /\ s + 1 >= m + c
           /\ s >= m + c => s >= m /\ m + (s - m) = s
  OBVIOUS

LEMMA CountTypes ==
    ASSUME SInv
    PROVE  /\ run.use.msgs \in Nat /\ run.use.counted \in Nat /\ prov.spent \in Nat
           /\ Cardinality(Unread) \in Nat /\ ProvTypes
<1>1. run.use \in Use /\ ProvTypes
  BY DEF SInv, ProvTypes, StreamRun
<1> QED
  BY <1>1, ProvNumbers, UnreadCounts DEF Use, Prov

LEMMA LineKeepsCounting ==
    ASSUME SInv, Counting, ClaudeRun, StreamLine
    PROVE  Counting'
<1>1. /\ outp # << >> /\ outp' = Tail(outp) /\ spec' = spec /\ ProvTypes
  BY DEF StreamLine, SInv
<1>2. prov'.turn = prov.turn /\ prov'.spent = prov.spent
  BY ProvNumbers DEF StreamLine, Prov
<1>3. run.last = "none" /\ run.use.counted = run.use.msgs
  BY <1>1 DEF Counting
<1>4. Head(outp) \in Line /\ Head(outp) = outp[1] /\ 1 \in DOMAIN outp
  BY <1>1, TakenLine
<1>5. /\ run.use.msgs \in Nat /\ run.use.counted \in Nat /\ prov.spent \in Nat
      /\ Cardinality(Unread) \in Nat
  BY CountTypes
<1>6. CASE IsResult(Head(outp))
  <2>1. prov.turn = "over"
    BY <1>4, <1>6 DEF Counting
  <2>2. ResultLast /\ outp[Len(outp)].n = prov.spent /\ prov.spent >= run.use.msgs + Cardinality(Unread)
    BY <1>3, <2>1 DEF Counting
  <2>3. outp' = << >> /\ Head(outp).n = prov.spent
    BY <1>1, <1>6, <2>2, ResultAlone
  <2>4. IsVerdict(Head(outp)) /\ ~IsReport(Head(outp))
    BY <1>6 DEF IsResult, IsVerdict, IsReport
  <2>5. run'.last = Head(outp).status /\ run'.use = CountResult(run.use, prov.spent)
    BY <1>1, <1>6, <2>3, <2>4, LineRun
  <2>6. run'.last # "none"
    BY <1>4, <2>4, <2>5, LineKinds DEF Statuses
  <2>7. run.use \in Use
    BY <1>1 DEF ProvTypes, StreamRun
  <2>8. CountResult(run.use, prov.spent).counted = run.use.counted + Monus(prov.spent, run.use.msgs)
    BY <2>7 DEF CountResult, Use
  <2>9. prov.spent >= run.use.msgs /\ run.use.msgs + (prov.spent - run.use.msgs) = prov.spent
    BY <1>5, <2>2, Tally
  <2>10. Monus(prov.spent, run.use.msgs) = prov.spent - run.use.msgs
    BY <2>9 DEF Monus
  <2>11. run'.use.counted = prov.spent
    BY <1>3, <2>5, <2>8, <2>9, <2>10
  <2>12. DOMAIN outp' = {}
    BY <2>3
  <2> QED
    BY <1>2, <2>1, <2>3, <2>6, <2>11, <2>12 DEF Counting
<1>7. CASE ~IsResult(Head(outp))
  <2>1. /\ LearnsFront /\ run'.last = run.last
        /\ CountsFront => /\ run'.use.msgs = run.use.msgs + 1
                          /\ run'.use.counted = run.use.counted + 1
        /\ ~CountsFront => /\ run'.use.msgs = run.use.msgs
                           /\ run'.use.counted = run.use.counted
    BY <1>7, FrontCounted
  <2>2. /\ Cardinality(Unread') \in Nat
        /\ Cardinality(Unread) = Cardinality(Unread') + (IF CountsFront THEN 1 ELSE 0)
    BY <1>1, <2>1, UnreadTaken
  <2>3. run'.use.counted = run'.use.msgs
    BY <1>3, <2>1
  <2>4. prov.turn # "over" => prov.spent = run'.use.msgs + Cardinality(Unread')
    <3> SUFFICES ASSUME prov.turn # "over" PROVE prov.spent = run'.use.msgs + Cardinality(Unread')
      OBVIOUS
    <3>1. prov.spent = run.use.msgs + Cardinality(Unread)
      BY <1>3 DEF Counting
    <3> QED
      BY <1>5, <2>1, <2>2, <3>1, Tally
  <2>5. prov.turn = "over" => /\ prov.spent >= run'.use.msgs + Cardinality(Unread')
                              /\ ResultLast' /\ outp'[Len(outp')].n = prov.spent
    <3> SUFFICES ASSUME prov.turn = "over"
                 PROVE  /\ prov.spent >= run'.use.msgs + Cardinality(Unread')
                        /\ ResultLast' /\ outp'[Len(outp')].n = prov.spent
      OBVIOUS
    <3>1. /\ prov.spent >= run.use.msgs + Cardinality(Unread) /\ ResultLast
          /\ outp[Len(outp)].n = prov.spent
      BY <1>3 DEF Counting
    <3>2. prov.spent >= run'.use.msgs + Cardinality(Unread')
      BY <1>5, <2>1, <2>2, <3>1, Tally
    <3>3. ResultLast' /\ outp'[Len(outp')].n = prov.spent
      BY <1>1, <1>7, <3>1, ResultStaysLast
    <3> QED
      BY <3>2, <3>3
  <2>6. \A i \in DOMAIN outp' : \E k \in DOMAIN outp : outp'[i] = outp[k]
    BY <1>1, TakenLine
  <2>7. \A i \in DOMAIN outp' : IsResult(outp'[i]) => prov.turn = "over"
    BY <2>6 DEF Counting
  <2> QED
    BY <1>2, <1>3, <2>1, <2>3, <2>4, <2>5, <2>7 DEF Counting
<1> QED
  BY <1>6, <1>7

(* A line written during the turn, and the result that ends it. *)
LEMMA ReportKeepsCounting ==
    ASSUME SInv, Counting, ClaudeRun, prov.turn = "open", NEW l \in Line, outp' = Append(outp, l),
           UNCHANGED <<spec, run>>, prov'.turn = "open", ~IsResult(l),
           prov'.spent = prov.spent + (IF NewReport(l) THEN 1 ELSE 0)
    PROVE  Counting'
<1>1. /\ run.use.msgs \in Nat /\ run.use.counted \in Nat /\ prov.spent \in Nat
      /\ Cardinality(Unread) \in Nat /\ ProvTypes
  BY CountTypes
<1>2. run.last = "none" /\ run.use.counted = run.use.msgs /\ prov.spent = run.use.msgs + Cardinality(Unread)
  BY DEF Counting
<1>3. Cardinality(Unread') = Cardinality(Unread) + (IF NewReport(l) THEN 1 ELSE 0)
  BY <1>1, UnreadAppended
<1>4. prov'.spent = run.use.msgs + Cardinality(Unread')
  <2>1. CASE NewReport(l)
    BY <1>1, <1>2, <1>3, <2>1
  <2>2. CASE ~NewReport(l)
    BY <1>1, <1>2, <1>3, <2>2
  <2> QED
    BY <2>1, <2>2
<1>5. \A i \in DOMAIN outp' : (i \in DOMAIN outp /\ outp'[i] = outp[i]) \/ outp'[i] = l
  BY <1>1, Appended
<1>6. \A i \in DOMAIN outp' : ~IsResult(outp'[i])
  BY <1>5 DEF Counting
<1> QED
  BY <1>2, <1>4, <1>6 DEF Counting

LEMMA ResultKeepsCounting ==
    ASSUME SInv, Counting, ClaudeRun, prov.turn = "open", NEW l \in Line, outp' = Append(outp, l),
           UNCHANGED <<spec, run>>, prov'.turn = "over", IsResult(l), l.n = prov'.spent,
           prov'.spent = prov.spent \/ prov'.spent = prov.spent + 1
    PROVE  Counting'
<1>1. /\ run.use.msgs \in Nat /\ run.use.counted \in Nat /\ prov.spent \in Nat
      /\ Cardinality(Unread) \in Nat /\ ProvTypes
  BY CountTypes
<1>2. run.last = "none" /\ run.use.counted = run.use.msgs /\ prov.spent = run.use.msgs + Cardinality(Unread)
  BY DEF Counting
<1>3. Cardinality(Unread') = Cardinality(Unread)
  <2>1. ~NewReport(l)
    BY DEF NewReport, IsResult, IsReport
  <2>2. Cardinality(Unread') = Cardinality(Unread) + (IF NewReport(l) THEN 1 ELSE 0)
    BY <1>1, UnreadAppended
  <2> QED
    BY <1>1, <2>1, <2>2
<1>4. prov'.spent >= run.use.msgs + Cardinality(Unread')
  BY <1>1, <1>2, <1>3, Tally
<1>5. /\ Len(outp') = Len(outp) + 1 /\ DOMAIN outp = 1..Len(outp) /\ Len(outp) \in Nat
      /\ \A i \in DOMAIN outp : outp'[i] = outp[i]
      /\ outp'[Len(outp) + 1] = l
  BY <1>1, Appended
<1>6. \A i \in DOMAIN outp : ~IsResult(outp[i])
  BY DEF Counting
<1>7. (Len(outp) + 1) - 1 = Len(outp) /\ Len(outp') # 0
  BY <1>5
<1>8. ResultLast' /\ outp'[Len(outp')].n = prov'.spent
  <2>1. outp' # << >>
    BY <1>7
  <2> QED
    BY <1>5, <1>6, <1>7, <2>1 DEF ResultLast
<1> QED
  BY <1>2, <1>4, <1>8 DEF Counting

LEMMA SpentByCounts ==
    ASSUME ProvTypes, NEW l
    PROVE  (IF l.t = "note" /\ l.m = "assistant" THEN SpentBy(l) ELSE 0)
             = IF NewReport(l) THEN 1 ELSE 0
<1>1. DOMAIN outp = 1..Len(outp)
  BY DEF ProvTypes
<1>2. CASE IsReport(l) /\ l.id = ""
  BY <1>2 DEF SpentBy, NewReport, IsReport
<1>3. CASE IsReport(l) /\ l.id # ""
  BY <1>1, <1>3 DEF SpentBy, NewReport, IsReport
<1>4. CASE ~IsReport(l)
  BY <1>4 DEF NewReport, IsReport
<1> QED
  BY <1>2, <1>3, <1>4

LEMMA WritingKeepsCounting ==
    ASSUME SInv, Counting, ClaudeRun, Writing
    PROVE  Counting'
<1>1. UNCHANGED <<spec, run>> /\ prov \in Prov /\ ProvTypes
  BY ProviderFrame, ProvNumbers DEF Writing, Provider, SInv
<1>2. CASE ReportClaude
  <2>1. PICK l \in ClaudeLines :
           /\ Write(l)
           /\ prov' = [prov EXCEPT !.lines = @ + 1,
                         !.spent = @ + IF l.t = "note" /\ l.m = "assistant" THEN SpentBy(l) ELSE 0]
    BY <1>2 DEF ReportClaude
  <2>2. l \in Line /\ ~IsResult(l)
    BY <2>1, ClaudeFits DEF Fits, IsResult
  <2>3. prov' = [prov EXCEPT !.lines = @ + 1, !.spent = @ + IF NewReport(l) THEN 1 ELSE 0]
    BY <1>1, <2>1, SpentByCounts
  <2>4. prov'.turn = prov.turn /\ prov'.spent = prov.spent + (IF NewReport(l) THEN 1 ELSE 0)
    BY <1>1, <2>3 DEF Prov
  <2>5. prov.turn = "open" /\ outp' = Append(outp, l)
    BY <1>2, <2>1 DEF ReportClaude, Write
  <2> QED
    BY <1>1, <2>2, <2>4, <2>5, ReportKeepsCounting
<1>3. CASE \E m \in Methods : Ask(m)
  <2>1. PICK m \in Methods : Ask(m)
    BY <1>3
  <2> DEFINE l == [t |-> "ask", id |-> prov.lines, m |-> m]
  <2>2. l \in Line /\ ~IsResult(l) /\ ~NewReport(l)
    BY <2>1, AskFits DEF Fits, IsResult, IsReport, NewReport
  <2>3. prov.turn = "open" /\ outp' = Append(outp, l)
    BY <2>1 DEF Ask, Write
  <2> HIDE DEF l
  <2>4. prov'.turn = prov.turn /\ prov'.spent = prov.spent
    BY <1>1, <2>1 DEF Ask, Prov
  <2>5. prov'.spent = prov.spent + (IF NewReport(l) THEN 1 ELSE 0)
    BY <2>2, <2>4, CountTypes
  <2> QED
    BY <1>1, <2>2, <2>3, <2>4, <2>5, ReportKeepsCounting
<1>4. CASE EndClaude
  <2>1. PICK s \in {"Completed", "Failed"}, m \in Texts, extra \in {0, 1} :
           /\ Write([t |-> "note", m |-> "result", status |-> s, msg |-> m, n |-> prov.spent + extra])
           /\ prov' = [prov EXCEPT !.lines = @ + 1, !.turn = "over", !.said = s,
                                   !.spent = @ + extra, !.results = @ + 1]
    BY <1>4 DEF EndClaude
  <2> DEFINE l == [t |-> "note", m |-> "result", status |-> s, msg |-> m, n |-> prov.spent + extra]
  <2>2. l \in Line
    <3>1. prov.spent + extra \in Nat
      BY ProvNumbers
    <3> QED
      BY <3>1, ResultFits DEF Fits
  <2>3. IsResult(l) /\ l.n = prov.spent + extra
    BY DEF IsResult
  <2>4. prov.turn = "open" /\ outp' = Append(outp, l)
    BY <1>4, <2>1 DEF EndClaude, Write
  <2> HIDE DEF l
  <2>5. prov'.turn = "over" /\ prov'.spent = prov.spent + extra
    BY <1>1, <2>1 DEF Prov
  <2>6. prov.spent + extra = prov.spent \/ prov.spent + extra = prov.spent + 1
    BY CountTypes
  <2>7. prov'.spent = prov.spent \/ prov'.spent = prov.spent + 1
    BY <2>5, <2>6
  <2>8. l.n = prov'.spent
    BY <2>3, <2>5
  <2> QED
    BY <1>1, <2>2, <2>3, <2>4, <2>5, <2>7, <2>8, ResultKeepsCounting
<1> QED
  BY <1>2, <1>3, <1>4 DEF Writing, Report, EndTurn

LEMMA CountingStep ==
    ASSUME SInv, RInv, Counting, [Next]_vars
    PROVE  Counting'
<1>0. prov \in Prov /\ run \in StreamRun
  BY ProvNumbers DEF SInv, ProvTypes
<1>1. CASE Launch \/ SpawnFails
  <2>1. CASE LaunchClaude
    <3>1. /\ outp = << >> /\ outp' = outp /\ run.last = "none" /\ run.use = NoUsage /\ prov.spent = 0
      BY <2>1, LaunchFrame, <1>1 DEF SInv, ModeFits, Fresh
    <3>2. run'.last = "none" /\ run'.use = NoUsage /\ prov'.spent = 0 /\ prov'.turn = "open"
      BY <1>0, <2>1, <3>1 DEF LaunchClaude, Spawn, Prov, StreamRun
    <3>3. Unread' = {} /\ DOMAIN outp' = {}
      <4>1. DOMAIN outp' = {}
        BY <3>1
      <4> QED
        BY <4>1 DEF Unread
    <3>4. Cardinality(Unread') = 0
      BY <3>3, FS_EmptySet
    <3>5. NoUsage.msgs = 0 /\ NoUsage.counted = 0
      BY DEF NoUsage
    <3>6. prov'.spent = run'.use.msgs + Cardinality(Unread')
      BY <3>2, <3>4, <3>5
    <3> QED
      BY <3>2, <3>3, <3>5, <3>6 DEF Counting
  <2>2. CASE ~LaunchClaude
    <3>1. spec.mode = "none" /\ spec \in RunSpec
      BY <1>1, LaunchFrame DEF SInv, ModeFits, SpecTypes
    <3>2. spec'.mode # "claude"
      BY <1>1, <2>2, <3>1 DEF Launch, LaunchAppServer, AppServerUnavailable, LaunchDocker, SpawnFails, RunSpec
    <3> QED
      BY <3>2 DEF Counting, ClaudeRun
  <2> QED
    BY <2>1, <2>2
<1>2. CASE ~ClaudeRun /\ ~(Launch \/ SpawnFails)
  <2>1. spec' = spec
    BY <1>2, DriverFrame, StreamFrame, ReaderFrame, HandleFrame, ProviderFrame DEF Next, vars, AnswerAsk
  <2> QED
    BY <1>2, <2>1 DEF Counting, ClaudeRun
<1>3. CASE ClaudeRun /\ StreamLine
  BY <1>3, LineKeepsCounting
<1>4. CASE ClaudeRun /\ Writing
  BY <1>4, WritingKeepsCounting
<1>5. CASE StreamStep /\ ~StreamLine
  <2>1. outp' = outp /\ run'.last = run.last /\ run'.use = run.use
    BY <1>0, <1>5 DEF StreamStep, StreamLoop, StreamFinish, StreamEof, StreamSteer, StreamSteerFails,
       StreamCut, StreamTerminate, StreamGrace, StreamEnd, StreamRun
  <2>2. prov'.turn = prov.turn /\ prov'.spent = prov.spent
    BY <1>0, <1>5 DEF StreamStep, StreamLoop, StreamFinish, StreamEof, StreamSteer, StreamSteerFails,
       StreamCut, StreamTerminate, StreamGrace, StreamEnd, Prov
  <2> QED
    BY <1>5, <2>1, <2>2, StreamFrame, CountingFrame
<1>6. CASE ClaudeRun /\ \E q \in inp, res \in {"ok", "bare", "err"} : Answer(q, res)
  BY <1>6 DEF RInv, TableFits, AppServer, ClaudeRun
<1>7. CASE ClaudeRun /\ ReaderStep
  <2>1. reader = "on"
    BY <1>7 DEF ReaderStep, ReadLine, ReadEof
  <2> QED
    BY <1>7, <2>1 DEF SInv, ModeFits, AppServer, ClaudeRun
<1>8. CASE ClaudeRun /\ (DriverStep \/ DriverTimer)
  <2>1. pc \in AppPcs
    BY <1>8 DEF DriverStep, DriverTimer, StartupRequest, StartupAnswered, StartupCancelled,
         TurnTerminal, TurnSteer, TurnCancelled, FinalQuotaRequest, FinalQuotaAnswered, TearDown,
         GraceOver, SendEnded, AbortTasks, StartupTimeout, TurnTimeout, FinalQuotaTimeout,
         AppPcs, InStartup
  <2> QED
    BY <1>8, <2>1 DEF SInv, ModeFits, AppServer, ClaudeRun
<1>9. CASE Exit \/ \E a \in asks : AnswerAsk(a)
  <2>1. prov'.turn = prov.turn /\ prov'.spent = prov.spent /\ UNCHANGED <<spec, outp, run>>
    BY <1>0, <1>9 DEF Exit, AnswerAsk, Prov
  <2> QED
    BY <2>1, CountingFrame
<1>10. CASE Cancel \/ Steer \/ DropReceiver \/ UNCHANGED vars
  BY <1>10, HandleFrame, CountingFrame DEF vars
<1> QED
  BY <1>1, <1>2, <1>3, <1>4, <1>5, <1>6, <1>7, <1>8, <1>9, <1>10 DEF Next, Provider, Writing

LEMMA CountingHolds == Spec => []Counting
<1>1. Init => Counting
  BY SessionAssumption DEF Init, Counting, ClaudeRun, SessionSpec
<1>2. SInv /\ RInv /\ Counting /\ [Next]_vars => Counting'
  BY CountingStep
<1> QED
  BY <1>1, <1>2, SInvHolds, RInvHolds, PTL DEF Spec

(* Usage is measured once, in every session: under a weekly budget no turn   *)
(* starts before a reading and the end is told after a last one or an error, *)
(* and Claude's repeated message reports and its final result add up to the  *)
(* tokens spent (codex_app_server.rs run_turn and refresh_quota, claude.rs   *)
(* record_message and result_delta).                                         *)
THEOREM SessionUsage == Spec => []UsageMeasured
<1>1. SInv /\ WeeklyFits => WeeklyRunMeasured
  <2> SUFFICES ASSUME SInv, WeeklyFits, spec.budget = "weekly", ~ctl.gone
               PROVE  /\ prov.turn # "none" => Sent("Quota")
                      /\ events.ended > 0 => {"FinalQuota", "Error"} \cap events.before # {}
    BY DEF WeeklyRunMeasured
  <2>1. events.ended > 0 => pc \in {"abort", "done"}
    BY DEF SInv, Undecided
  <2> QED
    BY <2>1 DEF WeeklyFits
<1>2. SInv /\ Counting => UsageCountedOnce
  <2> SUFFICES ASSUME SInv, Counting, ClaudeRun
               PROVE  /\ run.use.counted <= prov.spent
                      /\ run.last # "none" => run.use.counted = prov.spent
    BY DEF UsageCountedOnce
  <2>1. /\ run.use.msgs \in Nat /\ run.use.counted \in Nat /\ prov.spent \in Nat
        /\ Cardinality(Unread) \in Nat
    BY CountTypes
  <2>2. CASE run.last = "none"
    <3>1. run.use.counted = run.use.msgs
      BY <2>2 DEF Counting
    <3>2. prov.spent = run.use.msgs + Cardinality(Unread) \/ prov.spent >= run.use.msgs + Cardinality(Unread)
      BY <2>2 DEF Counting
    <3> QED
      BY <2>1, <2>2, <3>1, <3>2
  <2>3. CASE run.last # "none"
    <3>1. run.use.counted = prov.spent
      BY <2>3 DEF Counting
    <3> QED
      BY <2>1, <3>1
  <2> QED
    BY <2>2, <2>3
<1>3. WeeklyRunMeasured /\ UsageCountedOnce => UsageMeasured
  BY DEF UsageMeasured
<1> QED
  BY <1>1, <1>2, <1>3, SInvHolds, WeeklyHolds, CountingHolds, PTL
=============================================================================
