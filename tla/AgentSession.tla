---------------------------- MODULE AgentSession ----------------------------
(***************************************************************************)
(* One session of a coding agent as its adapter drives it, from launch to  *)
(* the SessionEnded event: the Codex app-server transport (JSON-RPC over   *)
(* stdio, crates/am-agents/src/codex_app_server.rs), the `codex exec`      *)
(* stream (codex.rs) and the Claude stream (claude.rs).  The driver task,  *)
(* the reader task and the approval tasks interleave with the provider     *)
(* process, which may answer, report, crash or ignore SIGTERM at any time. *)
(* Text is abstracted to what the adapter looks for in it: phrases of a    *)
(* limit or of a network failure, and the times it can read.               *)
(***************************************************************************)
EXTENDS Integers, Sequences, FiniteSets

CONSTANTS
    Specs,        \* the sessions asked for: a subset of SessionSpec
    Texts,        \* what a message of the provider may be: a subset of Messages
    ItemTypes,    \* the item types the provider reports
    Notices,      \* other notifications: a subset of {"delta", "quota"}
    Methods,      \* the server-to-client requests the provider makes
    MaxLines,     \* bound: lines the provider writes besides its answers
    MaxControls   \* bound: uses of the session handle by the core

VARIABLES
    spec,      \* what was asked for: SessionSpec, fixed from the start
    pc,        \* where the driver task is
    wait,      \* whether the driver awaits the answer to a request
    req,       \* the driver's latest request id (next_id)
    reply,     \* the answer to it, as its oneshot receiver holds it
    pending,   \* ResponseState.waiting: ids with a registered sender
    closed,    \* ResponseState.closed
    reader,    \* the reader task: "off", "on", "eof" or "aborted"
    term,      \* [sent, status] of the terminal oneshot
    status,    \* final_status of the driver, "none" until it is decided
    ctl,       \* [cancel, steers, gone]: the SessionControl's two channels, the receiver
    child,     \* the process: "none", "up", "term", "kill", "dead"
    prov,      \* what the provider did and holds (external)
    inp,       \* requests the provider has read or can read and not answered
    outp,      \* its stdout: lines not yet read
    asks,      \* approval tasks waiting for the user
    replies,   \* answers sent to the provider's requests
    run,       \* the stream drivers' locals
    events     \* the NormalizedEvents sent [before, after] SessionEnded [ended times]

vars == <<spec, pc, wait, req, reply, pending, closed, reader, term, status, ctl,
          child, prov, inp, outp, asks, replies, run, events>>

rpcVars == <<wait, req, reply, pending, closed>>
tableVars == <<req, reply, pending, closed>>

Statuses == {"Completed", "Failed", "Interrupted"}
Decisions == {"Allow", "AllowForSession", "Deny", "Abort"}

(* What a run's policy denies: tools of the CLI and of MCP servers, servers,  *)
(* all of them or the remote connectors, and files.                          *)
Denials == {"tool", "mcp tool", "server", "every server", "connectors", "files"}

(* What an adapter is asked to run: codex on the host or in Docker, or claude. *)
SessionSpec == [transport : {"codex", "docker", "claude"}, mode : {"none"},
                perm : {"ReadOnly", "WorkspaceWrite", "Ask", "Autonomous"},
                budget : {"none", "tokens", "weekly"}, resume : BOOLEAN,
                approver : BOOLEAN, deny : SUBSET Denials]

(* A message: the phrases in it, and the times in it by their form, in hours *)
(* from now (of a clock time: from now to that time of today's date).        *)
Messages == [words : BOOLEAN, says : SUBSET {"limit", "network"},
             stamp : SUBSET Int, duration : SUBSET Nat,
             epoch : SUBSET Int, clock : SUBSET (-23..23)]
NoMessage == [words |-> FALSE, says |-> {}, stamp |-> {}, duration |-> {},
              epoch |-> {}, clock |-> {}]

(* validate_runtime_budget: the core starts no budgeted session outside the  *)
(* host, and none under a weekly budget but of Codex.                        *)
ValidateRuntimeBudget(s) ==
    /\ s.budget # "none" => s.transport # "docker"
    /\ s.budget = "weekly" => s.transport = "codex"

(* What the adapters know of requests and notifications, by their wire names. *)
RequestMethods == {"commandApproval", "fileApproval", "execCommandApproval",
                   "applyPatchApproval", "permissions", "question", "input",
                   "elicitation", "unsupported", "can_use_tool"}

ASSUME SessionAssumption ==
    /\ Specs \subseteq SessionSpec /\ \A s \in Specs : ValidateRuntimeBudget(s)
    /\ Texts \subseteq Messages
    /\ Notices \subseteq {"delta", "quota"} /\ Methods \subseteq RequestMethods
    /\ MaxLines \in Nat /\ MaxControls \in Nat

(* looks_like_limit and detect_network_error: the phrases they search for. *)
LooksLikeLimit(m) == "limit" \in m.says
DetectNetworkError(m) == "network" \in m.says

(* parse_epoch_seconds: a number of ten digits counts only in the next days. *)
ResetWindow == 8 * 24
NearEpochs(m) == {e \in m.epoch : 0 < e /\ e < ResetWindow}

(* parse_clock_time: a time that has passed today is tomorrow's. *)
NextClock(c) == IF c <= 0 THEN c + 24 ELSE c

(* parse_reset_at: the first form that can be read gives the reset time. *)
ParseResetAt(m) == CASE m.stamp # {} -> m.stamp
                     [] m.stamp = {} /\ m.duration # {} -> m.duration
                     [] m.stamp = {} /\ m.duration = {} /\ NearEpochs(m) # {} -> NearEpochs(m)
                     [] OTHER -> {NextClock(c) : c \in m.clock}

(* detect_usage_limit: the event of a limit, with or without a reset time. *)
LimitEvent(m) == IF ParseResetAt(m) = {} THEN "Limit" ELSE "LimitUntil"

(* push_error_or_limit: a limit or a network failure has an event of its own. *)
ErrorOrLimit(m) == IF LooksLikeLimit(m) THEN {LimitEvent(m)}
                   ELSE IF DetectNetworkError(m) THEN {"Network"}
                   ELSE IF m.words THEN {"Error"} ELSE {}

(* is_allow of a decision. *)
IsAllow(d) == d \in {"Allow", "AllowForSession"}

AppServer == spec.mode = "appserver"
ClaudeRun == spec.mode = "claude"

(* ManagedChild::spawn_inner: a process of its own group, stdin piped or not. *)
Spawn(piped, sandbox, denied, turn) ==
    /\ child' = "up"
    /\ prov' = [prov EXCEPT !.stdin = piped, !.sandbox = sandbox, !.denied = denied,
                            !.turn = turn]

(* ManagedChild: the child gets the signal unless it is gone already. *)
Terminate == child' = IF child = "up" THEN "term" ELSE child
Kill == child' = IF child = "dead" THEN child ELSE "kill"

-----------------------------------------------------------------------------
(* Permissions on the wire *)

(* thread_start_params: the sandbox of a thread. *)
StartSandbox(p) == CASE p = "ReadOnly" -> "read-only"
                     [] p = "Autonomous" -> "danger-full-access"
                     [] OTHER -> "workspace-write"

(* Mutant: the override forgets the read-only level. *)
TurnSandboxWide(p) == IF p = "Autonomous" THEN "danger-full-access" ELSE "workspace-write"

(* turn_sandbox_policy: the override carried by every turn. *)
TurnSandbox(p) == CASE p = "ReadOnly" -> "read-only"
                    [] p = "Autonomous" -> "danger-full-access"
                    [] OTHER -> "workspace-write"

(* build_args of codex exec: a Docker sandbox replaces Codex's own one. *)
ExecSandbox(p, docker) ==
    CASE p = "ReadOnly" -> "read-only"
      [] p = "Autonomous" -> "danger-full-access"
      [] p = "WorkspaceWrite" /\ docker -> "danger-full-access"
      [] OTHER -> "workspace-write"

(* build_args of claude: permission mode, and the sandbox override. *)
ClaudeMode(p, approver) ==
    CASE p = "ReadOnly" -> "plan"
      [] p = "Autonomous" -> "bypassPermissions"
      [] p = "Ask" /\ approver -> "manual"
      [] OTHER -> "acceptEdits"

(* push_policy_args of codex: overrides for MCP tools, servers and files.    *)
(* Other tools and "every server" have no override.                          *)
CodexPolicy(deny) == deny \cap {"mcp tool", "server", "files"}

(* push_policy_args and policy_env of claude: everything, the remote         *)
(* connectors through the environment.                                       *)
ClaudePolicy(deny) == deny \cap Denials

(* stream_input: whether Claude reads its prompt, and replies, on stdin. *)
StreamInput(s) == s.transport = "claude" /\ (s.budget # "none" \/ s.approver)

-----------------------------------------------------------------------------
(* Sending *)

(* Sends on the event channel; nothing arrives once the receiver is dropped. *)
Emit(es) == events' = IF ctl.gone THEN events
                      ELSE IF events.ended = 0 THEN [events EXCEPT !.before = @ \cup es]
                      ELSE [events EXCEPT !.after = @ \cup es]

(* The events es and then SessionEnded. *)
EmitEnded(es) == events' = IF ctl.gone THEN events
                           ELSE [events EXCEPT !.before = @ \cup es, !.ended = @ + 1]

(* map_item: the events of a v2 item when it starts and when it is done. *)
ToolTypes == {"commandExecution", "mcpToolCall", "dynamicToolCall",
              "webSearch", "imageGeneration", "collabAgentToolCall"}
MapItem(type, completed) ==
    CASE type = "agentMessage" -> IF completed THEN {"Text"} ELSE {}
      [] type \in ToolTypes -> IF completed THEN {"ToolResult"} ELSE {"ToolUse"}
      [] type = "fileChange" -> IF completed THEN {"FileChanged", "ToolResult"} ELSE {}
      [] type = "imageView" -> IF completed THEN {} ELSE {"ToolUse"}
      [] OTHER -> {}

(* parse_item of the exec stream: fewer types, and errors as items. *)
ParseItem(type, completed) ==
    CASE type = "agentMessage" -> IF completed THEN {"Text"} ELSE {}
      [] type \in {"commandExecution", "mcpToolCall", "webSearch"} ->
            IF completed THEN {"ToolResult"} ELSE {"ToolUse"}
      [] type = "fileChange" -> IF completed THEN {"FileChanged", "ToolResult"} ELSE {}
      [] OTHER -> {}

(* approval_ask_for: the requests that are approvals, with both wire formats. *)
V2 == {"commandApproval", "fileApproval"}
Legacy == {"execCommandApproval", "applyPatchApproval"}
ApprovalMethods == V2 \cup Legacy \cup {"permissions"}

(* review_decision: the legacy words. *)
ReviewDecision(d) == [Allow |-> "approved", AllowForSession |-> "approved_for_session",
                      Deny |-> "denied", Abort |-> "abort"][d]

(* Mutant: the legacy words for every request but permissions. *)
ApprovalResponseLegacy(m, d) ==
    IF m = "permissions" THEN IF IsAllow(d) THEN "granted" ELSE "none"
    ELSE ReviewDecision(d)

(* approval_response: the user's decision in the format of the request. *)
ApprovalResponse(m, d) ==
    CASE m = "permissions" -> IF IsAllow(d) THEN "granted" ELSE "none"
      [] m \in V2 -> [Allow |-> "accept", AllowForSession |-> "acceptForSession",
                      Deny |-> "decline", Abort |-> "cancel"][d]
      [] m \in Legacy -> ReviewDecision(d)

(* approval_question_choices: an Accept/Decline question of an app tool. *)
QuestionAnswer(d) == IF IsAllow(d) THEN "accept" ELSE "decline"

(* handle_control_request: Claude's can_use_tool answer. *)
ControlResponse(d) == IF IsAllow(d) THEN "allow" ELSE "deny"

(* What is written back for a decision on request method m. *)
ReplyTo(m, d) == CASE m = "can_use_tool" -> ControlResponse(d)
                   [] m = "question" -> QuestionAnswer(d)
                   [] OTHER -> ApprovalResponse(m, d)

(* External: the words each request method reads as permission to go on. *)
Grants(m) == CASE m = "permissions" -> {"granted"}
               [] m \in V2 -> {"accept", "acceptForSession"}
               [] m \in Legacy -> {"approved", "approved_for_session"}
               [] m = "question" -> {"accept"}
               [] OTHER -> {"allow"}

-----------------------------------------------------------------------------
(* Launch *)

NoUsage == [seen |-> {}, msgs |-> 0, counted |-> 0]

Init ==
    /\ spec \in Specs
    /\ pc = "launch"
    /\ wait = FALSE /\ req = 0 /\ reply = "none" /\ pending = {} /\ closed = FALSE
    /\ reader = "off"
    /\ term = [sent |-> FALSE, status |-> "none"]
    /\ status = "none"
    /\ ctl = [cancel |-> FALSE, steers |-> 0, gone |-> FALSE]
    /\ child = "none"
    /\ prov = [lines |-> 0, turn |-> "none", sandbox |-> "unset", denied |-> {},
               spent |-> 0, said |-> "none", stdin |-> FALSE, diag |-> NoMessage, ok |-> FALSE,
               results |-> 0, steered |-> 0]
    /\ inp = {} /\ outp = <<>> /\ asks = {} /\ replies = {}
    /\ run = [cancelled |-> FALSE, timedOut |-> FALSE, saw |-> FALSE,
              last |-> "none", input |-> FALSE, use |-> NoUsage]
    /\ events = [before |-> {}, ended |-> 0, after |-> {}]

(* codex_app_server::launch: the child is spawned with a piped stdin, then   *)
(* drive() starts writer, reader and the startup sequence.                   *)
LaunchAppServer ==
    /\ pc = "launch" /\ spec.transport = "codex"
    /\ spec' = [spec EXCEPT !.mode = "appserver"]
    /\ Spawn(TRUE, prov.sandbox, CodexPolicy(spec.deny), "none")
    /\ reader' = "on"
    /\ pc' = "initialize"
    /\ UNCHANGED <<rpcVars, term, status, ctl, inp, outp, asks, replies, run, events>>

(* CodexAdapter::launch: the app-server could not be started.  A budgeted    *)
(* run fails, any other falls back to `codex exec`.                          *)
AppServerUnavailable ==
    /\ pc = "launch" /\ spec.transport = "codex"
    /\ IF spec.budget # "none"
       THEN pc' = "refused" /\ UNCHANGED <<spec, child, prov>>
       ELSE /\ pc' = "stream"
            /\ spec' = [spec EXCEPT !.mode = "exec"]
            /\ Spawn(FALSE, ExecSandbox(spec.perm, FALSE), CodexPolicy(spec.deny), "open")
    /\ UNCHANGED <<rpcVars, reader, term, status, ctl, inp, outp, asks, replies, run, events>>

(* The exec stream in a Docker sandbox: ensure_sandbox finds or creates it.  *)
LaunchDocker ==
    /\ pc = "launch" /\ spec.transport = "docker"
    /\ pc' = "stream"
    /\ spec' = [spec EXCEPT !.mode = "exec"]
    /\ Spawn(FALSE, ExecSandbox(spec.perm, TRUE), CodexPolicy(spec.deny), "open")
    /\ UNCHANGED <<rpcVars, reader, term, status, ctl, inp, outp, asks, replies, run, events>>

(* ClaudeAdapter::launch: with stream input the prompt goes over stdin.      *)
LaunchClaude ==
    /\ pc = "launch" /\ spec.transport = "claude"
    /\ pc' = "stream"
    /\ spec' = [spec EXCEPT !.mode = "claude"]
    /\ run' = [run EXCEPT !.input = StreamInput(spec)]
    /\ Spawn(StreamInput(spec), ClaudeMode(spec.perm, spec.approver),
             ClaudePolicy(spec.deny), "open")
    /\ UNCHANGED <<rpcVars, reader, term, status, ctl, inp, outp, asks, replies, events>>

(* spawn_for_runtime_with_env: no binary, no sandbox, or spawn fails.        *)
SpawnFails ==
    /\ pc = "launch"
    /\ pc' = "refused"
    /\ UNCHANGED <<spec, rpcVars, reader, term, status, ctl, child, prov, inp,
                   outp, asks, replies, run, events>>

-----------------------------------------------------------------------------
(* The app-server driver: startup requests *)

Startup == {"initialize", "thread/resume", "thread/start", "quota", "turn/start"}
InStartup == pc \in Startup

(* Mutant: the weekly reading is left for the end of the run. *)
AfterRequestUnmeasured(m) ==
    CASE m = "initialize" -> IF spec.resume THEN "thread/resume" ELSE "thread/start"
      [] m \in {"thread/resume", "thread/start", "quota"} -> "turn/start"
      [] m = "turn/start" -> "turn"

(* run_turn: what follows an answered request. *)
AfterRequest(m) ==
    CASE m = "initialize" -> IF spec.resume THEN "thread/resume" ELSE "thread/start"
      [] m \in {"thread/resume", "thread/start"} ->
            IF spec.budget = "weekly" THEN "quota" ELSE "turn/start"
      [] m = "quota" -> "turn/start"
      [] m = "turn/start" -> "turn"

(* The driver gives up on the session with final status s. *)
Decide(s) == status' = s /\ pc' = "final quota"

(* Mutant: the closed flag is not looked at. *)
RegisterUnchecked(m) ==
    /\ req' = req + 1 /\ reply' = "none"
    /\ pending' = pending \cup {req + 1}
    /\ inp' = IF child = "dead" THEN inp ELSE inp \cup {<<req + 1, m>>}
    /\ pc' = m /\ wait' = TRUE
    /\ UNCHANGED <<closed, status, events>>

(* Rpc::request: refused when the reader has closed the table; otherwise the *)
(* sender is registered and the line written.  Writing to a dead child may   *)
(* fail, which removes the registration and is an error too.                 *)
Register(m) ==
    /\ ~closed
    /\ req' = req + 1 /\ reply' = "none"
    /\ pending' = pending \cup {req + 1}
    /\ inp' = IF child = "dead" THEN inp ELSE inp \cup {<<req + 1, m>>}
    /\ pc' = m /\ wait' = TRUE
    /\ UNCHANGED <<closed, status, events>>

RequestRefused == closed \/ child = "dead"

(* Mutant: the failure is decided and not shown. *)
StartupFailsSilently(m) ==
    IF m = "thread/resume"
    THEN pc' = "thread/start" /\ UNCHANGED <<status, events>>
    ELSE Decide("Failed") /\ UNCHANGED events

(* A failed request of the startup sequence: a failed thread/resume falls    *)
(* back to a new thread, any other error is shown and fails the session.     *)
StartupFails(m) ==
    IF m = "thread/resume"
    THEN pc' = "thread/start" /\ UNCHANGED <<status, events>>
    ELSE Decide("Failed") /\ Emit({"Error"})

StartupRequest(m) ==
    /\ pc = m /\ m \in Startup /\ ~wait
    /\ \/ Register(m)
       \/ RequestRefused /\ StartupFails(m) /\ UNCHANGED <<rpcVars, inp>>
    /\ UNCHANGED <<spec, reader, term, ctl, child, prov, outp, asks, replies, run>>

(* parse_quota_window: whether the answer holds a weekly window. *)
HasWindow(r) == r = "ok"

(* The answer arrives: SessionStarted follows the thread, a Quota sample the *)
(* weekly reading, and an answer without the needed field is an error.       *)
StartupAnswered(m) ==
    /\ pc = m /\ wait /\ m \in Startup /\ reply # "none"
    /\ \/ /\ reply = "ok" \/ (reply = "bare" /\ m \in {"initialize", "turn/start"})
          /\ pc' = AfterRequest(m)
          /\ Emit(CASE m \in {"thread/resume", "thread/start"} -> {"Started"}
                    [] m = "quota" -> {"Quota"}
                    [] OTHER -> {})
          /\ UNCHANGED status
       \/ reply = "err" /\ StartupFails(m)
       \/ /\ \/ reply = "bare" /\ m \in {"thread/resume", "thread/start"}
             \/ reply = "bare" /\ m = "quota" /\ ~HasWindow(reply)
          /\ Decide("Failed") /\ Emit({"Error"})
    /\ wait' = FALSE
    /\ UNCHANGED <<spec, tableVars, reader, term, ctl, child, prov, inp, outp,
                   asks, replies, run>>

(* drive: Stop and the startup timeout end the startup wherever it is. *)
StartupCancelled ==
    /\ InStartup /\ ctl.cancel
    /\ Decide("Interrupted")
    /\ wait' = FALSE
    /\ UNCHANGED <<spec, tableVars, reader, term, ctl, child, prov, inp, outp,
                   asks, replies, run, events>>

StartupTimeout ==
    /\ InStartup
    /\ Decide("Interrupted") /\ Emit({"Error"})
    /\ wait' = FALSE
    /\ UNCHANGED <<spec, tableVars, reader, term, ctl, child, prov, inp, outp,
                   asks, replies, run>>

-----------------------------------------------------------------------------
(* The app-server driver: the turn and the end *)

(* The reader's verdict arrives. *)
TurnTerminal ==
    /\ pc = "turn" /\ term.sent
    /\ Decide(term.status)
    /\ wait' = FALSE
    /\ UNCHANGED <<spec, tableVars, reader, term, ctl, child, prov, inp, outp,
                   asks, replies, run, events>>

(* rpc.steer: the instruction goes to the provider. *)
TurnSteer ==
    /\ pc = "turn" /\ ctl.steers > 0
    /\ ctl' = [ctl EXCEPT !.steers = @ - 1]
    /\ prov' = [prov EXCEPT !.steered = @ + 1]
    /\ UNCHANGED <<spec, pc, rpcVars, reader, term, status, child, inp, outp,
                   asks, replies, run, events>>

TurnCancelled ==
    /\ pc = "turn" /\ ctl.cancel
    /\ Decide("Interrupted")
    /\ wait' = FALSE
    /\ UNCHANGED <<spec, tableVars, reader, term, ctl, child, prov, inp, outp,
                   asks, replies, run, events>>

TurnTimeout ==
    /\ pc = "turn"
    /\ Decide("Interrupted") /\ Emit({"Error"})
    /\ wait' = FALSE
    /\ UNCHANGED <<spec, tableVars, reader, term, ctl, child, prov, inp, outp,
                   asks, replies, run>>

(* What the driver says when the last weekly reading did not come. *)
NoReading == IF spec.budget = "weekly" THEN {"Error"} ELSE {}

(* refresh_quota with final_sample: the request, its answer, its timeout. *)
FinalQuotaRequest ==
    /\ pc = "final quota" /\ ~wait
    /\ \/ Register("final quota")
       \/ /\ RequestRefused
          /\ pc' = "terminate" /\ Emit(NoReading)
          /\ UNCHANGED <<rpcVars, status, inp>>
    /\ UNCHANGED <<spec, reader, term, ctl, child, prov, outp, asks, replies, run>>

FinalQuotaAnswered ==
    /\ pc = "final quota" /\ wait /\ reply # "none"
    /\ pc' = "terminate"
    /\ Emit(IF HasWindow(reply) THEN {"FinalQuota"} ELSE NoReading)
    /\ wait' = FALSE
    /\ UNCHANGED <<spec, tableVars, reader, term, status, ctl, child, prov, inp,
                   outp, asks, replies, run>>

FinalQuotaTimeout ==
    /\ pc = "final quota" /\ wait
    /\ pc' = "terminate" /\ Emit(NoReading)
    /\ wait' = FALSE
    /\ UNCHANGED <<spec, tableVars, reader, term, status, ctl, child, prov, inp,
                   outp, asks, replies, run>>

(* terminate_group, then at most TERMINATE_GRACE for the child to exit. *)
TearDown ==
    /\ pc = "terminate"
    /\ Terminate /\ pc' = "grace"
    /\ UNCHANGED <<spec, rpcVars, reader, term, status, ctl, prov, inp, outp,
                   asks, replies, run, events>>

(* Mutant: a child that outlives the grace period is left alone. *)
GraceOverNoKill ==
    /\ pc = "grace"
    /\ pc' = "ending"
    /\ UNCHANGED <<spec, rpcVars, reader, term, status, ctl, child, prov, inp, outp,
                   asks, replies, run, events>>

GraceOver ==
    /\ pc = "grace"
    /\ \/ child = "dead" /\ UNCHANGED child
       \/ child # "dead" /\ Kill
    /\ pc' = "ending"
    /\ UNCHANGED <<spec, rpcVars, reader, term, status, ctl, prov, inp, outp,
                   asks, replies, run, events>>

SendEnded ==
    /\ pc = "ending"
    /\ EmitEnded({}) /\ pc' = "abort"
    /\ UNCHANGED <<spec, rpcVars, reader, term, status, ctl, child, prov, inp,
                   outp, asks, replies, run>>

AbortTasks ==
    /\ pc = "abort"
    /\ pc' = "done"
    /\ reader' = IF reader = "on" THEN "aborted" ELSE reader
    /\ UNCHANGED <<spec, rpcVars, term, status, ctl, child, prov, inp, outp,
                   asks, replies, run, events>>

-----------------------------------------------------------------------------
(* The app-server reader *)

(* A response resolves its request, if somebody still waits for it. *)
ReadResponse(l) ==
    /\ l.t = "resp"
    /\ pending' = pending \ {l.id}
    /\ reply' = IF l.id \in pending /\ l.id = req THEN l.res ELSE reply
    /\ UNCHANGED <<term, asks, replies, events>>

(* handle_notification: the events, and the terminal status the first time. *)
ReadNotification(l) ==
    /\ l.t = "note"
    /\ Emit(CASE l.m = "item" -> MapItem(l.type, l.done)
              [] l.m = "delta" -> {"Delta"}
              [] l.m = "quota" -> {"Quota"}
              [] l.m = "error" -> ErrorOrLimit(l.msg)
              [] l.m = "completed" ->
                    {"Usage"} \cup (IF l.status = "Failed" THEN ErrorOrLimit(l.msg) ELSE {}))
    /\ term' = IF l.m = "completed" /\ ~term.sent
               THEN [sent |-> TRUE, status |-> l.status] ELSE term
    /\ UNCHANGED <<pending, reply, asks, replies>>

(* handle_server_request: an approval waits for the user in a task of its    *)
(* own, a question or an elicitation is shown and answered at once, anything *)
(* else is refused with an error.                                            *)
ReadServerRequest(l) ==
    /\ l.t = "ask"
    /\ \/ /\ l.m \in ApprovalMethods \cup {"question"}
          /\ asks' = asks \cup {<<l.id, l.m>>}
          /\ UNCHANGED <<replies, events>>
       \/ /\ l.m \in {"input", "elicitation"}
          /\ Emit({"ToolUse"})
          /\ replies' = replies \cup {[id |-> l.id, m |-> l.m, d |-> "none", v |-> "empty"]}
          /\ UNCHANGED asks
       \/ /\ l.m = "unsupported"
          /\ replies' = replies \cup {[id |-> l.id, m |-> l.m, d |-> "none", v |-> "error"]}
          /\ UNCHANGED <<asks, events>>
    /\ UNCHANGED <<pending, reply, term>>

ReadLine ==
    /\ reader = "on" /\ outp # <<>>
    /\ LET l == Head(outp)
       IN  ReadResponse(l) \/ ReadNotification(l) \/ ReadServerRequest(l)
    /\ outp' = Tail(outp)
    /\ UNCHANGED <<spec, pc, wait, req, closed, reader, status, ctl, child, prov, inp, run>>

(* Mutant: a stream that ends is a turn that is over. *)
DisconnectedIsDone == [sent |-> TRUE, status |-> "Completed"]

(* A transport that closes without a verdict: not a success. *)
Disconnected == [sent |-> TRUE, status |-> "Failed"]

(* End of stdout: every waiting request fails, and a turn without a verdict  *)
(* is a failure; it is reported here unless a request reports it.            *)
ReadEof ==
    /\ reader = "on" /\ outp = <<>> /\ child = "dead"
    /\ reader' = "eof" /\ closed' = TRUE
    /\ pending' = {}
    /\ reply' = IF req \in pending THEN "err" ELSE reply
    /\ IF term.sent THEN UNCHANGED <<term, events>>
       ELSE /\ term' = Disconnected
            /\ Emit(IF pending = {} THEN {"Disconnected"} ELSE {})
    /\ UNCHANGED <<spec, pc, wait, req, status, ctl, child, prov, inp, outp,
                   asks, replies, run>>

(* An approval task gets the user's decision and writes the reply; without a *)
(* responder the decision is Deny.  After the end there is no one to write to. *)
AnswerAsk(a) ==
    /\ a \in asks /\ pc # "done"
    /\ \E d \in IF spec.approver THEN Decisions ELSE {"Deny"} :
          replies' = replies \cup {[id |-> a[1], m |-> a[2], d |-> d, v |-> ReplyTo(a[2], d)]}
    /\ asks' = asks \ {a}
    /\ prov' = [prov EXCEPT !.stdin = AppServer \/ run.input \/ asks' # {}]
    /\ UNCHANGED <<spec, pc, rpcVars, reader, term, status, ctl, child, inp,
                   outp, run, events>>

-----------------------------------------------------------------------------
(* The stream drivers: codex exec and claude *)

Monus(a, b) == IF a >= b THEN a - b ELSE 0

(* Mutant: every report of a message is counted. *)
CountMessageAgain(u, id, n) == [u EXCEPT !.msgs = @ + n, !.counted = @ + n]

(* record_message / seen_usage_message_ids: a repeated message counts once. *)
CountMessage(u, id, n) ==
    IF id \in u.seen THEN u
    ELSE [seen |-> IF id = "" THEN u.seen ELSE u.seen \cup {id},
          msgs |-> u.msgs + n, counted |-> u.counted + n]

(* result_delta: the result adds what the messages did not report. *)
CountResult(u, n) == [u EXCEPT !.counted = @ + Monus(n, u.msgs)]

(* parse_line of codex exec. *)
ExecEvents(l) == CASE l.m = "item" -> ParseItem(l.type, l.done)
                   [] l.m = "started" -> {"Started"}
                   [] l.m = "error" -> ErrorOrLimit(l.msg)
                   [] l.m = "completed" -> IF l.status = "Completed" THEN {"Usage"}
                                           ELSE ErrorOrLimit(l.msg)
                   [] OTHER -> {}

(* token_usage_event: nothing is reported of a usage that is zero. *)
TokenUsageEvent(n) == IF n > 0 THEN {"Usage"} ELSE {}

(* parse_line of claude. *)
ClaudeEvents(l) == CASE l.m = "started" -> {"Started"}
                     [] l.m = "assistant" ->
                          (IF l.id \notin run.use.seen THEN TokenUsageEvent(l.n) ELSE {})
                          \cup MapItem("agentMessage", TRUE)
                     [] l.m = "item" -> IF l.done THEN {"ToolResult"} ELSE {"ToolUse"}
                     [] l.m = "delta" -> {"Delta"}
                     [] l.m = "result" ->
                          TokenUsageEvent(Monus(l.n, run.use.msgs))
                          \cup (IF l.status = "Failed" THEN ErrorOrLimit(l.msg) ELSE {})
                     [] OTHER -> {}

StreamEvents(l) == IF ClaudeRun THEN ClaudeEvents(l) ELSE ExecEvents(l)

(* drive's loop, one line of stdout.  A line that is not JSON is kept as a   *)
(* diagnostic; a control request is answered in a task; events that cannot   *)
(* be delivered stop the run.                                                *)
StreamLine ==
    /\ pc = "stream" /\ outp # <<>>
    /\ LET l == Head(outp)
           lost == ctl.gone /\ l.t = "note" /\ StreamEvents(l) # {}
       IN  /\ IF l.t = "note" THEN Emit(StreamEvents(l)) ELSE UNCHANGED events
           /\ asks' = IF l.t = "ask" /\ run.input THEN asks \cup {<<l.id, l.m>>} ELSE asks
           /\ run' = [run EXCEPT
                !.saw = @ \/ l.t # "noise",
                !.cancelled = lost,
                !.last = IF l.t = "note" /\ l.m \in {"completed", "result"} THEN l.status ELSE @,
                !.input = @ /\ ~(l.t = "note" /\ l.m = "result"),
                !.use = CASE l.t = "note" /\ l.m = "assistant" -> CountMessage(@, l.id, l.n)
                          [] l.t = "note" /\ l.m = "result" -> CountResult(@, l.n)
                          [] OTHER -> @]
           /\ prov' = [prov EXCEPT !.stdin = @ /\ (run'.input \/ asks' # {})]
           /\ pc' = IF lost THEN "stop" ELSE pc
    /\ outp' = Tail(outp)
    /\ UNCHANGED <<spec, rpcVars, reader, term, status, ctl, child, inp, replies>>

(* End of stdout, with the input side closed. *)
StreamEof ==
    /\ pc = "stream" /\ outp = <<>> /\ child = "dead"
    /\ pc' = "reap"
    /\ run' = [run EXCEPT !.input = FALSE]
    /\ prov' = [prov EXCEPT !.stdin = FALSE]
    /\ UNCHANGED <<spec, rpcVars, reader, term, status, ctl, child, inp, outp,
                   asks, replies, events>>

(* A steered instruction is written while Claude's input is open. *)
StreamSteer ==
    /\ pc = "stream" /\ run.input /\ ctl.steers > 0
    /\ ctl' = [ctl EXCEPT !.steers = @ - 1]
    /\ prov' = [prov EXCEPT !.steered = @ + 1]
    /\ UNCHANGED <<spec, pc, rpcVars, reader, term, status, child, inp, outp,
                   asks, replies, run, events>>

(* A broken input pipe shows at the write after the one that broke it; the   *)
(* loop is left with whatever stdout still holds unread.                     *)
StreamSteerFails ==
    /\ pc = "stream" /\ run.input /\ ctl.steers > 0
    /\ child = "dead" /\ prov.steered + Cardinality(replies) > 0
    /\ ctl' = [ctl EXCEPT !.steers = @ - 1]
    /\ run' = [run EXCEPT !.input = FALSE]
    /\ pc' = "reap"
    /\ UNCHANGED <<spec, rpcVars, reader, term, status, child, prov, inp, outp,
                   asks, replies, events>>

(* Stop, or one of the three timers: the startup timer only before output. *)
StreamCut ==
    /\ pc = "stream"
    /\ \E timer \in {"none", "hard", "idle", "startup"} :
          /\ timer = "none" => ctl.cancel
          /\ timer = "startup" => ~run.saw
          /\ run' = [run EXCEPT !.cancelled = TRUE, !.timedOut = timer # "none",
                                !.input = FALSE]
    /\ prov' = [prov EXCEPT !.stdin = FALSE]
    /\ pc' = "stop"
    /\ UNCHANGED <<spec, rpcVars, reader, term, status, ctl, child, inp, outp,
                   asks, replies, events>>

StreamTerminate ==
    /\ pc = "stop"
    /\ Terminate /\ pc' = "stop grace"
    /\ UNCHANGED <<spec, rpcVars, reader, term, status, ctl, prov, inp, outp,
                   asks, replies, run, events>>

(* Mutant: a child that outlives the grace period is left alone. *)
StreamGraceNoKill ==
    /\ pc = "stop grace"
    /\ pc' = "reap"
    /\ UNCHANGED <<spec, rpcVars, reader, term, status, ctl, child, prov, inp, outp,
                   asks, replies, run, events>>

StreamGrace ==
    /\ pc = "stop grace"
    /\ \/ child = "dead" /\ UNCHANGED child
       \/ child # "dead" /\ Kill
    /\ pc' = "reap"
    /\ UNCHANGED <<spec, rpcVars, reader, term, status, ctl, prov, inp, outp,
                   asks, replies, run, events>>

(* final_status: a stop wins, Codex's own verdict comes next, then the exit. *)
FinalStatus == IF run.cancelled THEN "Interrupted"
               ELSE IF ~ClaudeRun /\ run.last # "none" THEN run.last
               ELSE IF prov.ok THEN "Completed" ELSE "Failed"

(* The process is reaped: the timeout's error, the diagnostics of a failure  *)
(* nothing else explained, and SessionEnded, in this order.                  *)
StreamEnd ==
    /\ pc = "reap" /\ child = "dead"
    /\ status' = FinalStatus
    /\ EmitEnded((IF run.timedOut THEN {"Error"} ELSE {})
                 \cup (IF ~run.cancelled /\ ~prov.ok /\ run.last = "none"
                       THEN ErrorOrLimit(prov.diag) ELSE {}))
    /\ pc' = "done"
    /\ UNCHANGED <<spec, rpcVars, reader, term, ctl, child, prov, inp, outp,
                   asks, replies, run>>

-----------------------------------------------------------------------------
(* The core's side of the session handle *)

Live == pc \notin {"launch", "refused", "done"}

Controls == ctl.steers + prov.steered + (IF ctl.cancel THEN 1 ELSE 0)
            + (IF ctl.gone THEN 1 ELSE 0)

Cancel ==
    /\ Live /\ ~ctl.cancel /\ Controls < MaxControls
    /\ ctl' = [ctl EXCEPT !.cancel = TRUE]
    /\ UNCHANGED <<spec, pc, rpcVars, reader, term, status, child, prov, inp,
                   outp, asks, replies, run, events>>

Steer ==
    /\ Live /\ Controls < MaxControls
    /\ ctl' = [ctl EXCEPT !.steers = @ + 1]
    /\ UNCHANGED <<spec, pc, rpcVars, reader, term, status, child, prov, inp,
                   outp, asks, replies, run, events>>

DropReceiver ==
    /\ Live /\ ~ctl.gone /\ Controls < MaxControls
    /\ ctl' = [ctl EXCEPT !.gone = TRUE]
    /\ UNCHANGED <<spec, pc, rpcVars, reader, term, status, child, prov, inp,
                   outp, asks, replies, run, events>>

-----------------------------------------------------------------------------
(* The provider process (external) *)

Alive == child \in {"up", "term"} /\ pc # "done"

(* It answers a request: with the field asked for, without it, or an error.  *)
(* A resumed thread may keep the sandbox it had; a turn sets its own.        *)
Answer(q, res) ==
    /\ Alive /\ q \in inp
    /\ inp' = inp \ {q}
    /\ outp' = Append(outp, [t |-> "resp", id |-> q[1], res |-> res])
    /\ IF res = "err" THEN UNCHANGED prov
       ELSE \E box \in CASE q[2] = "thread/start" -> {StartSandbox(spec.perm)}
                         [] q[2] = "thread/resume" -> {StartSandbox(spec.perm), "retained"}
                         [] q[2] = "turn/start" -> {TurnSandbox(spec.perm)}
                         [] OTHER -> {prov.sandbox} :
              prov' = [prov EXCEPT !.sandbox = box,
                                   !.turn = IF q[2] = "turn/start" THEN "open" ELSE @]
    /\ UNCHANGED <<spec, pc, rpcVars, reader, term, status, ctl, child, asks,
                   replies, run, events>>

Note(m) == [t |-> "note", m |-> m]
Item(type, done) == [t |-> "note", m |-> "item", type |-> type, done |-> done]
Failing(m) == [t |-> "note", m |-> "error", msg |-> m]
Verdict(s, m) == [t |-> "note", m |-> "completed", status |-> s, msg |-> m]

(* The lines a running turn may write. *)
TurnLines ==
    {Item(type, done) : type \in ItemTypes, done \in BOOLEAN}
    \cup {Failing(m) : m \in Texts \ {NoMessage}}
    \cup (IF AppServer THEN {Note(m) : m \in Notices} ELSE {Note("started"), [t |-> "noise"]})

(* An assistant line of Claude repeats its message's usage; no id counts too. *)
ClaudeLines ==
    {[t |-> "note", m |-> "assistant", id |-> id, n |-> 1] : id \in {"m1", "m2", ""}}
    \cup {Note("started"), Note("delta"), [t |-> "noise"]}

(* Tokens really spent: each message id once, every message without one. *)
SpentBy(l) == IF l.id = "" THEN 1
              ELSE IF \E i \in 1..Len(outp) : outp[i].t = "note" /\ outp[i].m = "assistant"
                                              /\ outp[i].id = l.id
                   THEN 0 ELSE IF l.id \in run.use.seen THEN 0 ELSE 1

Write(l) == /\ Alive /\ prov.lines < MaxLines
            /\ outp' = Append(outp, l)
            /\ UNCHANGED <<spec, pc, rpcVars, reader, term, status, ctl, child,
                           inp, asks, replies, run, events>>

Report ==
    /\ prov.turn = "open" /\ ~ClaudeRun
    /\ \E l \in TurnLines : Write(l)
    /\ prov' = [prov EXCEPT !.lines = @ + 1]

ReportClaude ==
    /\ prov.turn = "open" /\ ClaudeRun
    /\ \E l \in ClaudeLines :
          /\ Write(l)
          /\ prov' = [prov EXCEPT !.lines = @ + 1,
                        !.spent = @ + IF l.t = "note" /\ l.m = "assistant" THEN SpentBy(l) ELSE 0]

(* It asks its client something and keeps the turn waiting. *)
Ask(m) ==
    /\ prov.turn = "open"
    /\ m \in IF AppServer THEN Methods \ {"can_use_tool"}
             ELSE IF ClaudeRun THEN Methods \cap {"can_use_tool"} ELSE {}
    /\ Write([t |-> "ask", id |-> prov.lines, m |-> m])
    /\ prov' = [prov EXCEPT !.lines = @ + 1]

(* The turn ends: completed, failed with a message, or interrupted.  Claude's *)
(* result reports the whole run, extra tokens no message reported included.   *)
EndTurn ==
    /\ prov.turn = "open" /\ ~ClaudeRun
    /\ \E s \in Statuses, m \in Texts :
          /\ s # "Failed" => m = NoMessage
          /\ s = "Interrupted" => AppServer
          /\ Write(Verdict(s, m))
          /\ prov' = [prov EXCEPT !.lines = @ + 1, !.turn = "over", !.said = s]

EndClaude ==
    /\ prov.turn = "open" /\ ClaudeRun
    /\ \E s \in {"Completed", "Failed"}, m \in Texts, extra \in {0, 1} :
          /\ s # "Failed" => m = NoMessage
          /\ Write([t |-> "note", m |-> "result", status |-> s, msg |-> m,
                    n |-> prov.spent + extra])
          /\ prov' = [prov EXCEPT !.lines = @ + 1, !.turn = "over", !.said = s,
                                  !.spent = @ + extra, !.results = @ + 1]

(* The process exits: by itself, on SIGTERM, or killed.  What it left on     *)
(* stderr is what the diagnostics show; the app-server driver reads neither. *)
Exit ==
    /\ child \in {"up", "term", "kill"}
    /\ child' = "dead"
    /\ \E ok \in BOOLEAN, d \in Texts :
          /\ child # "up" \/ AppServer => ~ok
          /\ ok \/ AppServer => d = NoMessage
          /\ prov' = [prov EXCEPT !.ok = ok, !.diag = d]
    /\ inp' = {}
    /\ UNCHANGED <<spec, pc, rpcVars, reader, term, status, ctl, outp, asks,
                   replies, run, events>>

-----------------------------------------------------------------------------
Launch == LaunchAppServer \/ AppServerUnavailable \/ LaunchDocker \/ LaunchClaude
DriverTimer == StartupTimeout \/ TurnTimeout \/ FinalQuotaTimeout
DriverStep ==
    \/ \E m \in Startup : StartupRequest(m) \/ StartupAnswered(m)
    \/ StartupCancelled \/ TurnTerminal \/ TurnSteer \/ TurnCancelled
    \/ FinalQuotaRequest \/ FinalQuotaAnswered
    \/ TearDown \/ GraceOver \/ SendEnded \/ AbortTasks
StreamLoop == StreamLine \/ StreamEof \/ StreamSteer \/ StreamSteerFails \/ StreamCut
StreamFinish == StreamTerminate \/ StreamGrace \/ StreamEnd
StreamStep == StreamLoop \/ StreamFinish
ReaderStep == ReadLine \/ ReadEof
Provider ==
    \/ \E q \in inp, res \in {"ok", "bare", "err"} : Answer(q, res)
    \/ Report \/ ReportClaude \/ EndTurn \/ EndClaude
    \/ \E m \in Methods : Ask(m)

Next == \/ Launch \/ SpawnFails \/ DriverStep \/ DriverTimer \/ StreamStep
        \/ ReaderStep \/ (\E a \in asks : AnswerAsk(a))
        \/ Cancel \/ Steer \/ DropReceiver \/ Provider \/ Exit

Spec == Init /\ [][Next]_vars

(* Timers fire, tasks run, and a killed process dies.  Nothing is assumed of *)
(* the provider: it may never answer, never end its turn and never exit.     *)
Fairness ==
    /\ WF_vars(Launch) /\ WF_vars(DriverStep) /\ WF_vars(DriverTimer)
    /\ WF_vars(StreamStep) /\ WF_vars(child = "kill" /\ Exit)

LiveSpec == Spec /\ Fairness

-----------------------------------------------------------------------------
(* Properties *)

EventTags == {"Started", "Text", "Delta", "ToolUse", "ToolResult", "FileChanged",
              "Usage", "Quota", "FinalQuota", "Error", "Disconnected", "Limit", "LimitUntil",
              "Network"}
Sent(e) == e \in events.before \cup events.after

(* Driver, reader, process and channels are in the states the adapters give them. *)
TypeOK ==
    /\ pc \in {"launch", "refused", "turn", "final quota",
              "terminate", "grace", "ending", "abort", "stream", "stop", "stop grace",
              "reap", "done"} \cup Startup
    /\ req \in Nat /\ pending \subseteq 1..req /\ closed \in BOOLEAN
    /\ reply \in {"none", "ok", "bare", "err"}
    /\ reader \in {"off", "on", "eof", "aborted"}
    /\ term \in [sent : BOOLEAN, status : Statuses \cup {"none"}]
    /\ status \in Statuses \cup {"none"}
    /\ child \in {"none", "up", "term", "kill", "dead"}
    /\ events \in [before : SUBSET EventTags, ended : 0..2, after : SUBSET EventTags]
    /\ \A r \in replies : r.d \in Decisions \cup {"none"}

(* A request is never left waiting by a reader that is gone: the flag that   *)
(* refuses new requests and the draining of the table are one critical       *)
(* section, so startup and the last usage lookup fail at once, not by timer  *)
(* (codex_app_server.rs reader, Rpc::request).                               *)
NoWaiterLeft == reader = "eof" => pending = {}

(* A session is reported completed only if the provider said so or, for a    *)
(* plain stream without a verdict, its process exited cleanly.  A transport  *)
(* that breaks is never a success, and neither is a stop.                    *)
CompletedMeansDone ==
    status = "Completed" => prov.said = "Completed" \/ (~AppServer /\ prov.ok)

(* A Codex session that fails says why: an error, a limit or a network event *)
(* reaches the core before the end, unless the provider gave no text, so the *)
(* limit and network handling of the core can run.                           *)
FailureExplained ==
    (status = "Failed" /\ ~ClaudeRun /\ ~ctl.gone) =>
        \/ \E e \in {"Error", "Disconnected", "Limit", "LimitUntil", "Network"} : Sent(e)
        \/ prov.said = "Failed"
        \/ ~AppServer /\ ~prov.diag.words

(* What the provider is told is what the user decided, in the words of that  *)
(* request, once per request; what nobody decided grants nothing.            *)
DecisionKept ==
    \A r \in replies :
        /\ r.v \in Grants(r.m) <=> IsAllow(r.d)
        /\ \A s \in replies : s.id = r.id => s = r

(* Under a weekly budget no turn starts before a usage reading was reported, *)
(* and the session does not end without a final reading or an error.         *)
WeeklyRunMeasured ==
    (spec.budget = "weekly" /\ ~ctl.gone) =>
        /\ prov.turn # "none" => Sent("Quota")
        /\ events.ended > 0 => {"FinalQuota", "Error"} \cap events.before # {}

(* A read-only run stays read-only whatever carries it: a resumed thread, a  *)
(* new one after a failed resume, the exec fallback, a Docker sandbox.       *)
ReadOnlyStays ==
    (spec.perm = "ReadOnly" /\ prov.turn # "none") => prov.sandbox \in {"read-only", "plan"}

(* What a run's policy denies and Codex can be told is denied whichever      *)
(* transport carries the run, the exec fallback included.                    *)
PolicyCarried ==
    prov.turn # "none" => spec.deny \cap {"mcp tool", "server", "files"} \subseteq prov.denied

(* SessionEnded is sent once, only after the process is dead or was killed,  *)
(* and the stream drivers send nothing after it.                             *)
EndedAfterStop ==
    events.ended > 0 => /\ events.ended = 1
                        /\ child \in {"dead", "kill"}
                        /\ AppServer \/ events.after = {}

(* Claude's repeated message reports and its final summary add up to the     *)
(* tokens spent, each counted once.                                          *)
UsageCountedOnce ==
    ClaudeRun => /\ run.use.counted <= prov.spent
                 /\ run.last # "none" => run.use.counted = prov.spent

(* However the provider behaves, a launched session ends: Stop and the       *)
(* timers are armed in every phase and the process is killed in the end.     *)
SessionEnds == <>(pc \in {"done", "refused"})

(* What a session reports of its end is true: every waiter is answered, a    *)
(* completed run was completed, a failed one says why, and the end is told   *)
(* once, after the process.                                                  *)
OutcomeTold ==
    TypeOK /\ NoWaiterLeft /\ CompletedMeansDone /\ FailureExplained /\ EndedAfterStop

(* The provider may do what the user allowed and no more: decisions reach it *)
(* unchanged, a read-only run stays read-only, what its policy denies stays  *)
(* denied.                                                                   *)
PermissionKept == DecisionKept /\ ReadOnlyStays /\ PolicyCarried

(* Usage is measured once: weekly readings frame a run, Claude's reports add *)
(* up.                                                                       *)
UsageMeasured == WeeklyRunMeasured /\ UsageCountedOnce
=============================================================================
