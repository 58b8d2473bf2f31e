----------------------------- MODULE Workbench ------------------------------
(***************************************************************************)
(* The workbench controller of the extension                               *)
(* (src/src/node/workbenchController.ts).                                   *)
(*                                                                         *)
(* Messages of the webview are handled one at a time, but a handler awaits, *)
(* and meanwhile the refresh loop, the background detection, the checks of  *)
(* a sign-in, the refresh of accounts after an event, the loading of a diff *)
(* and the delivery of a message run on.  They share the caches, the        *)
(* settings last pushed to the daemon and the daemon itself.  A request is  *)
(* a step that reads or changes the daemon's state and a later step in      *)
(* which the answer is used.  Versions stand for what the daemon answers.   *)
(***************************************************************************)
EXTENDS Integers, FiniteSets

CONSTANTS
    Messages,   \* kinds of messages the webview sends
    Events,     \* kinds of events of VS Code, of git, of the daemon and of providers
    MaxEvents   \* bound: messages, events and failed requests

ASSUME EventsAssumption ==
    /\ Messages \subseteq {"forward", "refresh", "policy", "activate", "delete", "signin", "diff", "submit"}
    /\ Events \subseteq {"config", "folders", "limit", "signed", "files"}
    /\ MaxEvents \in Nat

None == -1

(* snapshot and submit both push the settings and connect the folders first;
   three users read the accounts.                                            *)
Callers == {"rf", "msg"}
Readers == {"msg", "event", "watch"}

VARIABLES
    real,    \* the daemon: rows, acct, models, files (versions), pol, signed, exists, repos (rows of the folder)
    config, applied, synced, \* VS Code's settings, what the user last chose, lastSyncedSettings
    pre,     \* caller -> its step in syncSettings and ensureWorkspaceRepos
    run,     \* caller -> the auto-connect it started
    ready,   \* workspaceReposReady: "none", the caller whose run it is, "done"
    rf,      \* the refresh loop: step, refreshQueued, the rows it read
    shown,   \* lastSnapshot: version of its rows, loadState error
    msg,     \* the message being handled: kind, step, version it made
    cache,   \* detectionCache: acct, models, at, err
    det,     \* detectInflight: what it read, and whether its revisions are current
    acc,     \* reader -> refreshProviderAccounts in flight
    queued,  \* accountEventRefreshQueued
    note,    \* agent_thread_updated on its way: version of the rows it is about, or None
    auth,    \* the sign-in: pending, armed timers, past ten minutes
    diff,    \* the diff of the open thread: gitDiffTimer, task, pending, version read
    turn,    \* the submitted text: "none", "asked", "sending", "sent", "told" (submitFailed)
    hist,    \* history: see the properties
    events

daemon == <<real>>
settings == <<config, applied, synced>>
preamble == <<pre, run, ready>>
loop == <<rf, shown>>
detection == <<cache, det>>
accounts == <<acc, queued, note>>
rest == <<auth, diff, turn>>
vars == <<real, config, applied, synced, pre, run, ready, rf, shown, msg, cache, det, acc, queued, note,
          auth, diff, turn, hist, events>>

NoPre == [pc |-> "idle", set |-> None, on |-> "none"]
NoDet == [on |-> FALSE, models |-> None, acct |-> None, aCur |-> FALSE, dCur |-> FALSE,
          shown |-> FALSE, err |-> FALSE]
NoAcc == [pc |-> "idle", val |-> None, cur |-> FALSE, start |-> None, signed |-> FALSE, exists |-> FALSE]
NoMsg == [kind |-> "none", pc |-> "none", made |-> 0]
Idle == [pc |-> "idle", more |-> FALSE, rows |-> 0]

(* The webview has opened and said that it is ready, which waits for the first
   refresh.                                                                  *)
Init ==
    /\ real = [rows |-> 0, acct |-> 0, models |-> 0, files |-> 0, pol |-> 0, signed |-> FALSE, exists |-> TRUE,
               repos |-> 0]
    /\ config = 0 /\ applied = 0 /\ synced = None
    /\ pre = [s \in Callers |-> IF s = "rf" THEN [NoPre EXCEPT !.pc = "sync"] ELSE NoPre]
    /\ run = [s \in Callers |-> "none"]
    /\ ready = "none"
    /\ rf = [Idle EXCEPT !.pc = "pre"]
    /\ shown = [rows |-> None, err |-> FALSE]
    /\ msg = [NoMsg EXCEPT !.kind = "ready", !.pc = "wait"]
    /\ cache = [acct |-> None, models |-> None, at |-> "absent", err |-> FALSE]
    /\ det = NoDet
    /\ acc = [a \in Readers |-> NoAcc]
    /\ queued = FALSE /\ note = None
    /\ auth = [pending |-> FALSE, timers |-> 0, late |-> FALSE]
    /\ diff = [git |-> FALSE, pc |-> "idle", pending |-> FALSE, read |-> 0]
    /\ turn = "none"
    /\ hist = [floor |-> None, since |-> 0, wanted |-> 0, overlap |-> FALSE]
    /\ events = 0

Count == events < MaxEvents /\ events' = events + 1

-----------------------------------------------------------------------------
(* What a call does to the shared state *)

(* Mutant: a call during a refresh joins it and asks for no other. *)
RefreshJoined ==
    IF rf.pc = "idle"
    THEN rf' = [Idle EXCEPT !.pc = "pre"] /\ pre' = [pre EXCEPT !["rf"].pc = "sync"]
    ELSE UNCHANGED <<rf, pre>>

(* refresh: the loop starts, or goes round once more. *)
Refresh ==
    IF rf.pc = "idle"
    THEN rf' = [Idle EXCEPT !.pc = "pre"] /\ pre' = [pre EXCEPT !["rf"].pc = "sync"]
    ELSE rf' = [rf EXCEPT !.more = TRUE] /\ pre' = pre

(* invalidateDetection *)
Stale(c) == IF c.at = "absent" THEN c ELSE [c EXCEPT !.at = "zero"]
Outdated(d) == [d EXCEPT !.dCur = FALSE]
Since(h) == [h EXCEPT !.since = real.models]

(* detect: a stale cache starts a probe in the background unless one runs. *)
NewDet == [NoDet EXCEPT !.on = TRUE, !.aCur = TRUE, !.dCur = TRUE]
Detected(c, d) == IF c.at # "fresh" /\ ~d.on THEN NewDet ELSE d

(* The end of the awaited loop or of the diff lets a waiting handler go on; the
   one of a sign-in has its watch to start.                                  *)
Woken == IF msg.kind = "signin" THEN [msg EXCEPT !.pc = "arm"] ELSE NoMsg

-----------------------------------------------------------------------------
(* syncSettings *)

(* Nothing to push and nothing to connect is one step. *)
SyncBegin(s) ==
    /\ pre[s].pc = "sync"
    /\ pre' = [pre EXCEPT ![s] = IF config # synced THEN [NoPre EXCEPT !.pc = "push", !.set = config]
                                 ELSE IF ready = "done" THEN [NoPre EXCEPT !.pc = "done"]
                                 ELSE [NoPre EXCEPT !.pc = "repos"]]
    /\ UNCHANGED <<daemon, settings, run, ready, loop, msg, detection, accounts, rest, hist, events>>

SyncPush(s) ==
    /\ pre[s].pc = "push"
    /\ real' = [real EXCEPT !.pol = pre[s].set]
    /\ synced' = pre[s].set
    /\ pre' = [pre EXCEPT ![s] = [NoPre EXCEPT !.pc = "repos"]]
    /\ UNCHANGED <<config, applied, run, ready, loop, msg, detection, accounts, rest, hist, events>>

(* The policy sheet's values are written to the settings, whose change handler
   forgets what was pushed, drops the detection and refreshes.               *)
ConfigBecomes(v) ==
    /\ config' = v
    /\ synced' = None
    /\ cache' = Stale(cache)
    /\ hist' = Since(hist)
    /\ Refresh

-----------------------------------------------------------------------------
(* ensureWorkspaceRepos and autoConnectWorkspaceRepos, for one folder *)

(* Mutant: each caller connects the folders for itself. *)
EnsureOwn(s) ==
    /\ pre[s].pc = "repos"
    /\ ready' = s
    /\ run' = [run EXCEPT ![s] = "list"]
    /\ pre' = [pre EXCEPT ![s].pc = "wait", ![s].on = s]
    /\ UNCHANGED <<daemon, settings, loop, msg, detection, accounts, rest, hist, events>>

Ensure(s) ==
    /\ pre[s].pc = "repos"
    /\ CASE ready = "done" -> pre' = [pre EXCEPT ![s].pc = "done"] /\ UNCHANGED <<run, ready>>
         [] ready = "none" -> /\ ready' = s
                              /\ run' = [run EXCEPT ![s] = "list"]
                              /\ pre' = [pre EXCEPT ![s].pc = "wait", ![s].on = s]
         [] ready \in Callers -> pre' = [pre EXCEPT ![s].pc = "wait", ![s].on = ready] /\ UNCHANGED <<run, ready>>
    /\ UNCHANGED <<daemon, settings, loop, msg, detection, accounts, rest, hist, events>>

(* The run of s has been through the folders: those who wait for it go on. *)
RunEnds(s) ==
    /\ run' = [run EXCEPT ![s] = "none"]
    /\ ready' = IF ready = s THEN "done" ELSE ready
    /\ pre' = [c \in Callers |-> IF pre[c].pc = "wait" /\ pre[c].on = s THEN [NoPre EXCEPT !.pc = "done"] ELSE pre[c]]

(* The repositories are listed; a folder that is there is skipped. *)
ConnectList(s) ==
    /\ run[s] = "list"
    /\ IF real.repos > 0 THEN RunEnds(s) ELSE run' = [run EXCEPT ![s] = "check"] /\ UNCHANGED <<ready, pre>>
    /\ UNCHANGED <<daemon, settings, loop, msg, detection, accounts, rest, hist, events>>

(* connect_local_repo in the daemon looks for the folder, then inserts it. *)
ConnectCheck(s) ==
    /\ run[s] = "check"
    /\ IF real.repos > 0 THEN RunEnds(s) ELSE run' = [run EXCEPT ![s] = "insert"] /\ UNCHANGED <<ready, pre>>
    /\ UNCHANGED <<daemon, settings, loop, msg, detection, accounts, rest, hist, events>>

ConnectInsert(s) ==
    /\ run[s] = "insert"
    /\ real' = [real EXCEPT !.repos = @ + 1, !.rows = @ + 1]
    /\ RunEnds(s)
    /\ UNCHANGED <<settings, loop, msg, detection, accounts, rest, hist, events>>

(* A folder that cannot be connected is left out until the folders change. *)
ConnectFails(s) ==
    /\ run[s] = "check" /\ Count
    /\ RunEnds(s)
    /\ UNCHANGED <<daemon, settings, loop, msg, detection, accounts, rest, hist>>

-----------------------------------------------------------------------------
(* The refresh loop *)

(* Threads, repositories and details are read and detect is called. *)
SnapshotRead ==
    /\ rf.pc = "pre" /\ pre["rf"].pc = "done"
    /\ pre' = [pre EXCEPT !["rf"] = NoPre]
    /\ rf' = [rf EXCEPT !.pc = "show", !.rows = real.rows]
    /\ cache' = IF cache.at = "absent" THEN [cache EXCEPT !.at = "zero"] ELSE cache
    /\ det' = Detected(cache, det)
    /\ UNCHANGED <<daemon, settings, run, ready, shown, msg, accounts, rest, hist, events>>

(* The end of a round: once more, or whoever awaits the loop goes on. *)
RoundEnds ==
    IF rf.more
    THEN /\ rf' = [Idle EXCEPT !.pc = "pre"]
         /\ pre' = [pre EXCEPT !["rf"] = [NoPre EXCEPT !.pc = "sync"]]
         /\ UNCHANGED <<msg, diff>>
    ELSE /\ rf' = Idle
         /\ pre' = [pre EXCEPT !["rf"] = NoPre]
         /\ msg' = IF msg.pc = "wait" THEN Woken ELSE msg
         /\ diff' = CASE diff.pc = "wait" -> [diff EXCEPT !.pc = "ask"]
                      [] diff.pc = "show" -> [diff EXCEPT !.pc = "shown"]
                      [] OTHER -> diff

SnapshotShown ==
    /\ rf.pc = "show"
    /\ shown' = [rows |-> rf.rows, err |-> FALSE]
    /\ RoundEnds
    /\ UNCHANGED <<daemon, settings, run, ready, detection, accounts, auth, turn, hist, events>>

(* A request of the snapshot fails: the last snapshot stays and carries the error. *)
SnapshotFails ==
    /\ rf.pc = "pre" /\ pre["rf"].pc \in {"push", "done"} /\ Count
    /\ shown' = [shown EXCEPT !.err = TRUE]
    /\ RoundEnds
    /\ UNCHANGED <<daemon, settings, run, ready, detection, accounts, auth, turn, hist>>

(* readinessTimer, every 30 seconds while the window has the focus *)
Readiness ==
    /\ rf.pc = "idle"
    /\ Refresh
    /\ UNCHANGED <<daemon, settings, run, ready, shown, msg, detection, accounts, rest, hist, events>>

-----------------------------------------------------------------------------
(* runDetection *)

TtlPasses ==
    /\ cache.at = "fresh"
    /\ cache' = [cache EXCEPT !.at = "old"]
    /\ UNCHANGED <<daemon, settings, preamble, loop, msg, det, accounts, rest, hist, events>>

(* The requests are sent together; the daemon answers from what it has. *)
Probe ==
    /\ det.on /\ det.acct = None
    /\ det' = [det EXCEPT !.models = real.models, !.acct = real.acct]
    /\ UNCHANGED <<daemon, settings, preamble, loop, msg, cache, accounts, rest, hist, events>>

(* A probe of the models fails: the values on screen are kept. *)
ProbeFails ==
    /\ det.on /\ det.acct = None /\ Count
    /\ det' = [det EXCEPT !.models = cache.models, !.acct = real.acct, !.err = TRUE]
    /\ UNCHANGED <<daemon, settings, preamble, loop, msg, cache, accounts, rest, hist>>

(* publish: the accounts are shown as soon as they are there, unless a refresh of
   accounts has begun since or the whole probe is outdated.                  *)
PublishAccounts ==
    /\ det.on /\ det.acct # None /\ ~det.shown
    /\ det' = [det EXCEPT !.shown = TRUE]
    /\ cache' = IF det.aCur /\ det.dCur THEN [cache EXCEPT !.acct = det.acct] ELSE cache
    /\ UNCHANGED <<daemon, settings, preamble, loop, msg, accounts, rest, hist, events>>

(* Mutant: the accounts a probe read go over those a later refresh has read. *)
ProbedAll == [acct |-> det.acct, models |-> det.models, at |-> "fresh", err |-> det.err]

Probed ==
    [acct |-> IF det.aCur THEN det.acct ELSE cache.acct, models |-> det.models, at |-> "fresh", err |-> det.err]

(* Mutant: an outdated probe counts as a fresh one. *)
EndedFresh == Probed

(* The cache after a probe: all of it, or nothing and the cache stays stale. *)
Ended == IF det.dCur THEN Probed ELSE [cache EXCEPT !.at = "zero"]

(* Mutant: a probe that failed stays in flight. *)
DetectionEndsOnce ==
    /\ det.on /\ det.shown
    /\ cache' = Ended
    /\ det' = IF det.err THEN det ELSE IF Ended.at = "zero" THEN NewDet ELSE NoDet
    /\ UNCHANGED <<daemon, settings, preamble, loop, msg, accounts, rest, hist, events>>

(* The end of runDetection and finishDetection, which probes again. *)
DetectionEnds ==
    /\ det.on /\ det.shown
    /\ cache' = Ended
    /\ det' = IF Ended.at = "zero" THEN NewDet ELSE NoDet
    /\ UNCHANGED <<daemon, settings, preamble, loop, msg, accounts, rest, hist, events>>

-----------------------------------------------------------------------------
(* refreshProviderAccounts *)

(* ++accountRevision outdates what is in flight. *)
Began(ac, a) ==
    [b \in Readers |-> IF b = a THEN [NoAcc EXCEPT !.pc = "ask", !.cur = TRUE, !.start = real.acct]
                       ELSE [ac[b] EXCEPT !.cur = FALSE]]
Superseded(d) == [d EXCEPT !.aCur = FALSE]

AccountsRead(a) ==
    /\ acc[a].pc = "ask"
    /\ acc' = [acc EXCEPT ![a].pc = "got", ![a].val = real.acct, ![a].signed = real.signed,
                          ![a].exists = real.exists]
    /\ UNCHANGED <<daemon, settings, preamble, loop, msg, detection, queued, note, rest, hist, events>>

(* What the answer does to the caches. *)
Used(a) == acc[a].cur /\ cache.at # "absent"
WithAccounts(a) == IF Used(a) THEN [cache EXCEPT !.acct = acc[a].val] ELSE cache
Reprobed == IF cache.at = "zero" THEN Detected(cache, det) ELSE det
Floor(a) == IF Used(a) THEN [hist EXCEPT !.floor = acc[a].start] ELSE hist

(* refreshAccountsAfterTransition: round again if it was asked meanwhile. *)
EventGoesOn(d) ==
    IF queued
    THEN acc' = Began(acc, "event") /\ queued' = FALSE /\ det' = Superseded(d)
    ELSE acc' = [acc EXCEPT !["event"] = NoAcc] /\ queued' = queued /\ det' = d

EventRefreshed ==
    /\ acc["event"].pc = "got"
    /\ cache' = WithAccounts("event") /\ hist' = Floor("event")
    /\ EventGoesOn(Reprobed)
    /\ UNCHANGED <<daemon, settings, preamble, loop, msg, note, rest, events>>

EventFails ==
    /\ acc["event"].pc = "ask" /\ Count
    /\ EventGoesOn(det)
    /\ UNCHANGED <<daemon, settings, preamble, loop, msg, cache, note, rest, hist>>

(* The handler of a message ends with it. *)
MessageRefreshed ==
    /\ acc["msg"].pc = "got"
    /\ cache' = WithAccounts("msg") /\ hist' = Floor("msg") /\ det' = Reprobed
    /\ acc' = [acc EXCEPT !["msg"] = NoAcc]
    /\ msg' = NoMsg
    /\ UNCHANGED <<daemon, settings, preamble, loop, queued, note, rest, events>>

-----------------------------------------------------------------------------
(* watchProviderAuthentication *)

(* stopAuthenticationWatch clears the timer that was set last. *)
Unarmed(n) == IF n = 0 THEN 0 ELSE n - 1
Stopped(u) == [u EXCEPT !.pending = FALSE, !.timers = Unarmed(@)]

(* A timer fires; the check reads the accounts if the sign-in is still pending. *)
WatchFires ==
    /\ auth.timers > 0 /\ acc["watch"].pc = "idle"
    /\ auth' = [auth EXCEPT !.timers = @ - 1]
    /\ IF auth.pending
       THEN acc' = Began(acc, "watch") /\ det' = Superseded(det)
       ELSE UNCHANGED <<acc, det>>
    /\ UNCHANGED <<daemon, settings, preamble, loop, msg, cache, queued, note, diff, turn, hist, events>>

(* Mutant: a check that failed is not repeated. *)
NextCheckNone ==
    IF auth.late THEN auth' = Stopped(auth) /\ Refresh
    ELSE auth' = auth /\ UNCHANGED <<rf, pre>>

(* Out of time, or the next check is armed. *)
NextCheck ==
    IF auth.late THEN auth' = Stopped(auth) /\ Refresh
    ELSE auth' = [auth EXCEPT !.timers = @ + 1] /\ UNCHANGED <<rf, pre>>

(* The rest of a check: the account is gone, or signed in, or is looked at again. *)
WatchChecks ==
    LET w == acc["watch"] IN
    /\ w.pc = "got"
    /\ acc' = [acc EXCEPT !["watch"] = NoAcc]
    /\ CASE ~w.exists -> /\ auth' = Stopped(auth)
                         /\ cache' = WithAccounts("watch") /\ hist' = Floor("watch") /\ det' = Reprobed
                         /\ UNCHANGED <<rf, pre>>
         [] w.exists /\ w.signed -> /\ auth' = Stopped(auth)
                                    /\ cache' = Stale(WithAccounts("watch")) /\ hist' = Since(Floor("watch"))
                                    /\ det' = Outdated(Reprobed)
                                    /\ Refresh
         [] w.exists /\ ~w.signed -> /\ cache' = WithAccounts("watch") /\ hist' = Floor("watch") /\ det' = Reprobed
                                     /\ NextCheck
    /\ UNCHANGED <<daemon, settings, run, ready, shown, msg, queued, note, diff, turn, events>>

WatchFails ==
    /\ acc["watch"].pc = "ask" /\ Count
    /\ acc' = [acc EXCEPT !["watch"] = NoAcc]
    /\ NextCheck
    /\ UNCHANGED <<daemon, settings, run, ready, shown, msg, detection, queued, note, diff, turn, hist>>

TenMinutes ==
    /\ auth.pending /\ ~auth.late
    /\ auth' = [auth EXCEPT !.late = TRUE]
    /\ UNCHANGED <<daemon, settings, preamble, loop, msg, detection, accounts, diff, turn, hist, events>>

-----------------------------------------------------------------------------
(* loadDiff, readDiff *)

(* Mutant: a request during a load is not remembered. *)
LoadOnce ==
    /\ hist' = [hist EXCEPT !.wanted = real.files]
    /\ IF diff.pc = "idle"
       THEN diff' = [diff EXCEPT !.pc = "wait", !.git = FALSE] /\ Refresh
       ELSE diff' = [diff EXCEPT !.git = FALSE] /\ UNCHANGED <<rf, pre>>

(* A load begins by a refresh that shows it loading, or the one that runs reads
   once more.                                                                *)
Load ==
    /\ hist' = [hist EXCEPT !.wanted = real.files]
    /\ IF diff.pc = "idle"
       THEN diff' = [diff EXCEPT !.pc = "wait", !.git = FALSE] /\ Refresh
       ELSE diff' = [diff EXCEPT !.pending = TRUE, !.git = FALSE] /\ UNCHANGED <<rf, pre>>

GitTimer ==
    /\ diff.git
    /\ Load
    /\ UNCHANGED <<daemon, settings, run, ready, shown, msg, detection, accounts, auth, turn, events>>

(* The diff, or its error, is kept and shown by a refresh. *)
DiffRead ==
    /\ diff.pc = "ask"
    /\ diff' = [diff EXCEPT !.pc = "show", !.read = real.files]
    /\ Refresh
    /\ UNCHANGED <<daemon, settings, run, ready, shown, msg, detection, accounts, auth, turn, hist, events>>

(* Again if it was asked for meanwhile; otherwise the task ends. *)
DiffShown ==
    /\ diff.pc = "shown"
    /\ IF diff.pending
       THEN /\ diff' = [diff EXCEPT !.pc = "wait", !.pending = FALSE]
            /\ Refresh
            /\ msg' = msg
       ELSE /\ diff' = [diff EXCEPT !.pc = "idle"]
            /\ msg' = IF msg.pc = "diff" THEN NoMsg ELSE msg
            /\ UNCHANGED <<rf, pre>>
    /\ UNCHANGED <<daemon, settings, run, ready, shown, detection, accounts, auth, turn, hist, events>>

-----------------------------------------------------------------------------
(* handleMessage: one message at a time *)

Received(k, pc) == msg' = [NoMsg EXCEPT !.kind = k, !.pc = pc]
Free(k) == k \in Messages /\ msg.pc = "none" /\ Count

(* Cases whose first step is a request to the daemon. *)
Receive(k) ==
    /\ Free(k) /\ k \in {"forward", "policy", "activate", "delete", "signin"}
    /\ k = "signin" => ~auth.pending
    /\ auth' = IF k = "delete" THEN Stopped(auth) ELSE auth
    /\ Received(k, "call")
    /\ UNCHANGED <<daemon, settings, preamble, loop, detection, accounts, diff, turn, hist>>

ReceiveRefresh ==
    /\ Free("refresh")
    /\ cache' = Stale(cache) /\ det' = Outdated(det) /\ hist' = Since(hist)
    /\ ready' = "none"
    /\ Refresh
    /\ Received("refresh", "wait")
    /\ UNCHANGED <<daemon, settings, run, shown, accounts, rest>>

ReceiveDiff ==
    /\ Free("diff")
    /\ Load
    /\ Received("diff", "diff")
    /\ UNCHANGED <<daemon, settings, run, ready, shown, detection, accounts, auth, turn>>

(* A submit pushes the settings and connects the folders as a snapshot does. *)
ReceiveSubmit ==
    /\ Free("submit") /\ turn # "sending"
    /\ turn' = "asked"
    /\ pre' = [pre EXCEPT !["msg"] = [NoPre EXCEPT !.pc = "sync"]]
    /\ Received("submit", "submit")
    /\ UNCHANGED <<daemon, settings, run, ready, loop, detection, accounts, auth, diff, hist>>

(* The thread is created or updated and the text is handed to a task of its own;
   the handler does not wait for it.                                         *)
Submitted ==
    /\ msg.pc = "submit" /\ pre["msg"].pc = "done"
    /\ real' = [real EXCEPT !.rows = @ + 1]
    /\ turn' = "sending"
    /\ msg' = [msg EXCEPT !.pc = "refresh"]
    /\ pre' = [pre EXCEPT !["msg"] = NoPre]
    /\ UNCHANGED <<settings, run, ready, loop, detection, accounts, auth, diff, hist, events>>

(* Mutant: the error is shown and the text is gone. *)
SubmitFailsQuietly ==
    /\ msg.pc = "submit" /\ pre["msg"].pc \in {"push", "done"} /\ Count
    /\ msg' = [msg EXCEPT !.pc = "refresh"]
    /\ pre' = [pre EXCEPT !["msg"] = NoPre]
    /\ UNCHANGED <<daemon, settings, run, ready, loop, detection, accounts, rest, hist>>

(* A request of submit fails: the webview gets its text back. *)
SubmitFails ==
    /\ msg.pc = "submit" /\ pre["msg"].pc \in {"push", "done"} /\ Count
    /\ turn' = "told"
    /\ msg' = [msg EXCEPT !.pc = "refresh"]
    /\ pre' = [pre EXCEPT !["msg"] = NoPre]
    /\ UNCHANGED <<daemon, settings, run, ready, loop, detection, accounts, auth, diff, hist>>

(* The task of a submitted text: sendThreadMessage or runAgentThread. *)
TurnSent ==
    /\ turn = "sending"
    /\ real' = [real EXCEPT !.rows = @ + 1]
    /\ turn' = "sent"
    /\ Refresh
    /\ UNCHANGED <<settings, run, ready, shown, msg, detection, accounts, auth, diff, hist, events>>

TurnFails ==
    /\ turn = "sending" /\ Count
    /\ turn' = "told"
    /\ Refresh
    /\ UNCHANGED <<daemon, settings, run, ready, shown, msg, detection, accounts, auth, diff, hist>>

(* The daemon does what a message asks for. *)
Done(k) ==
    CASE k = "forward" -> [real EXCEPT !.rows = @ + 1]
      [] k = "policy" -> [real EXCEPT !.pol = 1 - config]
      [] k = "activate" -> [real EXCEPT !.acct = @ + 1, !.models = @ + 1]
      [] k = "delete" -> [real EXCEPT !.acct = @ + 1, !.exists = FALSE]
      [] OTHER -> real

DaemonDoes ==
    /\ msg.pc = "call"
    /\ msg.kind \in {"signin", "activate"} => real.exists
    /\ real' = Done(msg.kind)
    /\ applied' = IF msg.kind = "policy" THEN 1 - config ELSE applied
    /\ msg' = [msg EXCEPT !.pc = "reply", !.made = real'.rows]
    /\ UNCHANGED <<config, synced, preamble, loop, detection, accounts, rest, hist, events>>

(* The daemon refuses, or the request fails: the error is shown and the handler
   ends with a refresh.                                                      *)
CallFails ==
    /\ msg.pc = "call"
    /\ \/ msg.kind \in {"signin", "activate"} /\ ~real.exists /\ events' = events
       \/ Count
    /\ msg' = [msg EXCEPT !.kind = "failed", !.pc = "refresh"]
    /\ UNCHANGED <<daemon, settings, preamble, loop, detection, accounts, rest, hist>>

(* A message whose request was all it wanted ends with a refresh, *)
ForwardEnds ==
    /\ msg.pc = "reply" /\ msg.kind = "forward"
    /\ msg' = [msg EXCEPT !.pc = "wait"]
    /\ Refresh
    /\ UNCHANGED <<daemon, settings, run, ready, shown, detection, accounts, rest, hist, events>>

(* and so do a submit and every error. *)
RefreshesLast ==
    /\ msg.pc = "refresh"
    /\ msg' = [msg EXCEPT !.pc = "wait"]
    /\ Refresh
    /\ UNCHANGED <<daemon, settings, run, ready, shown, detection, accounts, rest, hist, events>>

(* Mutant: the settings keep what they had. *)
MirrorNone ==
    /\ msg.pc = "reply" /\ msg.kind = "policy"
    /\ msg' = [msg EXCEPT !.pc = "read"]
    /\ UNCHANGED <<daemon, settings, preamble, loop, detection, accounts, rest, hist, events>>

(* mirrorLimitPolicyToConfig and its three siblings *)
Mirror ==
    /\ msg.pc = "reply" /\ msg.kind = "policy"
    /\ ConfigBecomes(applied)
    /\ det' = Outdated(det)
    /\ msg' = [msg EXCEPT !.pc = "read"]
    /\ UNCHANGED <<daemon, applied, run, ready, shown, accounts, rest, events>>

(* The cases that change accounts, and the policy, end by reading the accounts. *)
ReadsLast ==
    /\ \/ msg.pc = "read"
       \/ msg.pc = "reply" /\ msg.kind \in {"activate", "delete"}
    /\ cache' = IF msg.kind = "activate" THEN Stale(cache) ELSE cache
    /\ hist' = IF msg.kind = "activate" THEN Since(hist) ELSE hist
    /\ det' = Superseded(IF msg.kind = "activate" THEN Outdated(det) ELSE det)
    /\ acc' = Began(acc, "msg")
    /\ msg' = [msg EXCEPT !.pc = "accounts"]
    /\ UNCHANGED <<daemon, settings, preamble, loop, queued, note, rest, events>>

(* startProviderAccountSignIn: the terminal is open, the wait is shown, then the
   checks begin.                                                             *)
SignInShown ==
    /\ msg.pc = "reply" /\ msg.kind = "signin"
    /\ auth' = [auth EXCEPT !.pending = TRUE]
    /\ msg' = [msg EXCEPT !.pc = "wait"]
    /\ Refresh
    /\ UNCHANGED <<daemon, settings, run, ready, shown, detection, accounts, diff, turn, hist, events>>

SignInWatched ==
    /\ msg.pc = "arm"
    /\ auth' = [pending |-> TRUE, timers |-> Unarmed(auth.timers) + 1, late |-> FALSE]
    /\ msg' = NoMsg
    /\ UNCHANGED <<daemon, settings, preamble, loop, detection, accounts, diff, turn, hist, events>>

MessageAccountsFail ==
    /\ acc["msg"].pc = "ask" /\ Count
    /\ acc' = [acc EXCEPT !["msg"] = NoAcc]
    /\ msg' = [msg EXCEPT !.kind = "failed", !.pc = "refresh"]
    /\ UNCHANGED <<daemon, settings, preamble, loop, detection, queued, note, rest, hist>>

-----------------------------------------------------------------------------
(* Events *)

(* The user edits the settings.  A policy being applied from the sheet goes over
   it: the choice of the sheet counts as the later one.                      *)
ConfigEdited ==
    /\ "config" \in Events /\ Count
    /\ ConfigBecomes(1 - config)
    /\ applied' = IF msg.kind = "policy" /\ msg.pc = "reply" THEN applied ELSE config'
    /\ det' = Outdated(det)
    /\ UNCHANGED <<daemon, run, ready, shown, msg, accounts, rest>>

FoldersChange ==
    /\ "folders" \in Events /\ Count
    /\ ready' = "none"
    /\ hist' = [hist EXCEPT !.overlap = @ \/ \E s \in Callers : run[s] # "none"]
    /\ Refresh
    /\ UNCHANGED <<daemon, settings, run, shown, msg, detection, accounts, rest>>

(* A thread runs into a limit: its row and its account change, and an event tells
   (one on its way at a time).                                               *)
LimitReached ==
    /\ "limit" \in Events /\ note = None /\ Count
    /\ real' = [real EXCEPT !.acct = @ + 1, !.rows = @ + 1]
    /\ note' = real'.rows
    /\ UNCHANGED <<settings, preamble, loop, msg, detection, acc, queued, rest, hist>>

(* onDaemonEvent: the accounts are read again unless the last snapshot has the
   thread as the event has it; then a refresh.                               *)
DaemonEvent ==
    /\ note # None
    /\ note' = None
    /\ IF shown.rows >= note THEN UNCHANGED <<acc, queued, det>>
       ELSE IF acc["event"].pc # "idle" THEN queued' = TRUE /\ UNCHANGED <<acc, det>>
       ELSE acc' = Began(acc, "event") /\ queued' = queued /\ det' = Superseded(det)
    /\ Refresh
    /\ UNCHANGED <<daemon, settings, run, ready, shown, msg, cache, rest, hist, events>>

UserSignsIn ==
    /\ "signed" \in Events /\ ~real.signed /\ real.exists /\ Count
    /\ real' = [real EXCEPT !.signed = TRUE, !.acct = @ + 1]
    /\ UNCHANGED <<settings, preamble, loop, msg, detection, accounts, rest, hist>>

(* Git reports a change of the reviewed checkout, which sets the timer. *)
FilesChange ==
    /\ "files" \in Events /\ Count
    /\ real' = [real EXCEPT !.files = @ + 1]
    /\ diff' = [diff EXCEPT !.git = TRUE]
    /\ UNCHANGED <<settings, preamble, loop, msg, detection, accounts, auth, turn, hist>>

-----------------------------------------------------------------------------
Snapshots == SnapshotRead \/ SnapshotShown \/ SnapshotFails \/ Readiness
Preamble(s) ==
    SyncBegin(s) \/ SyncPush(s) \/ Ensure(s) \/ ConnectList(s) \/ ConnectCheck(s) \/ ConnectInsert(s)
Detects == Probe \/ PublishAccounts \/ DetectionEnds
Watches == WatchFires \/ WatchChecks
Diffs == GitTimer \/ DiffRead \/ DiffShown
Handler ==
    \/ Submitted \/ DaemonDoes \/ ForwardEnds \/ RefreshesLast \/ Mirror \/ ReadsLast
    \/ SignInShown \/ SignInWatched \/ MessageRefreshed
Faults ==
    \/ ProbeFails \/ EventFails \/ WatchFails \/ SubmitFails \/ TurnFails
    \/ CallFails \/ MessageAccountsFail
    \/ \E s \in Callers : ConnectFails(s)
Environment ==
    \/ \E k \in Messages : Receive(k)
    \/ ReceiveRefresh \/ ReceiveDiff \/ ReceiveSubmit
    \/ ConfigEdited \/ FoldersChange \/ LimitReached \/ UserSignsIn \/ FilesChange

Next ==
    \/ Snapshots \/ Detects \/ Watches \/ Diffs \/ Handler \/ Faults \/ Environment
    \/ TtlPasses \/ TenMinutes \/ DaemonEvent \/ TurnSent \/ EventRefreshed
    \/ \E s \in Callers : Preamble(s)
    \/ \E a \in Readers : AccountsRead(a)

Spec == Init /\ [][Next]_vars

(* Awaited requests are answered and timers fire: a step that stays possible is
   taken, in the refresh loop, in the detection, in the watch of a sign-in and
   among the steps that messages and events cause.  Nothing is assumed of the
   user, of events or of failures; the readiness timer assumes that the window
   has the focus now and then.                                               *)
Loops == SnapshotRead \/ SnapshotShown \/ Readiness \/ Preamble("rf")
Caused ==
    \/ Handler \/ CallFails \/ AccountsRead("msg") \/ Preamble("msg")
    \/ DaemonEvent \/ EventRefreshed \/ AccountsRead("event")
    \/ Diffs \/ TurnSent
Fairness ==
    /\ WF_vars(Loops)
    /\ WF_vars(Detects \/ TtlPasses)
    /\ WF_vars(Watches \/ AccountsRead("watch")) /\ WF_vars(TenMinutes)
    /\ WF_vars(Caused)

LiveSpec == Spec /\ Fairness

-----------------------------------------------------------------------------
(* Properties *)

(* The version of what the daemon has, and of what was read of it. *)
Version == Nat
Read == Version \cup {None}

RealState == [rows : Version, acct : Version, models : Version, files : Version, pol : {0, 1},
              signed : BOOLEAN, exists : BOOLEAN, repos : Nat]
PreState == [pc : {"idle", "sync", "push", "repos", "wait", "done"}, set : {None, 0, 1}, on : Callers \cup {"none"}]
MsgState == [kind : Messages \cup {"none", "ready", "failed"},
             pc : {"none", "call", "reply", "read", "accounts", "refresh", "wait", "arm", "diff", "submit"},
             made : Version]
CacheState == [acct : Read, models : Read, at : {"absent", "zero", "old", "fresh"}, err : BOOLEAN]
DetState == [on : BOOLEAN, models : Read, acct : Read, aCur : BOOLEAN, dCur : BOOLEAN, shown : BOOLEAN, err : BOOLEAN]
AccState == [pc : {"idle", "ask", "got"}, val : Read, cur : BOOLEAN, start : Read, signed : BOOLEAN, exists : BOOLEAN]
LoopState == [pc : {"idle", "pre", "show"}, more : BOOLEAN, rows : Version]
ShownState == [rows : Read, err : BOOLEAN]
AuthState == [pending : BOOLEAN, timers : Nat, late : BOOLEAN]
HistState == [floor : Read, since : Version, wanted : Version, overlap : BOOLEAN]
DiffState == [git : BOOLEAN, pc : {"idle", "wait", "ask", "show", "shown"}, pending : BOOLEAN, read : Version]

(* Versions, settings, caches and the steps of every task have their types. *)
TypeOK ==
    /\ real \in RealState
    /\ config \in {0, 1} /\ applied \in {0, 1} /\ synced \in {None, 0, 1}
    /\ pre \in [Callers -> PreState]
    /\ run \in [Callers -> {"none", "list", "check", "insert"}]
    /\ ready \in Callers \cup {"none", "done"}
    /\ rf \in LoopState
    /\ shown \in ShownState
    /\ msg \in MsgState
    /\ cache \in CacheState
    /\ det \in DetState
    /\ acc \in [Readers -> AccState]
    /\ queued \in BOOLEAN /\ note \in Read
    /\ auth \in AuthState
    /\ diff \in DiffState
    /\ turn \in {"none", "asked", "sending", "sent", "told"}
    /\ hist \in HistState
    /\ events \in 0..MaxEvents
    /\ acc["msg"].pc # "idle" <=> msg.pc = "accounts"

(* The accounts on screen are never older than the beginning of the refresh of
   accounts that was applied last: of a handler, an event, a sign-in's check and
   the detection, all reading at once, an older answer never goes over a newer
   one (accountRevision, refreshProviderAccounts and publish).               *)
AccountsNotOlder == hist.floor # None => cache.acct >= hist.floor

(* A detection that counts as fresh was read after the last account switch or
   change of settings that invalidated it (detectionRevision, runDetection). *)
FreshMeansCurrent == cache.at = "fresh" /\ ~cache.err => cache.models >= hist.since

(* When the handler of a message that changed something in the daemon has awaited
   its refresh, the snapshot on screen has the change, although the refresh it
   joined may have read before it; a failed snapshot says so (refresh).      *)
OwnChangeShown ==
    [][msg.kind = "forward" /\ msg.pc = "wait" /\ msg'.pc # "wait" => shown'.rows >= msg.made \/ shown'.err]_vars

(* A folder is connected twice only if the workspace folders changed while it was
   being connected: a snapshot and a submit that overlap share one run
   (ensureWorkspaceRepos).                                                   *)
ConnectedOnce == real.repos <= 1 \/ hist.overlap

(* When no load of the diff runs, the one on screen was read after the last
   request for it, although requests during a load are only noted (loadDiff). *)
DiffServed == diff.pc = "idle" => diff.read >= hist.wanted

(* Once messages and events end, the accounts and the models on screen become
   those of the daemon and stay so, whatever probes failed or were outdated
   (detect, finishDetection).                                                *)
DetectionSettles == <>[](cache.acct = real.acct /\ cache.models = real.models)

(* Once messages and events end, the daemon has the settings of VS Code, and they
   are what the user last chose: a policy applied from the sheet is not undone by
   a push of older settings (syncSettings, mirrorLimitPolicyToConfig).       *)
PolicySettles == <>[](real.pol = config /\ config = applied)

(* A sign-in never stays pending: it is found, given up after ten minutes or
   dropped with its account, although checks fail (watchProviderAuthentication). *)
AuthEnds == []<>~auth.pending

(* A submitted text always reaches the daemon or is given back to the user
   (sendThreadMessageInBackground and the catch of handleMessageNow).        *)
SubmitSettles == []<>(turn \notin {"asked", "sending"})

(* What is cached and shown is not behind what was asked for: accounts, models,
   the diff and the connected folders.                                       *)
ScreenSound ==
    TypeOK /\ AccountsNotOlder /\ FreshMeansCurrent /\ ConnectedOnce /\ DiffServed

(* Once messages and events end, screen, settings and daemon agree.          *)
ScreenSettles == DetectionSettles /\ PolicySettles

(* Nothing the user asked for stays open: neither a sign-in nor a submit.    *)
RequestsEnd == AuthEnds /\ SubmitSettles
=============================================================================
