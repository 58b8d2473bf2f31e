------------------------------- MODULE Daemon -------------------------------
(***************************************************************************)
(* The daemon process and the extension's hold on it.                      *)
(*                                                                         *)
(* DaemonManager (src/src/node/daemonManager.ts) spawns a daemon, finds it *)
(* through the endpoint file daemon.json, connects a DaemonClient to it    *)
(* (src/src/node/daemonClient.ts), turns off the features this build gates *)
(* and hands the client to every caller that waits for it.  The daemon     *)
(* (src/crates/am-daemon/src/bin) reconciles the database, binds, writes   *)
(* the endpoint file, serves, and on SIGTERM prepares its shutdown, closes *)
(* and removes the file.  A start is numbered by the process it spawns, so *)
(* a process, the client made by its start and the closures of that start  *)
(* share one number.  Handlers of the extension run to completion between  *)
(* awaits, one at a time: an action is one such stretch.                   *)
(***************************************************************************)
EXTENDS Naturals, FiniteSets, Sequences

CONSTANTS
    Reqs,        \* requests the workbench makes of the daemon
    Flags,       \* the gated features, in the order their policies are turned off
    MaxSpawns,   \* bound: daemon processes ever spawned
    MaxFaults    \* bound: crashes, failed boots and broken sockets

ASSUME BoundAssumption == MaxSpawns \in Nat \ {0} /\ MaxFaults \in Nat
ASSUME FlagsAssumption == Flags \in Seq({Flags[i] : i \in DOMAIN Flags})

None == 0

Pids == 1..MaxSpawns

(* Before it serves, a daemon has no handler for SIGTERM installed. *)
Unguarded == {"boot", "reconciled"}
Serving == {"up", "drain"}
Live == Unguarded \cup Serving \cup {"closing"}

VARIABLES
    proc,       \* process -> its state
    termed,     \* processes that were sent SIGTERM
    exitCode,   \* processes whose exit handler ran and that left an exit code
    unreaped,   \* dead processes whose "exit" event the extension has not handled
    endpoint,   \* the process whose port and token daemon.json holds, or None
    policy,     \* gated features the database has switched on
    child,      \* DaemonManager.child
    client,     \* DaemonManager.client, by the number of its start
    start,      \* the start in progress (startPromise)
    disposed,   \* DaemonManager.disposed
    closing,    \* deactivate's prepareShutdown: "no", "rpc" or "done"
    conn,       \* start -> the socket of its client and the process at its other end
    req,        \* request -> where it stands
    faults

manager == <<child, client, start, disposed, closing>>
world == <<proc, termed, exitCode, unreaped, endpoint, policy>>
vars == <<world, manager, conn, req, faults>>

Idle == [pc |-> "idle", pid |-> None, left |-> <<>>]

-----------------------------------------------------------------------------
(* Helpers *)

Spawned == {p \in Pids : proc[p] # "none"}
Starting == start.pc # "idle"
Unsettled(k) == {r \in Reqs : req[r].st = "pending" /\ req[r].conn = k}
Awaiting == {r \in Reqs : req[r].st = "waiting"}

Settle(f, rs, st) == [r \in Reqs |-> IF r \in rs THEN [f[r] EXCEPT !.st = st] ELSE f[r]]

(* child.kill(): SIGTERM ends a daemon that is still booting at once (by the
   signal, so with no exit code), and asks one that serves to shut down.     *)
Signal(ps) ==
    /\ termed' = termed \cup ps
    /\ proc' = [p \in Pids |-> IF p \in ps /\ proc[p] \in Unguarded THEN "dead" ELSE proc[p]]
    /\ unreaped' = unreaped \cup {p \in ps : proc[p] \in Unguarded}

(* The sockets whose other end is a process that just died. *)
Break(f, ps) ==
    [k \in Pids |-> IF f[k].peer \in ps /\ f[k].st \in {"handshake", "open"}
                    THEN [f[k] EXCEPT !.st = IF @ = "open" THEN "broken" ELSE "cut"] ELSE f[k]]

Init ==
    /\ proc = [p \in Pids |-> "none"]
    /\ termed = {}
    /\ exitCode = {}
    /\ unreaped = {}
    /\ endpoint = None
    /\ policy \in SUBSET {Flags[i] : i \in DOMAIN Flags}
    /\ child = None
    /\ client = None
    /\ start = Idle
    /\ disposed = FALSE
    /\ closing = "no"
    /\ conn = [k \in Pids |-> [st |-> "none", peer |-> None]]
    /\ req = [r \in Reqs |-> [st |-> "new", conn |-> None]]
    /\ faults = 0

-----------------------------------------------------------------------------
(* The daemon process *)

(* AppCore::new: the database is opened and the sessions a previous process
   left running are marked interrupted.                                      *)
Reconcile(p) ==
    /\ proc[p] = "boot"
    /\ proc' = [proc EXCEPT ![p] = "reconciled"]
    /\ UNCHANGED <<termed, exitCode, unreaped, endpoint, policy, manager, conn, req, faults>>

(* main: bind the socket and write daemon.json. *)
Serve(p) ==
    /\ proc[p] = "reconciled"
    /\ proc' = [proc EXCEPT ![p] = "up"]
    /\ endpoint' = p
    /\ UNCHANGED <<termed, exitCode, unreaped, policy, manager, conn, req, faults>>

(* main, after the terminate signal: prepare_shutdown while still serving,
   then serve.abort and core.shutdown with the open connections served.      *)
BeginDrain(p) ==
    /\ proc[p] = "up" /\ p \in termed
    /\ proc' = [proc EXCEPT ![p] = "drain"]
    /\ UNCHANGED <<termed, exitCode, unreaped, endpoint, policy, manager, conn, req, faults>>

(* Mutant: the daemon waits for its connections to be closed first. *)
StopWhenUnused(p) ==
    /\ proc[p] = "drain" /\ \A k \in Pids : conn[k].peer = p => conn[k].st # "open"
    /\ proc' = [proc EXCEPT ![p] = "closing"]
    /\ UNCHANGED <<termed, exitCode, unreaped, endpoint, policy, manager, conn, req, faults>>

StopAccepting(p) ==
    /\ proc[p] = "drain"
    /\ proc' = [proc EXCEPT ![p] = "closing"]
    /\ UNCHANGED <<termed, exitCode, unreaped, endpoint, policy, manager, conn, req, faults>>

(* The end of main: the endpoint file goes, whoever wrote it last. *)
Exit(p) ==
    /\ proc[p] = "closing"
    /\ proc' = [proc EXCEPT ![p] = "dead"]
    /\ unreaped' = unreaped \cup {p}
    /\ endpoint' = None
    /\ conn' = Break(conn, {p})
    /\ UNCHANGED <<termed, exitCode, policy, manager, req, faults>>

(* A boot that fails, a panic or a kill by the system: daemon.json stays. *)
Crash(p) ==
    /\ faults < MaxFaults /\ proc[p] \in Live
    /\ proc' = [proc EXCEPT ![p] = "dead"]
    /\ unreaped' = unreaped \cup {p}
    /\ conn' = Break(conn, {p})
    /\ faults' = faults + 1
    /\ UNCHANGED <<termed, exitCode, endpoint, policy, manager, req>>

(* handle_conn dispatches requests concurrently: any of them may be next. *)
Answer(r) ==
    /\ req[r].st = "pending"
    /\ conn[req[r].conn].st = "open" /\ proc[conn[req[r].conn].peer] \in Serving \cup {"closing"}
    /\ req' = Settle(req, {r}, "ok")
    /\ UNCHANGED <<world, manager, conn, faults>>

-----------------------------------------------------------------------------
(* DaemonClient *)

(* failAll and the manager's "disconnect" handler for client k: every request
   in flight is rejected, the manager forgets the client, and the process of
   that start is killed if it is still the manager's child.                  *)
Orphaned(k) ==
    IF ~disposed /\ child = k /\ k \notin exitCode THEN {k} ELSE {}

(* The socket of an established client breaks while the daemon lives. *)
SocketFails(k) ==
    /\ faults < MaxFaults /\ conn[k].st = "open"
    /\ conn' = [conn EXCEPT ![k].st = "broken"]
    /\ faults' = faults + 1
    /\ UNCHANGED <<world, manager, req>>

-----------------------------------------------------------------------------
(* DaemonManager *)

(* Mutant: startDaemon does not remove the endpoint file of an earlier daemon. *)
StartKeepsEndpoint(r) ==
    \E p \in Pids :
        /\ proc[p] = "none" /\ \A q \in Pids : q < p => proc[q] # "none"
        /\ proc' = [proc EXCEPT ![p] = "boot"]
        /\ child' = p
        /\ start' = [pc |-> "wait", pid |-> p, left |-> Flags]
        /\ req' = Settle(req, {r}, "waiting")
        /\ UNCHANGED <<termed, exitCode, unreaped, endpoint, policy, client, disposed, closing, conn, faults>>

(* The synchronous part of startDaemon: the endpoint file is removed and the
   process spawned; its caller waits on startPromise.                        *)
StartDaemon(r) ==
    \E p \in Pids :
        /\ proc[p] = "none" /\ \A q \in Pids : q < p => proc[q] # "none"
        /\ proc' = [proc EXCEPT ![p] = "boot"]
        /\ endpoint' = None
        /\ child' = p
        /\ start' = [pc |-> "wait", pid |-> p, left |-> Flags]
        /\ req' = Settle(req, {r}, "waiting")
        /\ UNCHANGED <<termed, exitCode, unreaped, policy, client, disposed, closing, conn, faults>>

(* getClient and the request behind it.  A write to a socket that is already
   closed is rejected by its callback.                                       *)
CallDisposed(r) ==
    /\ req[r].st = "new" /\ disposed
    /\ req' = Settle(req, {r}, "err")
    /\ UNCHANGED <<world, manager, conn, faults>>

CallClient(r) ==
    /\ req[r].st = "new" /\ ~disposed /\ client # None
    /\ req' = [req EXCEPT ![r] = IF conn[client].st = "closed" THEN [@ EXCEPT !.st = "err"]
                                 ELSE [st |-> "pending", conn |-> client]]
    /\ UNCHANGED <<world, manager, conn, faults>>

CallWaits(r) ==
    /\ req[r].st = "new" /\ ~disposed /\ client = None /\ Starting
    /\ req' = Settle(req, {r}, "waiting")
    /\ UNCHANGED <<world, manager, conn, faults>>

CallStarts(r) ==
    /\ req[r].st = "new" /\ ~disposed /\ client = None /\ ~Starting
    /\ StartDaemon(r)

(* resolveBinary throws: there is no daemon binary for this platform. *)
NoBinary(r) ==
    /\ req[r].st = "new" /\ ~disposed /\ client = None /\ ~Starting
    /\ faults < MaxFaults
    /\ req' = Settle(req, {r}, "err")
    /\ faults' = faults + 1
    /\ UNCHANGED <<world, manager, conn>>

(* Mutants of the catch: the process is not killed;
   its callers are not told.                                                 *)
StartFailsAlive ==
    /\ child' = IF child = start.pid THEN None ELSE child
    /\ start' = Idle
    /\ req' = Settle(req, Awaiting, "err")
    /\ Signal({})

StartFailsSilently ==
    /\ child' = IF child = start.pid THEN None ELSE child
    /\ start' = Idle
    /\ req' = req
    /\ Signal({start.pid} \ exitCode)

(* The catch of startDaemon: the process is killed unless it left an exit
   code, and every caller of getLocalClient gets the error.                  *)
StartFails ==
    /\ child' = IF child = start.pid THEN None ELSE child
    /\ start' = Idle
    /\ req' = Settle(req, Awaiting, "err")
    /\ Signal({start.pid} \ exitCode)

(* waitForEndpoint: the file appeared; the port of a process that no longer
   listens refuses the connection.                                           *)
ReadEndpoint ==
    /\ start.pc = "wait" /\ start.pid \notin exitCode /\ endpoint # None
    /\ \/ /\ proc[endpoint] \in Serving
          /\ start' = [start EXCEPT !.pc = "connect"]
          /\ conn' = [conn EXCEPT ![start.pid] = [st |-> "handshake", peer |-> endpoint]]
          /\ UNCHANGED <<world, child, client, disposed, closing, req, faults>>
       \/ /\ proc[endpoint] \notin Serving
          /\ StartFails
          /\ UNCHANGED <<exitCode, endpoint, policy, client, disposed, closing, conn, faults>>

(* Mutant: the wait has no time limit. *)
WaitForever ==
    /\ start.pc = "wait"
    /\ start.pid \in exitCode
    /\ StartFails
    /\ UNCHANGED <<exitCode, endpoint, policy, client, disposed, closing, conn, faults>>

(* The child left an exit code before the file appeared, or 15 s passed. *)
WaitFails ==
    /\ start.pc = "wait"
    /\ start.pid \in exitCode \/ endpoint = None
    /\ StartFails
    /\ UNCHANGED <<exitCode, endpoint, policy, client, disposed, closing, conn, faults>>

(* After a step of the start: the remaining gated features are still to be
   turned off, or the client is set and the waiting callers go on with it.   *)
Proceed(left) ==
    IF left # <<>>
    THEN /\ start' = [start EXCEPT !.pc = "get", !.left = left]
         /\ UNCHANGED <<client, req>>
    ELSE /\ client' = start.pid
         /\ start' = Idle
         /\ req' = [r \in Reqs |-> IF r \in Awaiting THEN [st |-> "pending", conn |-> start.pid]
                                   ELSE req[r]]

(* connectStream: the token of the file is the daemon's, so it accepts. *)
Handshake ==
    /\ start.pc = "connect" /\ conn[start.pid].st = "handshake"
    /\ proc[conn[start.pid].peer] \in Serving \cup {"closing"}
    /\ conn' = [conn EXCEPT ![start.pid].st = "open"]
    /\ Proceed(start.left)
    /\ UNCHANGED <<world, child, disposed, closing, faults>>

(* The daemon dies in the handshake: a reset rejects the connection ... *)
HandshakeFails ==
    /\ start.pc = "connect" /\ conn[start.pid].st = "cut"
    /\ conn' = [conn EXCEPT ![start.pid].st = "closed"]
    /\ StartFails
    /\ UNCHANGED <<exitCode, endpoint, policy, client, disposed, closing, faults>>

(* ... but an orderly close raises no "error", and connectStream listens for
   nothing else: the promise never settles.                                  *)
HandshakeHangs ==
    /\ start.pc = "connect" /\ conn[start.pid].st = "cut"
    /\ conn' = [conn EXCEPT ![start.pid].st = "closed"]
    /\ start' = [start EXCEPT !.pc = "hung"]
    /\ UNCHANGED <<world, child, client, disposed, closing, req, faults>>

Reached == conn[start.pid].st = "open" /\ proc[conn[start.pid].peer] \in Serving \cup {"closing"}

(* getCloudPolicy, getLocalModelPolicy, getSandboxPolicy of the gated features. *)
GetPolicy ==
    /\ start.pc = "get" /\ Reached
    /\ IF Head(start.left) \in policy
       THEN start' = [start EXCEPT !.pc = "set"] /\ UNCHANGED <<client, req>>
       ELSE Proceed(Tail(start.left))
    /\ UNCHANGED <<world, child, disposed, closing, conn, faults>>

(* Mutant: the policy is sent back unchanged. *)
SetPolicyAgain ==
    /\ start.pc = "set" /\ Reached
    /\ Proceed(Tail(start.left))
    /\ UNCHANGED <<world, child, disposed, closing, conn, faults>>

SetPolicy ==
    /\ start.pc = "set" /\ Reached
    /\ policy' = policy \ {Head(start.left)}
    /\ Proceed(Tail(start.left))
    /\ UNCHANGED <<proc, termed, exitCode, unreaped, endpoint, child, disposed, closing, conn, faults>>

(* The daemon answers one of these requests with an error. *)
PolicyFails ==
    /\ start.pc \in {"get", "set"} /\ Reached
    /\ faults < MaxFaults
    /\ faults' = faults + 1
    /\ StartFails
    /\ UNCHANGED <<exitCode, endpoint, policy, client, disposed, closing, conn>>

(* "close" of a client's socket.  During the start the rejected request also
   fails the start.                                                          *)
InStart(k) == start.pc \in {"get", "set"} /\ start.pid = k

(* Mutant: the requests in flight are dropped without being rejected. *)
CloseKeepsPending(k) ==
    /\ conn[k].st = "broken"
    /\ conn' = [conn EXCEPT ![k].st = "closed"]
    /\ client' = IF client = k THEN None ELSE client
    /\ IF InStart(k)
       THEN StartFails
       ELSE Signal(Orphaned(k)) /\ UNCHANGED <<child, start, req>>
    /\ UNCHANGED <<exitCode, endpoint, policy, disposed, closing, faults>>

CloseEvent(k) ==
    /\ conn[k].st = "broken"
    /\ conn' = [conn EXCEPT ![k].st = "closed"]
    /\ client' = IF client = k THEN None ELSE client
    /\ IF InStart(k)
       THEN StartFails
       ELSE /\ Signal(Orphaned(k))
            /\ req' = Settle(req, Unsettled(k), "err")
            /\ UNCHANGED <<child, start>>
    /\ UNCHANGED <<exitCode, endpoint, policy, disposed, closing, faults>>

(* "exit" of a process: the manager disposes whatever client it has, which
   runs that client's "disconnect" handler, and forgets the child.  Only an
   exit that was no death by signal leaves a code.                           *)
ExitEvent(p) ==
    /\ p \in unreaped
    /\ \/ exitCode' = exitCode \cup {p}
       \/ exitCode' = exitCode
    /\ termed' = IF client = None THEN termed
                 ELSE termed \cup (Orphaned(client) \ {p})
    /\ unreaped' = unreaped \ {p}
    /\ conn' = IF client = None THEN conn ELSE [conn EXCEPT ![client].st = "closed"]
    /\ req' = IF client = None THEN req ELSE Settle(req, Unsettled(client), "err")
    /\ client' = None
    /\ child' = IF child = p THEN None ELSE child
    /\ UNCHANGED <<proc, endpoint, policy, start, disposed, closing, faults>>

(* dispose(): the client goes first, its handler sees disposed. *)
Dispose ==
    /\ disposed' = TRUE
    /\ closing' = "done"
    /\ client' = None
    /\ child' = None
    /\ conn' = IF client = None THEN conn ELSE [conn EXCEPT ![client].st = "closed"]
    /\ req' = IF client = None THEN req ELSE Settle(req, Unsettled(client), "err")
    /\ Signal({child} \ {None})

(* deactivate: with a client, the shutdown is announced to the daemon first;
   its answer, its error or the time limit leads to dispose.                 *)
Deactivate ==
    /\ closing = "no" /\ ~disposed
    /\ IF client = None
       THEN /\ Dispose
            /\ UNCHANGED <<exitCode, endpoint, policy, start, faults>>
       ELSE /\ closing' = "rpc"
            /\ UNCHANGED <<world, child, client, start, disposed, conn, req, faults>>

ShutdownPrepared ==
    /\ closing = "rpc"
    /\ Dispose
    /\ UNCHANGED <<exitCode, endpoint, policy, start, faults>>

-----------------------------------------------------------------------------
Process(p) == Reconcile(p) \/ Serve(p) \/ BeginDrain(p) \/ StopAccepting(p) \/ Exit(p)
Call(r) == CallDisposed(r) \/ CallClient(r) \/ CallWaits(r) \/ CallStarts(r)
StartStep ==
    \/ ReadEndpoint \/ WaitFails \/ Handshake \/ HandshakeFails \/ HandshakeHangs
    \/ GetPolicy \/ SetPolicy

Next ==
    \/ \E p \in Pids : Process(p) \/ Crash(p) \/ ExitEvent(p) \/ SocketFails(p) \/ CloseEvent(p)
    \/ \E r \in Reqs : Call(r) \/ NoBinary(r) \/ Answer(r)
    \/ StartStep \/ PolicyFails
    \/ Deactivate \/ ShutdownPrepared

Spec == Init /\ [][Next]_vars

(* Processes run, the event loop delivers socket and exit events, a poll ends,
   the daemon answers the policy requests of a start, and the announced
   shutdown reaches its time limit.  Nothing is assumed of the user, of the
   faults, or of how long any other request takes.                           *)
Fairness ==
    /\ \A p \in Pids : WF_vars(Process(p)) /\ WF_vars(ExitEvent(p)) /\ WF_vars(CloseEvent(p))
    /\ WF_vars(StartStep)
    /\ WF_vars(ShutdownPrepared)

LiveSpec == Spec /\ Fairness

-----------------------------------------------------------------------------
(* Properties *)

(* The variables have the shapes daemonManager.ts and the daemon's main give them. *)
TypeOK ==
    /\ proc \in [Pids -> {"none", "dead"} \cup Live]
    /\ termed \subseteq Spawned /\ exitCode \subseteq Spawned /\ unreaped \subseteq Spawned
    /\ endpoint \in Pids \cup {None} /\ child \in Pids \cup {None} /\ client \in Pids \cup {None}
    /\ policy \subseteq {Flags[i] : i \in DOMAIN Flags}
    /\ start.pc \in {"idle", "wait", "connect", "get", "set", "hung"}
    /\ start.pid \in Pids \cup {None}
    /\ disposed \in BOOLEAN /\ closing \in {"no", "rpc", "done"}
    /\ \A k \in Pids : /\ conn[k].st \in {"none", "handshake", "open", "broken", "cut", "closed"}
                       /\ conn[k].peer \in Pids \cup {None}
    /\ \A r \in Reqs : /\ req[r].st \in {"new", "waiting", "pending", "ok", "err"}
                       /\ req[r].conn \in Pids \cup {None}
    /\ faults \in 0..MaxFaults

(* A daemon that nobody asked to stop is the manager's child: no reconnect, no
   failed start and no dispose during a start leaves one running unattended,
   holding the database (startDaemon, its "disconnect" handler, dispose).    *)
NoOrphan == \A p \in Pids : proc[p] \in Live \ {"closing", "drain"} /\ p \notin termed => child = p

(* The client handed to callers speaks to the daemon its own start spawned,
   and that daemon is the child a broken connection would kill.              *)
OwnDaemon ==
    client # None => /\ conn[client].peer = client
                     /\ ~disposed => child = client

(* While a client is handed out, the database has every gated feature off
   (startDaemon turns the three policies off before this.client is set).     *)
GatedOff == client # None => policy = {}

(* The manager has a client or a start in progress for every caller it keeps
   waiting: getLocalClient never leaves a caller on a promise of nobody.     *)
NobodyForgotten == Awaiting # {} => Starting

(* No request stays on a connection that is gone: a request on a closed
   connection was rejected (failAll, and the write callback of requestRaw).  *)
NothingOnClosed == \A r \in Reqs : req[r].st = "pending" => conn[req[r].conn].st # "closed"

(* A start settles, unless the daemon closes the connection in the handshake
   without an error (connectStream has no "close" handler).                  *)
StartSettles == Starting ~> (~Starting \/ start.pc = "hung")

(* Once the manager is disposed, every daemon it ever spawned ends, one that
   was still starting included.                                              *)
DisposedStops == disposed ~> (\A p \in Pids : proc[p] \in {"none", "dead"})

(* The manager has its daemon in hand: no orphan, no client of another daemon,
   and no client before the gated features are off.                          *)
Supervised == TypeOK /\ NoOrphan /\ OwnDaemon /\ GatedOff

(* Every caller is waiting for something that will answer: a start in progress
   or an open connection.                                                    *)
CallersServed == NobodyForgotten /\ NothingOnClosed

(* A start comes to an end and so does, after the dispose, every daemon.     *)
StartsAndStops == StartSettles /\ DisposedStops
=============================================================================
