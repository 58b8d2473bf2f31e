--------------------------- MODULE ServiceProofs ----------------------------
(***************************************************************************)
(* The daemon and what it asks its clients: the manager that keeps one     *)
(* daemon running (Daemon) and the approvals of a run (Approvals). The two *)
(* parts are independent of each other.                                    *)
(***************************************************************************)
EXTENDS Daemon, Approvals, TLAPS

(***************************************************************************)
(* Proofs about Daemon for every number of requests, spawned processes and *)
(* faults, and every list of gated features.                               *)
(***************************************************************************)

(***************************************************************************)
(* The inductive invariant, part by part.                                  *)
(***************************************************************************)

Gated == {Flags[i] : i \in DOMAIN Flags}
Startable == {"boot", "reconciled", "up"}   \* not asked to stop, as far as it knows

ConnRow == [st : {"none", "handshake", "open", "broken", "cut", "closed"}, peer : Pids \cup {None}]
ReqRow == [st : {"new", "waiting", "pending", "ok", "err"}, conn : Pids \cup {None}]
StartRow == [pc : {"idle", "wait", "connect", "get", "set", "hung"}, pid : Pids \cup {None},
             left : Seq(Gated)]

(* The shapes TypeOK leaves open, and what the sets of processes say of them. *)
Shape ==
  /\ proc \in [Pids -> {"none", "dead"} \cup Live]
  /\ termed \subseteq Pids /\ exitCode \subseteq Pids /\ unreaped \subseteq Pids
  /\ endpoint \in Pids \cup {None} /\ child \in Pids \cup {None} /\ client \in Pids \cup {None}
  /\ policy \subseteq Gated
  /\ start \in StartRow
  /\ disposed \in BOOLEAN /\ closing \in {"no", "rpc", "done"}
  /\ conn \in [Pids -> ConnRow]
  /\ req \in [Reqs -> ReqRow]
  /\ faults \in 0..MaxFaults

(* A process that was sent SIGTERM before it could handle it is gone; only
   dead ones have an exit to report or have reported one. *)
ProcFits(p, st, tm, ec, ur) ==
  /\ p \in tm => st \notin Unguarded \cup {"none"}
  /\ p \in ec \cup ur => st = "dead"
ProcsFit == \A p \in Pids : ProcFits(p, proc[p], termed, exitCode, unreaped)

(* A process nobody asked to stop is the child, and is being started or has the
   client that callers are given. *)
AttendedFits(p, st, tm, ch, sp, cl) ==
  st \in Startable /\ p \notin tm => ch = p /\ (sp = p \/ cl = p)
StartPid(s) == IF s.pc = "idle" THEN None ELSE s.pid
Attended ==
  \A p \in Pids : AttendedFits(p, proc[p], termed, child, StartPid(start), client)

(* The child was spawned, and a disposed manager has none. *)
ChildFits ==
  /\ child # None => proc[child] # "none"
  /\ disposed => child = None

(* A connection leads to the process of its own start, which serves or has. *)
ConnFits(k, c, st) == c.st # "none" => c.peer = k /\ st \notin Unguarded \cup {"none"}
ConnsFit == \A k \in Pids : ConnFits(k, conn[k], proc[k])

(* The start in progress: what it waits for is the endpoint of its own process,
   and the features still on are among those it has yet to turn off. *)
StartFits ==
  Starting =>
    /\ start.pid \in Pids /\ proc[start.pid] # "none"
    /\ client = None
    /\ ~disposed /\ proc[start.pid] # "dead" => child = start.pid
    /\ start.pc = "wait" /\ endpoint # None => endpoint = start.pid
    /\ start.pc # "wait" => conn[start.pid].st # "none"
    /\ start.pc \in {"get", "set"} => start.left # <<>>
    /\ start.pc # "hung" => policy \subseteq {start.left[i] : i \in DOMAIN start.left}

(* The client that callers are given. *)
ClientFits ==
  client # None => /\ conn[client].st # "none" /\ policy = {}
                   /\ ~disposed => child = client

(* A caller waits for the start, or for an answer on a connection that is not
   closed and that no start depends on. *)
ReqFits(q, s, cn) ==
  /\ q.st = "waiting" => s.pc # "idle"
  /\ q.st = "pending" => /\ q.conn \in Pids /\ cn[q.conn].st \notin {"none", "closed"}
                         /\ q.conn # StartPid(s)
ReqsFit == \A r \in Reqs : ReqFits(req[r], start, conn)

IInv ==
  /\ Shape /\ ProcsFit /\ Attended /\ ChildFits /\ ConnsFit /\ StartFits /\ ClientFits /\ ReqsFit

(***************************************************************************)
(* What every step but the spawn of a process keeps of the processes and   *)
(* the connections, and what the parts of the invariant need no more than. *)
(***************************************************************************)

ProcMoves(pr, pr2) ==
  \A p \in Pids :
    /\ pr[p] # "none" => pr2[p] # "none"
    /\ pr2[p] \in Startable => pr[p] \in Startable
    /\ pr[p] \notin Unguarded \cup {"none"} => pr2[p] \notin Unguarded \cup {"none"}
    /\ pr[p] = "dead" => pr2[p] = "dead"

ConnMoves(cn, cn2) ==
  \A k \in Pids : /\ cn2[k].peer = cn[k].peer
                  /\ cn[k].st = "none" <=> cn2[k].st = "none"

LEMMA Constants ==
  /\ None \notin Pids
  /\ "none" \notin Live /\ "dead" \notin Live /\ "dead" \notin Unguarded /\ "none" \notin Startable
  /\ "dead" \notin Startable /\ Unguarded \subseteq Startable /\ Startable \subseteq Live
  /\ "dead" \notin Serving \cup {"closing"} /\ Unguarded \cap (Serving \cup {"closing"}) = {}
BY BoundAssumption DEF None, Pids, Live, Unguarded, Serving, Startable

LEMMA Same == ProcMoves(proc, proc) /\ ConnMoves(conn, conn)
BY DEF ProcMoves, ConnMoves

LEMMA AttendedKept ==
  ASSUME Attended, ProcMoves(proc, proc'), termed \subseteq termed', child' = child,
         StartPid(start') = StartPid(start), client' = client
  PROVE  Attended'
BY DEF Attended, AttendedFits, ProcMoves, StartPid

LEMMA ConnsKept ==
  ASSUME ConnsFit, ProcMoves(proc, proc'), ConnMoves(conn, conn')
  PROVE  ConnsFit'
<1> SUFFICES ASSUME NEW k \in Pids PROVE ConnFits(k, conn'[k], proc'[k])
  BY DEF ConnsFit
<1>1. ConnFits(k, conn[k], proc[k])
  BY DEF ConnsFit
<1> QED
  BY <1>1 DEF ConnFits, ProcMoves, ConnMoves

LEMMA ChildKept ==
  ASSUME Shape, ChildFits, ProcMoves(proc, proc'), child' \in {child, None}, disposed' = disposed
  PROVE  ChildFits'
BY DEF Shape, ChildFits, ProcMoves

(* The start in progress goes on while its process, its connection, the child
   and the features that are on move as they may. *)
LEMMA StartKept ==
  ASSUME Shape, StartFits, ProcMoves(proc, proc'), ConnMoves(conn, conn'),
         UNCHANGED <<start, client, disposed>>, policy' = policy,
         \/ child' = child
         \/ child' = None /\ (child # None => proc[child] = "dead")
         \/ child' = None /\ child # start.pid,
         start.pc = "wait" /\ endpoint' # None => endpoint' = endpoint \/ endpoint' = start.pid
  PROVE  StartFits'
<1> SUFFICES ASSUME Starting PROVE StartFits'
  BY DEF StartFits, Starting
<1>1. /\ start.pid \in Pids /\ proc[start.pid] # "none"
      /\ client = None
      /\ ~disposed /\ proc[start.pid] # "dead" => child = start.pid
      /\ start.pc = "wait" /\ endpoint # None => endpoint = start.pid
      /\ start.pc # "wait" => conn[start.pid].st # "none"
      /\ start.pc \in {"get", "set"} => start.left # <<>>
      /\ start.pc # "hung" => policy \subseteq {start.left[i] : i \in DOMAIN start.left}
  BY DEF StartFits
<1>2. proc'[start.pid] # "none" /\ (proc'[start.pid] # "dead" => proc[start.pid] # "dead")
  BY <1>1 DEF ProcMoves
<1>3. start.pc # "wait" => conn'[start.pid].st # "none"
  BY <1>1 DEF ConnMoves
<1>4. ~disposed /\ proc'[start.pid] # "dead" => child' = start.pid
  BY <1>1, <1>2, Constants
<1>5. start.pc = "wait" /\ endpoint' # None => endpoint' = start.pid
  BY <1>1
<1> QED
  BY <1>1, <1>2, <1>3, <1>4, <1>5 DEF StartFits

LEMMA ClientKept ==
  ASSUME Shape, ClientFits, ConnMoves(conn, conn'), client' \in {client, None}, disposed' = disposed,
         policy' \subseteq policy, client' # None /\ ~disposed => child' = child
  PROVE  ClientFits'
<1> SUFFICES ASSUME client' # None PROVE ClientFits'
  BY DEF ClientFits
<1>1. client' = client /\ client \in Pids
  BY DEF Shape
<1>2. conn[client].st # "none" /\ policy = {} /\ (~disposed => child = client)
  BY <1>1 DEF ClientFits
<1>3. conn'[client].st # "none"
  BY <1>1, <1>2 DEF ConnMoves
<1> QED
  BY <1>1, <1>2, <1>3 DEF ClientFits

LEMMA ReqsKept ==
  ASSUME ReqsFit, req' = req, start' = start, ConnMoves(conn, conn'),
         \A k \in Pids : conn'[k].st = "closed" => conn[k].st = "closed"
  PROVE  ReqsFit'
<1> SUFFICES ASSUME NEW r \in Reqs PROVE ReqFits(req[r], start, conn')
  BY DEF ReqsFit
<1>1. ReqFits(req[r], start, conn)
  BY DEF ReqsFit
<1> QED
  BY <1>1 DEF ReqFits, ConnMoves

(***************************************************************************)
(* The daemon process and its connections.                                 *)
(***************************************************************************)

(* A step of the world that leaves the manager and the requests alone. *)
LEMMA WorldStep ==
  ASSUME IInv, Shape', UNCHANGED <<termed, exitCode, policy, child, client, start, disposed, req>>,
         ProcMoves(proc, proc'), ConnMoves(conn, conn'),
         unreaped' \subseteq unreaped \cup {p \in Pids : proc'[p] = "dead"},
         start.pc = "wait" /\ endpoint' # None => endpoint' = endpoint \/ endpoint' = start.pid,
         \A k \in Pids : conn'[k].st = "closed" => conn[k].st = "closed"
  PROVE  IInv'
<1>1. ProcsFit'
  BY DEF IInv, ProcsFit, ProcFits, ProcMoves
<1>2. Attended'
  BY AttendedKept DEF IInv
<1>3. ChildFits' /\ ConnsFit'
  BY ChildKept, ConnsKept DEF IInv
<1>4. StartFits'
  BY StartKept DEF IInv
<1>5. ClientFits' /\ ReqsFit'
  BY ClientKept, ReqsKept DEF IInv
<1> QED
  BY <1>1, <1>2, <1>3, <1>4, <1>5 DEF IInv

LEMMA OneProc ==
  ASSUME Shape, NEW p \in Pids, NEW st \in {"reconciled", "up", "drain", "closing", "dead"},
         proc' = [proc EXCEPT ![p] = st], proc[p] \in Live,
         st = "reconciled" => proc[p] = "boot", st = "up" => proc[p] = "reconciled"
  PROVE  proc' \in [Pids -> {"none", "dead"} \cup Live] /\ ProcMoves(proc, proc') /\ proc'[p] = st
<1>1. st \in {"none", "dead"} \cup Live
  BY DEF Live, Unguarded, Serving
<1>2. proc \in [Pids -> {"none", "dead"} \cup Live]
  BY DEF Shape
<1>3. proc' \in [Pids -> {"none", "dead"} \cup Live] /\ proc'[p] = st /\ \A q \in Pids \ {p} : proc'[q] = proc[q]
  BY <1>1, <1>2
<1>4. st # "none" /\ proc[p] # "dead"
  BY Constants
<1>5. (st \in Startable => proc[p] \in Startable)
  BY DEF Startable
<1>6. proc[p] \notin Unguarded \cup {"none"} => st \notin Unguarded \cup {"none"}
  BY DEF Unguarded
<1> QED
  BY <1>3, <1>4, <1>5, <1>6 DEF ProcMoves

LEMMA BreakMoves ==
  ASSUME Shape, NEW ps, conn' = Break(conn, ps)
  PROVE  /\ conn' \in [Pids -> ConnRow] /\ ConnMoves(conn, conn')
         /\ \A k \in Pids : conn'[k].st = "closed" => conn[k].st = "closed"
<1>1. conn' = [k \in Pids |-> IF conn[k].peer \in ps /\ conn[k].st \in {"handshake", "open"}
                              THEN [conn[k] EXCEPT !.st = IF @ = "open" THEN "broken" ELSE "cut"]
                              ELSE conn[k]]
  BY DEF Break
<1>2. ASSUME NEW k \in Pids
      PROVE  /\ conn'[k] \in ConnRow /\ conn'[k].peer = conn[k].peer
             /\ conn[k].st = "none" <=> conn'[k].st = "none"
             /\ conn'[k].st = "closed" => conn[k].st = "closed"
  <2>1. conn[k] \in ConnRow
    BY DEF Shape
  <2> DEFINE st == IF conn[k].st = "open" THEN "broken" ELSE "cut"
             v == [conn[k] EXCEPT !.st = st]
  <2>2. v \in ConnRow /\ v.peer = conn[k].peer /\ v.st \in {"broken", "cut"}
    BY <2>1 DEF ConnRow
  <2>3. (conn'[k] = v /\ conn[k].st \in {"handshake", "open"}) \/ conn'[k] = conn[k]
    BY <1>1
  <2> HIDE DEF v
  <2> QED
    BY <2>1, <2>2, <2>3
<1>3. conn' \in [Pids -> ConnRow]
  BY <1>1, <1>2
<1> QED
  BY <1>2, <1>3 DEF ConnMoves

LEMMA ProcessKeeps ==
  ASSUME IInv, NEW p \in Pids, Reconcile(p) \/ BeginDrain(p) \/ StopAccepting(p)
  PROVE  IInv'
<1>1. UNCHANGED <<termed, exitCode, unreaped, endpoint, policy, child, client, start, disposed, closing,
                  conn, req, faults>>
  BY DEF Reconcile, BeginDrain, StopAccepting, manager
<1>2. PICK st \in {"reconciled", "drain", "closing"} :
        proc' = [proc EXCEPT ![p] = st] /\ proc[p] \in Live /\ (st = "reconciled" => proc[p] = "boot")
  BY DEF Reconcile, BeginDrain, StopAccepting, Live, Unguarded, Serving
<1>3. Shape
  BY DEF IInv
<1>4. proc' \in [Pids -> {"none", "dead"} \cup Live] /\ ProcMoves(proc, proc')
  BY <1>2, <1>3, OneProc
<1>5. Shape'
  BY <1>1, <1>3, <1>4 DEF Shape
<1> QED
  BY <1>1, <1>4, <1>5, Same, WorldStep

(* The process that begins to serve is the one that is being started. *)
LEMMA ServeKeeps ==
  ASSUME IInv, NEW p \in Pids, Serve(p)
  PROVE  IInv'
<1>1. UNCHANGED <<termed, exitCode, unreaped, policy, child, client, start, disposed, closing, conn, req,
                  faults>>
  BY DEF Serve, manager
<1>2. proc[p] = "reconciled" /\ proc' = [proc EXCEPT ![p] = "up"] /\ endpoint' = p
  BY DEF Serve
<1>3. Shape
  BY DEF IInv
<1>4. proc[p] \in Live
  BY <1>2 DEF Live, Unguarded
<1>5. proc' \in [Pids -> {"none", "dead"} \cup Live] /\ ProcMoves(proc, proc')
  BY <1>2, <1>3, <1>4, OneProc
<1>6. Shape'
  BY <1>1, <1>2, <1>3, <1>5 DEF Shape
<1>7. ASSUME start.pc = "wait" PROVE p = start.pid
  <2>1. ProcFits(p, proc[p], termed, exitCode, unreaped) /\ AttendedFits(p, proc[p], termed, child, StartPid(start), client)
    BY DEF IInv, ProcsFit, Attended
  <2>2. p \notin termed
    BY <1>2, <2>1 DEF ProcFits, Unguarded
  <2>3. StartPid(start) = p \/ client = p
    BY <1>2, <2>1, <2>2 DEF AttendedFits, Startable
  <2>4. client = None
    BY <1>7 DEF IInv, StartFits, Starting
  <2> QED
    BY <1>7, <2>3, <2>4, Constants DEF StartPid
<1> QED
  BY <1>1, <1>2, <1>5, <1>6, <1>7, Same, WorldStep

LEMMA DiesKeeps ==
  ASSUME IInv, NEW p \in Pids, Exit(p) \/ Crash(p)
  PROVE  IInv'
<1>1. UNCHANGED <<termed, exitCode, policy, child, client, start, disposed, closing, req>>
  BY DEF Exit, Crash, manager
<1>2. /\ proc[p] \in Live /\ proc' = [proc EXCEPT ![p] = "dead"] /\ unreaped' = unreaped \cup {p}
      /\ conn' = Break(conn, {p}) /\ endpoint' \in {endpoint, None}
  BY DEF Exit, Crash, Live
<1>3. Shape
  BY DEF IInv
<1>4. faults' \in 0..MaxFaults
  BY <1>3, BoundAssumption DEF Exit, Crash, Shape
<1>5. proc' \in [Pids -> {"none", "dead"} \cup Live] /\ ProcMoves(proc, proc') /\ proc'[p] = "dead"
  BY <1>2, <1>3, OneProc
<1>6. /\ conn' \in [Pids -> ConnRow] /\ ConnMoves(conn, conn')
      /\ \A k \in Pids : conn'[k].st = "closed" => conn[k].st = "closed"
  BY <1>2, <1>3, BreakMoves
<1>7. Shape'
  BY <1>1, <1>2, <1>3, <1>4, <1>5, <1>6 DEF Shape
<1> QED
  BY <1>1, <1>2, <1>5, <1>6, <1>7, WorldStep

LEMMA OneConn ==
  ASSUME Shape, NEW k \in Pids, NEW st \in {"open", "broken", "closed"},
         conn' = [conn EXCEPT ![k].st = st], conn[k].st # "none"
  PROVE  /\ conn' \in [Pids -> ConnRow] /\ ConnMoves(conn, conn') /\ conn'[k].st = st
         /\ \A j \in Pids \ {k} : conn'[j] = conn[j]
<1> DEFINE v == [conn[k] EXCEPT !.st = st]
<1>1. conn[k] \in ConnRow /\ conn \in [Pids -> ConnRow]
  BY DEF Shape
<1>2. conn' = [conn EXCEPT ![k] = v]
  OBVIOUS
<1>3. v \in ConnRow /\ v.st = st /\ v.peer = conn[k].peer
  BY <1>1 DEF ConnRow
<1> HIDE DEF v
<1>4. conn' \in [Pids -> ConnRow] /\ conn'[k] = v /\ \A j \in Pids \ {k} : conn'[j] = conn[j]
  BY <1>1, <1>2, <1>3
<1> QED
  BY <1>3, <1>4 DEF ConnMoves

LEMMA SocketFailsKeeps ==
  ASSUME IInv, NEW k \in Pids, SocketFails(k)
  PROVE  IInv'
<1>1. UNCHANGED <<proc, termed, exitCode, unreaped, endpoint, policy, child, client, start, disposed,
                  closing, req>>
  BY DEF SocketFails, world, manager
<1>2. faults < MaxFaults /\ faults' = faults + 1 /\ conn[k].st = "open"
      /\ conn' = [conn EXCEPT ![k].st = "broken"]
  BY DEF SocketFails
<1>3. Shape
  BY DEF IInv
<1>4. /\ conn' \in [Pids -> ConnRow] /\ ConnMoves(conn, conn') /\ conn'[k].st = "broken"
      /\ \A j \in Pids \ {k} : conn'[j] = conn[j]
  BY <1>2, <1>3, OneConn
<1>5. faults' \in 0..MaxFaults
  BY <1>2, <1>3, BoundAssumption DEF Shape
<1>6. Shape'
  BY <1>1, <1>3, <1>4, <1>5 DEF Shape
<1>7. \A j \in Pids : conn'[j].st = "closed" => conn[j].st = "closed"
  BY <1>4
<1> QED
  BY <1>1, <1>4, <1>6, <1>7, Same, WorldStep

(***************************************************************************)
(* Requests, and the signals the manager sends.                            *)
(***************************************************************************)

LEMMA SettleTypes ==
  ASSUME Shape, NEW rs, NEW st \in {"new", "waiting", "pending", "ok", "err"}, req' = Settle(req, rs, st)
  PROVE  /\ req' \in [Reqs -> ReqRow]
         /\ \A r \in Reqs : IF r \in rs THEN req'[r].st = st ELSE req'[r] = req[r]
<1>1. req' = [r \in Reqs |-> IF r \in rs THEN [req[r] EXCEPT !.st = st] ELSE req[r]]
  BY DEF Settle
<1>2. ASSUME NEW r \in Reqs
      PROVE  req'[r] \in ReqRow /\ IF r \in rs THEN req'[r].st = st ELSE req'[r] = req[r]
  <2>1. req[r] \in ReqRow
    BY DEF Shape
  <2> DEFINE v == [req[r] EXCEPT !.st = st]
  <2>2. v \in ReqRow /\ v.st = st
    BY <2>1 DEF ReqRow
  <2>3. req'[r] = IF r \in rs THEN v ELSE req[r]
    BY <1>1
  <2> HIDE DEF v
  <2> QED
    BY <2>1, <2>2, <2>3
<1> QED
  BY <1>1, <1>2

(* A step that changes requests alone. *)
LEMMA ReqStep ==
  ASSUME IInv, UNCHANGED <<proc, termed, exitCode, unreaped, endpoint, policy, child, client, start,
                           disposed, conn>>,
         closing' \in {"no", "rpc", "done"}, faults' \in 0..MaxFaults,
         req' \in [Reqs -> ReqRow], ReqsFit'
  PROVE  IInv'
<1>1. Shape'
  BY DEF IInv, Shape
<1>2. ProcsFit' /\ Attended' /\ ChildFits' /\ ConnsFit'
  BY DEF IInv, ProcsFit, Attended, ChildFits, ConnsFit
<1>3. StartFits' /\ ClientFits'
  BY DEF IInv, StartFits, ClientFits, Starting
<1> QED
  BY <1>1, <1>2, <1>3 DEF IInv

LEMMA SettledKeeps ==
  ASSUME IInv, NEW r \in Reqs, NEW st \in {"ok", "err"}, req' = Settle(req, {r}, st),
         UNCHANGED <<proc, termed, exitCode, unreaped, endpoint, policy, child, client, start,
                     disposed, closing, conn>>,
         faults' \in 0..MaxFaults
  PROVE  IInv'
<1>1. Shape
  BY DEF IInv
<1>2. /\ req' \in [Reqs -> ReqRow]
      /\ \A q \in Reqs : IF q \in {r} THEN req'[q].st = st ELSE req'[q] = req[q]
  BY <1>1, SettleTypes
<1>3. ReqsFit'
  BY <1>2 DEF IInv, ReqsFit, ReqFits
<1> QED
  BY <1>1, <1>2, <1>3, ReqStep DEF Shape

LEMMA AnswerKeeps ==
  ASSUME IInv, NEW r \in Reqs, Answer(r) \/ CallDisposed(r) \/ NoBinary(r)
  PROVE  IInv'
<1>1. UNCHANGED <<proc, termed, exitCode, unreaped, endpoint, policy, child, client, start, disposed,
                  closing, conn>>
  BY DEF Answer, CallDisposed, NoBinary, world, manager
<1>2. PICK st \in {"ok", "err"} : req' = Settle(req, {r}, st)
  BY DEF Answer, CallDisposed, NoBinary
<1>3. faults' \in 0..MaxFaults
  BY BoundAssumption DEF Answer, CallDisposed, NoBinary, IInv, Shape
<1> QED
  BY <1>1, <1>2, <1>3, SettledKeeps

LEMMA CallClientKeeps ==
  ASSUME IInv, NEW r \in Reqs, CallClient(r)
  PROVE  IInv'
<1> DEFINE v == IF conn[client].st = "closed" THEN [req[r] EXCEPT !.st = "err"]
                ELSE [st |-> "pending", conn |-> client]
<1>1. UNCHANGED <<proc, termed, exitCode, unreaped, endpoint, policy, child, client, start, disposed,
                  closing, conn, faults>>
  BY DEF CallClient, world, manager
<1>2. client # None /\ req' = [req EXCEPT ![r] = v]
  BY DEF CallClient
<1>3. Shape /\ req[r] \in ReqRow /\ client \in Pids
  BY <1>2 DEF IInv, Shape
<1>4. conn[client].st # "none" /\ ~Starting
  BY <1>2 DEF IInv, ClientFits, StartFits
<1>5. v \in ReqRow /\ (v.st = "pending" => v.conn = client /\ conn[client].st # "closed") /\ v.st # "waiting"
  BY <1>3 DEF ReqRow
<1> HIDE DEF v
<1>6. req' \in [Reqs -> ReqRow] /\ req'[r] = v /\ \A q \in Reqs \ {r} : req'[q] = req[q]
  BY <1>2, <1>3, <1>5 DEF Shape
<1>7. StartPid(start) = None
  BY <1>4 DEF StartPid, Starting
<1>8. ReqFits(v, start, conn)
  BY <1>3, <1>4, <1>5, <1>7, Constants DEF ReqFits
<1>9. ReqsFit'
  BY <1>1, <1>6, <1>8 DEF IInv, ReqsFit
<1> QED
  BY <1>1, <1>3, <1>6, <1>9, ReqStep DEF Shape

LEMMA CallWaitsKeeps ==
  ASSUME IInv, NEW r \in Reqs, CallWaits(r)
  PROVE  IInv'
<1>1. UNCHANGED <<proc, termed, exitCode, unreaped, endpoint, policy, child, client, start, disposed,
                  closing, conn, faults>>
  BY DEF CallWaits, world, manager
<1>2. Starting /\ req' = Settle(req, {r}, "waiting")
  BY DEF CallWaits
<1>3. Shape
  BY DEF IInv
<1>4. /\ req' \in [Reqs -> ReqRow]
      /\ \A q \in Reqs : IF q \in {r} THEN req'[q].st = "waiting" ELSE req'[q] = req[q]
  BY <1>2, <1>3, SettleTypes
<1>5. ReqsFit'
  BY <1>1, <1>2, <1>4 DEF IInv, ReqsFit, ReqFits, Starting
<1> QED
  BY <1>1, <1>3, <1>4, <1>5, ReqStep DEF Shape

(* The caller that finds neither a client nor a start spawns a process. *)
LEMMA CallStartsKeeps ==
  ASSUME IInv, NEW r \in Reqs, CallStarts(r)
  PROVE  IInv'
<1>1. ~disposed /\ client = None /\ ~Starting
  BY DEF CallStarts
<1>2. PICK p \in Pids :
        /\ proc[p] = "none" /\ proc' = [proc EXCEPT ![p] = "boot"] /\ endpoint' = None /\ child' = p
        /\ start' = [pc |-> "wait", pid |-> p, left |-> Flags]
        /\ req' = Settle(req, {r}, "waiting")
        /\ UNCHANGED <<termed, exitCode, unreaped, policy, client, disposed, closing, conn, faults>>
  BY DEF CallStarts, StartDaemon
<1>3. Shape
  BY DEF IInv
<1>4. /\ proc' \in [Pids -> {"none", "dead"} \cup Live] /\ proc'[p] = "boot"
      /\ \A q \in Pids \ {p} : proc'[q] = proc[q]
  BY <1>2, <1>3 DEF Shape, Live, Unguarded
<1>5. /\ req' \in [Reqs -> ReqRow]
      /\ \A q \in Reqs : IF q \in {r} THEN req'[q].st = "waiting" ELSE req'[q] = req[q]
  BY <1>2, <1>3, SettleTypes
<1>6. start' \in StartRow /\ start'.pc = "wait" /\ start'.pid = p /\ start'.left = Flags
  BY <1>2, FlagsAssumption DEF StartRow, Gated
<1>7. StartPid(start) = None /\ StartPid(start') = p
  BY <1>1, <1>6 DEF Starting, StartPid
<1>8. Shape'
  BY <1>2, <1>3, <1>4, <1>5, <1>6 DEF Shape
<1>9. p \notin termed /\ p \notin exitCode \cup unreaped /\ conn[p].st = "none"
  <2>1. ProcFits(p, proc[p], termed, exitCode, unreaped) /\ ConnFits(p, conn[p], proc[p])
    BY DEF IInv, ProcsFit, ConnsFit
  <2> QED
    BY <1>2, <2>1 DEF ProcFits, ConnFits
<1>10. ProcsFit'
  <2> SUFFICES ASSUME NEW q \in Pids PROVE ProcFits(q, proc'[q], termed, exitCode, unreaped)
    BY <1>2 DEF ProcsFit
  <2>1. ProcFits(q, proc[q], termed, exitCode, unreaped)
    BY DEF IInv, ProcsFit
  <2> QED
    BY <1>4, <1>9, <2>1 DEF ProcFits
<1>11. Attended'
  <2> SUFFICES ASSUME NEW q \in Pids, proc'[q] \in Startable, q \notin termed PROVE q = p
    BY <1>2, <1>7 DEF Attended, AttendedFits
  <2>1. SUFFICES ASSUME q # p PROVE FALSE
    OBVIOUS
  <2>2. proc[q] \in Startable
    BY <1>4, <2>1
  <2>3. AttendedFits(q, proc[q], termed, child, StartPid(start), client)
    BY DEF IInv, Attended
  <2> QED
    BY <1>1, <1>7, <2>2, <2>3, Constants DEF AttendedFits
<1>12. ChildFits'
  BY <1>1, <1>2, <1>4 DEF ChildFits
<1>13. ConnsFit'
  <2> SUFFICES ASSUME NEW k \in Pids PROVE ConnFits(k, conn[k], proc'[k])
    BY <1>2 DEF ConnsFit
  <2>1. ConnFits(k, conn[k], proc[k])
    BY DEF IInv, ConnsFit
  <2> QED
    BY <1>4, <1>9, <2>1 DEF ConnFits
<1>14. StartFits'
  BY <1>1, <1>2, <1>3, <1>4, <1>6 DEF StartFits, Shape, Gated
<1>15. ClientFits'
  BY <1>1, <1>2 DEF ClientFits
<1>16. ReqsFit'
  <2> SUFFICES ASSUME NEW q \in Reqs PROVE ReqFits(req'[q], start', conn)
    BY <1>2 DEF ReqsFit
  <2>1. ReqFits(req[q], start, conn)
    BY DEF IInv, ReqsFit
  <2>2. CASE q = r
    BY <1>5, <1>6, <2>2 DEF ReqFits
  <2>3. CASE q # r
    <3>1. req'[q] = req[q]
      BY <1>5, <2>3
    <3> QED
      BY <1>6, <1>7, <1>9, <2>1, <3>1 DEF ReqFits
  <2> QED
    BY <2>2, <2>3
<1> QED
  BY <1>8, <1>10, <1>11, <1>12, <1>13, <1>14, <1>15, <1>16 DEF IInv

LEMMA SignalMoves ==
  ASSUME IInv, NEW ps, ps \subseteq Pids, \A p \in ps : proc[p] # "none", Signal(ps), exitCode' = exitCode
  PROVE  /\ proc' \in [Pids -> {"none", "dead"} \cup Live] /\ ProcMoves(proc, proc')
         /\ termed' = termed \cup ps /\ termed' \subseteq Pids /\ unreaped' \subseteq Pids
         /\ ProcsFit'
<1>1. /\ termed' = termed \cup ps
      /\ proc' = [p \in Pids |-> IF p \in ps /\ proc[p] \in Unguarded THEN "dead" ELSE proc[p]]
      /\ unreaped' = unreaped \cup {p \in ps : proc[p] \in Unguarded}
  BY DEF Signal
<1>2. Shape
  BY DEF IInv
<1>3. \A p \in Pids : proc'[p] = IF p \in ps /\ proc[p] \in Unguarded THEN "dead" ELSE proc[p]
  BY <1>1
<1>4. proc' \in [Pids -> {"none", "dead"} \cup Live]
  BY <1>1, <1>2 DEF Shape
<1>5. ProcMoves(proc, proc')
  BY <1>3, Constants DEF ProcMoves
<1>6. termed' \subseteq Pids /\ unreaped' \subseteq Pids
  BY <1>1, <1>2 DEF Shape
<1>7. ASSUME NEW p \in Pids PROVE ProcFits(p, proc'[p], termed', exitCode, unreaped')
  <2>1. ProcFits(p, proc[p], termed, exitCode, unreaped)
    BY DEF IInv, ProcsFit
  <2>2. p \in ps => proc[p] # "none"
    OBVIOUS
  <2>3. p \in termed' => p \in termed \/ p \in ps
    BY <1>1
  <2>4. p \in unreaped' => p \in unreaped \/ (p \in ps /\ proc[p] \in Unguarded)
    BY <1>1
  <2>5. proc'[p] = IF p \in ps /\ proc[p] \in Unguarded THEN "dead" ELSE proc[p]
    BY <1>3
  <2> QED
    BY <2>1, <2>2, <2>3, <2>4, <2>5, Constants DEF ProcFits
<1> QED
  BY <1>1, <1>4, <1>5, <1>6, <1>7 DEF ProcsFit

(***************************************************************************)
(* The start.                                                              *)
(***************************************************************************)

LEMMA IdleFits == Idle \in StartRow /\ Idle.pc = "idle" /\ StartPid(Idle) = None
BY DEF Idle, StartRow, StartPid

(* A start that fails leaves no process behind that it does not signal, and no
   caller waiting. *)
LEMMA StartFailsKeeps ==
  ASSUME IInv, Starting, StartFails, UNCHANGED <<exitCode, endpoint, policy, client, disposed, closing>>,
         faults' \in 0..MaxFaults, conn' \in [Pids -> ConnRow], ConnMoves(conn, conn'),
         \A k \in Pids \ {start.pid} : conn'[k].st = "closed" => conn[k].st = "closed"
  PROVE  IInv'
<1> DEFINE p == start.pid
<1>1. /\ child' = IF child = p THEN None ELSE child
      /\ start' = Idle /\ req' = Settle(req, Awaiting, "err") /\ Signal({p} \ exitCode)
  BY DEF StartFails
<1>2. /\ Shape /\ p \in Pids /\ proc[p] # "none" /\ client = None
  BY DEF IInv, StartFits
<1>3. /\ proc' \in [Pids -> {"none", "dead"} \cup Live] /\ ProcMoves(proc, proc')
      /\ termed' = termed \cup ({p} \ exitCode) /\ termed' \subseteq Pids /\ unreaped' \subseteq Pids
      /\ ProcsFit'
  BY <1>1, <1>2, SignalMoves
<1>4. /\ req' \in [Reqs -> ReqRow]
      /\ \A r \in Reqs : IF r \in Awaiting THEN req'[r].st = "err" ELSE req'[r] = req[r]
  BY <1>1, <1>2, SettleTypes
<1>5. Shape'
  BY <1>1, <1>2, <1>3, <1>4, IdleFits DEF Shape
<1>6. Attended'
  <2> SUFFICES ASSUME NEW q \in Pids, proc'[q] \in Startable, q \notin termed' PROVE FALSE
    BY DEF Attended, AttendedFits
  <2>1. proc[q] \in Startable /\ q \notin termed
    BY <1>3 DEF ProcMoves
  <2>2. AttendedFits(q, proc[q], termed, child, StartPid(start), client)
    BY DEF IInv, Attended
  <2>3. q = p
    BY <1>2, <2>1, <2>2, Constants DEF AttendedFits, StartPid, Starting
  <2>4. q \in exitCode
    BY <1>3, <2>3
  <2>5. ProcFits(q, proc[q], termed, exitCode, unreaped)
    BY DEF IInv, ProcsFit
  <2> QED
    BY <2>1, <2>4, <2>5, Constants DEF ProcFits
<1>7. child' \in {child, None}
  BY <1>1
<1>8. ChildFits' /\ ConnsFit'
  BY <1>2, <1>3, <1>7, ChildKept, ConnsKept DEF IInv
<1>9. StartFits' /\ ClientFits'
  BY <1>1, <1>2, IdleFits DEF StartFits, ClientFits, Starting
<1>10. ReqsFit'
  <2> SUFFICES ASSUME NEW r \in Reqs PROVE ReqFits(req'[r], Idle, conn')
    BY <1>1 DEF ReqsFit
  <2>1. ReqFits(req[r], start, conn)
    BY DEF IInv, ReqsFit
  <2>2. CASE r \in Awaiting
    BY <1>4, <2>2 DEF ReqFits
  <2>3. CASE r \notin Awaiting
    <3>1. req'[r] = req[r] /\ req[r].st # "waiting"
      BY <1>4, <2>3 DEF Awaiting
    <3>2. req[r].st = "pending" => req[r].conn \in Pids \ {p} /\ conn[req[r].conn].st \notin {"none", "closed"}
      BY <2>1 DEF ReqFits, StartPid, Starting
    <3>3. req[r].st = "pending" => conn'[req[r].conn].st \notin {"none", "closed"}
      BY <3>2 DEF ConnMoves
    <3> QED
      BY <3>1, <3>2, <3>3, IdleFits, Constants DEF ReqFits
  <2> QED
    BY <2>2, <2>3
<1> QED
  BY <1>3, <1>5, <1>6, <1>8, <1>9, <1>10 DEF IInv

(* A start without its connection, or over with it. *)
LEMMA NoConnChange ==
  ASSUME IInv, conn' = conn
  PROVE  /\ conn' \in [Pids -> ConnRow] /\ ConnMoves(conn, conn')
         /\ \A k \in Pids : conn'[k].st = "closed" => conn[k].st = "closed"
BY Same DEF IInv, Shape

LEMMA WaitFailsKeeps ==
  ASSUME IInv, WaitFails \/ PolicyFails
  PROVE  IInv'
<1>1. /\ Starting /\ StartFails
      /\ UNCHANGED <<exitCode, endpoint, policy, client, disposed, closing, conn>>
  BY DEF WaitFails, PolicyFails, Starting
<1>2. faults' \in 0..MaxFaults
  BY BoundAssumption DEF WaitFails, PolicyFails, IInv, Shape
<1> QED
  BY <1>1, <1>2, NoConnChange, StartFailsKeeps

(* The endpoint it reads is its own process's, which serves or is gone. *)
LEMMA ReadEndpointKeeps ==
  ASSUME IInv, ReadEndpoint
  PROVE  IInv'
<1> DEFINE p == start.pid
           c == [st |-> "handshake", peer |-> endpoint]
<1>1. start.pc = "wait" /\ endpoint # None /\ Starting
  BY DEF ReadEndpoint, Starting
<1>2. /\ Shape /\ p \in Pids /\ proc[p] # "none" /\ client = None /\ endpoint = p
      /\ ~disposed /\ proc[p] # "dead" => child = p
      /\ policy \subseteq {start.left[i] : i \in DOMAIN start.left}
  BY <1>1 DEF IInv, StartFits
<1>3. CASE proc[endpoint] \notin Serving
  <2>1. StartFails /\ UNCHANGED <<exitCode, endpoint, policy, client, disposed, closing, conn, faults>>
    BY <1>3 DEF ReadEndpoint
  <2>2. faults' \in 0..MaxFaults
    BY <1>2, <2>1 DEF Shape
  <2> QED
    BY <1>1, <2>1, <2>2, NoConnChange, StartFailsKeeps
<1>4. CASE proc[endpoint] \in Serving
  <2>1. /\ start' = [start EXCEPT !.pc = "connect"] /\ conn' = [conn EXCEPT ![p] = c]
        /\ UNCHANGED <<proc, termed, exitCode, unreaped, endpoint, policy, child, client, disposed, closing,
                       req, faults>>
    BY <1>4 DEF ReadEndpoint, world
  <2>2. start \in StartRow
    BY <1>2 DEF Shape
  <2>3. start' \in StartRow /\ start'.pc = "connect" /\ start'.pid = p /\ start'.left = start.left
    BY <2>1, <2>2 DEF StartRow
  <2>4. c \in ConnRow /\ c.st = "handshake" /\ c.peer = p
    BY <1>2 DEF ConnRow
  <2> HIDE DEF c
  <2>5. conn' \in [Pids -> ConnRow] /\ conn'[p] = c /\ \A k \in Pids \ {p} : conn'[k] = conn[k]
    BY <1>2, <2>1, <2>4 DEF Shape
  <2>6. Shape'
    BY <1>2, <2>1, <2>3, <2>5 DEF Shape
  <2>7. StartPid(start') = p /\ StartPid(start) = p
    BY <1>1, <2>3 DEF StartPid
  <2>8. ProcsFit' /\ Attended' /\ ChildFits'
    BY <2>1, <2>7, Same, AttendedKept DEF IInv, ProcsFit, ChildFits
  <2>9. ConnsFit'
    <3> SUFFICES ASSUME NEW k \in Pids PROVE ConnFits(k, conn'[k], proc[k])
      BY <2>1 DEF ConnsFit
    <3>1. ConnFits(k, conn[k], proc[k])
      BY DEF IInv, ConnsFit
    <3>2. proc[p] \notin Unguarded \cup {"none"}
      BY <1>2, <1>4 DEF Serving, Unguarded
    <3> QED
      BY <2>4, <2>5, <3>1, <3>2 DEF ConnFits
  <2>10. StartFits'
    BY <1>2, <2>1, <2>3, <2>4, <2>5 DEF StartFits
  <2>11. ClientFits'
    BY <1>2, <2>1 DEF ClientFits
  <2>12. ReqsFit'
    <3> SUFFICES ASSUME NEW r \in Reqs PROVE ReqFits(req[r], start', conn')
      BY <2>1 DEF ReqsFit
    <3>1. ReqFits(req[r], start, conn)
      BY DEF IInv, ReqsFit
    <3>2. req[r].st = "pending" => req[r].conn # p
      BY <2>7, <3>1 DEF ReqFits
    <3> QED
      BY <2>3, <2>5, <2>7, <3>1, <3>2 DEF ReqFits
  <2> QED
    BY <2>6, <2>8, <2>9, <2>10, <2>11, <2>12 DEF IInv
<1> QED
  BY <1>3, <1>4

(* The start goes on with the next feature, or hands its client out: then no
   feature is left that is on, and its process is the child. *)
LEMMA ProceedKeeps ==
  ASSUME IInv, Starting, NEW left \in Seq(Gated), Proceed(left),
         UNCHANGED <<proc, termed, exitCode, unreaped, endpoint, child, disposed, closing, faults>>,
         policy' \subseteq policy, policy' \subseteq {left[i] : i \in DOMAIN left},
         conn' \in [Pids -> ConnRow], ConnMoves(conn, conn'), conn'[start.pid].st = "open",
         \A k \in Pids : conn'[k].st = "closed" => conn[k].st = "closed",
         proc[start.pid] # "dead"
  PROVE  IInv'
<1> DEFINE p == start.pid
<1>1. /\ Shape /\ p \in Pids /\ proc[p] # "none" /\ client = None
      /\ ~disposed => child = p
  BY DEF IInv, StartFits
<1>2. StartPid(start) = p
  BY DEF StartPid, Starting
<1>3. policy' \subseteq Gated
  BY <1>1 DEF Shape
<1>4. ProcsFit' /\ ChildFits' /\ ConnsFit'
  BY Same, ConnsKept DEF IInv, ProcsFit, ChildFits
<1>5. CASE left # <<>>
  <2> DEFINE s == [start EXCEPT !.pc = "get", !.left = left]
  <2>1. start' = s /\ client' = client /\ req' = req
    BY <1>5 DEF Proceed
  <2>2. s \in StartRow /\ s.pc = "get" /\ s.pid = p /\ s.left = left
    BY <1>1 DEF Shape, StartRow
  <2> HIDE DEF s
  <2>3. Shape'
    BY <1>1, <1>3, <2>1, <2>2 DEF Shape
  <2>4. StartPid(start') = p
    BY <2>1, <2>2 DEF StartPid
  <2>5. Attended'
    BY <1>2, <2>1, <2>4, Same, AttendedKept DEF IInv
  <2>6. StartFits' /\ ClientFits'
    BY <1>1, <1>5, <2>1, <2>2 DEF StartFits, ClientFits
  <2>7. ReqsFit'
    <3> SUFFICES ASSUME NEW r \in Reqs PROVE ReqFits(req[r], s, conn')
      BY <2>1 DEF ReqsFit
    <3>1. ReqFits(req[r], start, conn)
      BY DEF IInv, ReqsFit
    <3> QED
      BY <1>2, <2>1, <2>2, <2>4, <3>1 DEF ReqFits, ConnMoves
  <2> QED
    BY <1>4, <2>3, <2>5, <2>6, <2>7 DEF IInv
<1>6. CASE left = <<>>
  <2> DEFINE v == [st |-> "pending", conn |-> p]
  <2>1. /\ client' = p /\ start' = Idle
        /\ req' = [r \in Reqs |-> IF r \in Awaiting THEN v ELSE req[r]]
    BY <1>6 DEF Proceed
  <2>2. v \in ReqRow /\ v.st = "pending" /\ v.conn = p
    BY <1>1 DEF ReqRow
  <2> HIDE DEF v
  <2>3. req' \in [Reqs -> ReqRow]
    BY <1>1, <2>1, <2>2 DEF Shape
  <2>4. Shape'
    BY <1>1, <1>3, <2>1, <2>3, IdleFits DEF Shape
  <2>5. policy' = {}
    BY <1>6
  <2>6. Attended'
    BY <1>1, <1>2, <2>1, Constants DEF IInv, Attended, AttendedFits
  <2>7. StartFits'
    BY <2>1, IdleFits DEF StartFits, Starting
  <2>8. ClientFits'
    BY <1>1, <2>1, <2>5 DEF ClientFits
  <2>9. ReqsFit'
    <3> SUFFICES ASSUME NEW r \in Reqs PROVE ReqFits(req'[r], Idle, conn')
      BY <2>1 DEF ReqsFit
    <3>1. ReqFits(req[r], start, conn)
      BY DEF IInv, ReqsFit
    <3>2. CASE r \in Awaiting
      BY <1>1, <2>1, <2>2, <3>2, IdleFits, Constants DEF ReqFits
    <3>3. CASE r \notin Awaiting
      <4>1. req'[r] = req[r] /\ req[r].st # "waiting"
        BY <2>1, <3>3 DEF Awaiting
      <4> QED
        BY <3>1, <4>1, IdleFits, Constants DEF ReqFits, ConnMoves
    <3> QED
      BY <3>2, <3>3
  <2> QED
    BY <1>4, <2>4, <2>6, <2>7, <2>8, <2>9 DEF IInv
<1> QED
  BY <1>5, <1>6

(* What is left after the head of the list. *)
LEMMA TailFits ==
  ASSUME NEW left \in Seq(Gated), left # <<>>, NEW pol, pol \subseteq {left[i] : i \in DOMAIN left},
         Head(left) \notin pol
  PROVE  Tail(left) \in Seq(Gated) /\ pol \subseteq {Tail(left)[i] : i \in DOMAIN Tail(left)}
<1>1. Tail(left) \in Seq(Gated) /\ Len(Tail(left)) = Len(left) - 1 /\ DOMAIN Tail(left) = 1..Len(Tail(left))
  OBVIOUS
<1>2. \A i \in 1..Len(Tail(left)) : Tail(left)[i] = left[i + 1]
  OBVIOUS
<1>3. ASSUME NEW x \in pol PROVE \E i \in DOMAIN Tail(left) : Tail(left)[i] = x
  <2>1. PICK i \in 1..Len(left) : left[i] = x
    OBVIOUS
  <2>2. i # 1
    BY <2>1
  <2>3. i - 1 \in 1..Len(Tail(left)) /\ (i - 1) + 1 = i
    BY <1>1, <2>1, <2>2
  <2> QED
    BY <1>1, <1>2, <2>1, <2>3
<1> QED
  BY <1>1, <1>3

(* A start that has come as far as its connection. *)
LEMMA StartFacts ==
  ASSUME IInv, Starting, start.pc # "wait"
  PROVE  /\ start.pid \in Pids /\ conn[start.pid].st # "none" /\ conn[start.pid].peer = start.pid
         /\ start.left \in Seq(Gated) /\ client = None
         /\ start.pc # "hung" => policy \subseteq {start.left[i] : i \in DOMAIN start.left}
<1>1. /\ start.pid \in Pids /\ conn[start.pid].st # "none" /\ client = None
      /\ start.pc # "hung" => policy \subseteq {start.left[i] : i \in DOMAIN start.left}
  BY DEF IInv, StartFits
<1>2. ConnFits(start.pid, conn[start.pid], proc[start.pid])
  BY <1>1 DEF IInv, ConnsFit
<1>3. start.left \in Seq(Gated)
  BY DEF IInv, Shape, StartRow
<1> QED
  BY <1>1, <1>2, <1>3 DEF ConnFits

LEMMA HandshakeKeeps ==
  ASSUME IInv, Handshake
  PROVE  IInv'
<1> DEFINE p == start.pid
<1>1. /\ start.pc = "connect" /\ conn[p].st = "handshake" /\ proc[conn[p].peer] \in Serving \cup {"closing"}
      /\ conn' = [conn EXCEPT ![p].st = "open"] /\ Proceed(start.left)
  BY DEF Handshake
<1>2. UNCHANGED <<proc, termed, exitCode, unreaped, endpoint, policy, child, disposed, closing, faults>>
  BY DEF Handshake, world
<1>3. Starting /\ start.pc # "wait" /\ start.pc # "hung"
  BY <1>1 DEF Starting
<1>4. /\ p \in Pids /\ conn[p].peer = p /\ start.left \in Seq(Gated)
      /\ policy \subseteq {start.left[i] : i \in DOMAIN start.left}
  BY <1>3, StartFacts
<1>5. proc[p] # "dead"
  BY <1>1, <1>4, Constants
<1>6. /\ conn' \in [Pids -> ConnRow] /\ ConnMoves(conn, conn') /\ conn'[p].st = "open"
      /\ \A j \in Pids \ {p} : conn'[j] = conn[j]
  BY <1>1, <1>4, OneConn DEF IInv
<1>7. \A k \in Pids : conn'[k].st = "closed" => conn[k].st = "closed"
  BY <1>6
<1> QED
  BY <1>1, <1>2, <1>3, <1>4, <1>5, <1>6, <1>7, ProceedKeeps

LEMMA HandshakeFailsKeeps ==
  ASSUME IInv, HandshakeFails
  PROVE  IInv'
<1> DEFINE p == start.pid
<1>1. /\ start.pc = "connect" /\ conn[p].st = "cut" /\ conn' = [conn EXCEPT ![p].st = "closed"]
      /\ StartFails
      /\ UNCHANGED <<exitCode, endpoint, policy, client, disposed, closing, faults>>
  BY DEF HandshakeFails
<1>2. Starting /\ start.pc # "wait"
  BY <1>1 DEF Starting
<1>3. p \in Pids
  BY <1>2, StartFacts
<1>4. /\ conn' \in [Pids -> ConnRow] /\ ConnMoves(conn, conn')
      /\ \A j \in Pids \ {p} : conn'[j] = conn[j]
  BY <1>1, <1>3, OneConn DEF IInv
<1>5. faults' \in 0..MaxFaults
  BY <1>1 DEF IInv, Shape
<1> QED
  BY <1>1, <1>2, <1>4, <1>5, StartFailsKeeps

(* A start that hangs keeps its process as the child. *)
LEMMA HandshakeHangsKeeps ==
  ASSUME IInv, HandshakeHangs
  PROVE  IInv'
<1> DEFINE p == start.pid
           s == [start EXCEPT !.pc = "hung"]
<1>1. /\ start.pc = "connect" /\ conn[p].st = "cut" /\ conn' = [conn EXCEPT ![p].st = "closed"]
      /\ start' = s
  BY DEF HandshakeHangs
<1>2. UNCHANGED <<proc, termed, exitCode, unreaped, endpoint, policy, child, client, disposed, closing,
                  req, faults>>
  BY DEF HandshakeHangs, world
<1>3. Starting /\ start.pc # "wait" /\ Shape
  BY <1>1 DEF Starting, IInv
<1>4. p \in Pids
  BY <1>3, StartFacts
<1>5. /\ conn' \in [Pids -> ConnRow] /\ ConnMoves(conn, conn') /\ conn'[p].st = "closed"
      /\ \A j \in Pids \ {p} : conn'[j] = conn[j]
  BY <1>1, <1>3, <1>4, OneConn
<1>6. s \in StartRow /\ s.pc = "hung" /\ s.pid = p /\ s.left = start.left
  BY <1>3 DEF Shape, StartRow
<1> HIDE DEF s
<1>7. Shape'
  BY <1>1, <1>2, <1>3, <1>5, <1>6 DEF Shape
<1>8. StartPid(start') = p /\ StartPid(start) = p
  BY <1>1, <1>3, <1>6 DEF StartPid, Starting
<1>9. ProcsFit' /\ Attended' /\ ChildFits' /\ ConnsFit'
  BY <1>2, <1>5, <1>8, Same, AttendedKept, ConnsKept DEF IInv, ProcsFit, ChildFits
<1>10. StartFits'
  BY <1>1, <1>2, <1>3, <1>5, <1>6 DEF IInv, StartFits
<1>11. ClientFits'
  BY <1>2, <1>3, StartFacts DEF ClientFits
<1>12. ReqsFit'
  <2> SUFFICES ASSUME NEW r \in Reqs PROVE ReqFits(req[r], s, conn')
    BY <1>1, <1>2 DEF ReqsFit
  <2>1. ReqFits(req[r], start, conn)
    BY DEF IInv, ReqsFit
  <2> QED
    BY <1>1, <1>5, <1>6, <1>8, <2>1 DEF ReqFits
<1> QED
  BY <1>7, <1>9, <1>10, <1>11, <1>12 DEF IInv

LEMMA PolicyKeeps ==
  ASSUME IInv, GetPolicy \/ SetPolicy
  PROVE  IInv'
<1> DEFINE p == start.pid
           left == start.left
<1>1. /\ start.pc \in {"get", "set"} /\ conn[p].st = "open" /\ proc[conn[p].peer] \in Serving \cup {"closing"}
  BY DEF GetPolicy, SetPolicy, Reached
<1>2. UNCHANGED <<proc, termed, exitCode, unreaped, endpoint, child, disposed, closing, conn, faults>>
  BY DEF GetPolicy, SetPolicy, world
<1>3. Starting /\ start.pc # "wait" /\ start.pc # "hung" /\ Shape
  BY <1>1 DEF Starting, IInv
<1>4. /\ p \in Pids /\ conn[p].peer = p /\ left \in Seq(Gated) /\ client = None
      /\ policy \subseteq {left[i] : i \in DOMAIN left}
  BY <1>3, StartFacts
<1>5. proc[p] # "dead"
  BY <1>1, <1>4, Constants
<1>6. /\ conn' \in [Pids -> ConnRow] /\ ConnMoves(conn, conn')
      /\ \A k \in Pids : conn'[k].st = "closed" => conn[k].st = "closed"
  BY <1>2, NoConnChange
<1>7. ASSUME Proceed(Tail(left)), policy' \subseteq policy, Head(left) \notin policy', left # <<>>
      PROVE  IInv'
  <2>1. policy' \subseteq {left[i] : i \in DOMAIN left}
    BY <1>4, <1>7
  <2>2. Tail(left) \in Seq(Gated) /\ policy' \subseteq {Tail(left)[i] : i \in DOMAIN Tail(left)}
    BY <1>4, <1>7, <2>1, TailFits
  <2> QED
    BY <1>1, <1>2, <1>3, <1>5, <1>6, <1>7, <2>2, ProceedKeeps
<1>0. left # <<>>
  BY <1>1, <1>3 DEF IInv, StartFits
<1>8. CASE GetPolicy /\ Head(left) \in policy
  <2> DEFINE s == [start EXCEPT !.pc = "set"]
  <2>1. start' = s /\ client' = client /\ req' = req /\ policy' = policy
    BY <1>8 DEF GetPolicy, world
  <2>2. s \in StartRow /\ s.pc = "set" /\ s.pid = p /\ s.left = left
    BY <1>3 DEF Shape, StartRow
  <2> HIDE DEF s
  <2>3. StartPid(start') = p /\ StartPid(start) = p
    BY <1>3, <2>1, <2>2 DEF StartPid, Starting
  <2>4. Shape'
    BY <1>2, <1>3, <2>1, <2>2 DEF Shape
  <2>5. ProcsFit' /\ Attended' /\ ChildFits' /\ ConnsFit'
    BY <1>2, <2>1, <2>3, Same, AttendedKept, ConnsKept DEF IInv, ProcsFit, ChildFits
  <2>6. StartFits'
    BY <1>0, <1>2, <1>3, <1>4, <2>1, <2>2 DEF IInv, StartFits
  <2>7. ClientFits'
    BY <1>4, <2>1 DEF ClientFits
  <2>8. ReqsFit'
    <3> SUFFICES ASSUME NEW r \in Reqs PROVE ReqFits(req[r], s, conn)
      BY <1>2, <2>1 DEF ReqsFit
    <3>1. ReqFits(req[r], start, conn)
      BY DEF IInv, ReqsFit
    <3> QED
      BY <2>1, <2>2, <2>3, <3>1 DEF ReqFits
  <2> QED
    BY <2>4, <2>5, <2>6, <2>7, <2>8 DEF IInv
<1>9. CASE ~(GetPolicy /\ Head(left) \in policy)
  <2>1. CASE GetPolicy /\ Head(left) \notin policy
    BY <1>0, <1>7, <2>1 DEF GetPolicy, world
  <2>2. CASE SetPolicy
    BY <1>0, <1>7, <2>2 DEF SetPolicy
  <2> QED
    BY <1>9, <2>1, <2>2
<1> QED
  BY <1>8, <1>9

(***************************************************************************)
(* The ends of connections and processes, and the dispose.                 *)
(***************************************************************************)

(* The process of a client whose connection ends was signalled or is dead. *)
LEMMA OrphanedFits ==
  ASSUME IInv, NEW k \in Pids
  PROVE  /\ Orphaned(k) \subseteq {k}
         /\ \A p \in Orphaned(k) : p \in Pids /\ proc[p] # "none"
         /\ proc[k] \in Startable /\ k \notin termed => k \in Orphaned(k) \/ child # k
<1>1. Orphaned(k) = IF ~disposed /\ child = k /\ k \notin exitCode THEN {k} ELSE {}
  BY DEF Orphaned
<1>2. child = k => proc[k] # "none" /\ ~disposed
  BY Constants DEF IInv, ChildFits
<1>3. k \in exitCode => proc[k] = "dead"
  BY DEF IInv, ProcsFit, ProcFits
<1> QED
  BY <1>1, <1>2, <1>3, Constants

LEMMA CloseEventKeeps ==
  ASSUME IInv, NEW k \in Pids, CloseEvent(k)
  PROVE  IInv'
<1>1. /\ conn[k].st = "broken" /\ conn' = [conn EXCEPT ![k].st = "closed"]
      /\ client' = IF client = k THEN None ELSE client
      /\ UNCHANGED <<exitCode, endpoint, policy, disposed, closing, faults>>
  BY DEF CloseEvent
<1>2. Shape
  BY DEF IInv
<1>3. /\ conn' \in [Pids -> ConnRow] /\ ConnMoves(conn, conn') /\ conn'[k].st = "closed"
      /\ \A j \in Pids \ {k} : conn'[j] = conn[j]
  BY <1>1, <1>2, OneConn
<1>4. CASE InStart(k)
  <2>1. StartFails /\ Starting /\ start.pid = k
    BY <1>4 DEF CloseEvent, InStart, Starting
  <2>2. client' = client
    BY <1>1, <2>1 DEF IInv, StartFits
  <2>3. faults' \in 0..MaxFaults
    BY <1>1, <1>2 DEF Shape
  <2> QED
    BY <1>1, <1>3, <2>1, <2>2, <2>3, StartFailsKeeps
<1>5. CASE ~InStart(k)
  <2>1. Signal(Orphaned(k)) /\ req' = Settle(req, Unsettled(k), "err") /\ child' = child /\ start' = start
    BY <1>5 DEF CloseEvent
  <2>2. /\ Orphaned(k) \subseteq {k}
        /\ \A p \in Orphaned(k) : p \in Pids /\ proc[p] # "none"
        /\ proc[k] \in Startable /\ k \notin termed => k \in Orphaned(k) \/ child # k
    BY OrphanedFits
  <2>3. /\ proc' \in [Pids -> {"none", "dead"} \cup Live] /\ ProcMoves(proc, proc')
        /\ termed' = termed \cup Orphaned(k) /\ termed' \subseteq Pids /\ unreaped' \subseteq Pids
        /\ ProcsFit'
    BY <1>1, <2>1, <2>2, SignalMoves
  <2>4. /\ req' \in [Reqs -> ReqRow]
        /\ \A r \in Reqs : IF r \in Unsettled(k) THEN req'[r].st = "err" ELSE req'[r] = req[r]
    BY <1>2, <2>1, SettleTypes
  <2>5. Shape'
    BY <1>1, <1>2, <1>3, <2>1, <2>3, <2>4 DEF Shape
  <2>6. Attended'
    <3> SUFFICES ASSUME NEW p \in Pids, proc'[p] \in Startable, p \notin termed'
                 PROVE  child = p /\ (StartPid(start) = p \/ client' = p)
      BY <2>1 DEF Attended, AttendedFits
    <3>1. proc[p] \in Startable /\ p \notin termed
      BY <2>3 DEF ProcMoves
    <3>2. child = p /\ (StartPid(start) = p \/ client = p)
      BY <3>1 DEF IInv, Attended, AttendedFits
    <3>3. p # k
      BY <2>2, <2>3, <3>1, <3>2
    <3> QED
      BY <1>1, <3>2, <3>3
  <2>7. ChildFits' /\ ConnsFit'
    BY <1>1, <1>2, <1>3, <2>1, <2>3, ChildKept, ConnsKept DEF IInv
  <2>8. StartFits'
    <3>1. CASE client' = client
      BY <1>1, <1>2, <1>3, <2>1, <2>3, <3>1, StartKept DEF IInv
    <3>2. CASE client' # client
      <4>1. ~Starting
        BY <1>1, <3>2 DEF IInv, StartFits
      <4> QED
        BY <2>1, <4>1 DEF StartFits, Starting
    <3> QED
      BY <3>1, <3>2
  <2>9. client' \in {client, None}
    BY <1>1
  <2>10. ClientFits'
    BY <1>1, <1>2, <1>3, <2>1, <2>9, ClientKept DEF IInv
  <2>11. ReqsFit'
    <3> SUFFICES ASSUME NEW r \in Reqs PROVE ReqFits(req'[r], start, conn')
      BY <2>1 DEF ReqsFit
    <3>1. ReqFits(req[r], start, conn)
      BY DEF IInv, ReqsFit
    <3>2. CASE r \in Unsettled(k)
      BY <2>4, <3>2 DEF ReqFits
    <3>3. CASE r \notin Unsettled(k)
      <4>1. req'[r] = req[r] /\ (req[r].st = "pending" => req[r].conn # k)
        BY <2>4, <3>3 DEF Unsettled
      <4> QED
        BY <1>3, <3>1, <4>1 DEF ReqFits
    <3> QED
      BY <3>2, <3>3
  <2> QED
    BY <2>3, <2>5, <2>6, <2>7, <2>8, <2>10, <2>11 DEF IInv
<1> QED
  BY <1>4, <1>5

(* The client goes, and what was in flight on it is rejected. *)
LEMMA ClientGoes ==
  ASSUME IInv, start' = start,
         conn' = IF client = None THEN conn ELSE [conn EXCEPT ![client].st = "closed"],
         req' = IF client = None THEN req ELSE Settle(req, Unsettled(client), "err")
  PROVE  /\ conn' \in [Pids -> ConnRow] /\ ConnMoves(conn, conn')
         /\ req' \in [Reqs -> ReqRow] /\ ReqsFit'
<1>1. CASE client = None
  <2>1. req' = req /\ conn' = conn
    BY <1>1
  <2>2. ReqsFit'
    BY <2>1, Same, ReqsKept DEF IInv
  <2> QED
    BY <2>1, <2>2, Same DEF IInv, Shape
<1>2. CASE client # None
  <2>1. conn' = [conn EXCEPT ![client].st = "closed"] /\ req' = Settle(req, Unsettled(client), "err")
    BY <1>2
  <2>2. Shape /\ client \in Pids /\ conn[client].st # "none"
    BY <1>2 DEF IInv, Shape, ClientFits
  <2>3. /\ conn' \in [Pids -> ConnRow] /\ ConnMoves(conn, conn')
        /\ \A j \in Pids \ {client} : conn'[j] = conn[j]
    BY <2>1, <2>2, OneConn
  <2>4. /\ req' \in [Reqs -> ReqRow]
        /\ \A r \in Reqs : IF r \in Unsettled(client) THEN req'[r].st = "err" ELSE req'[r] = req[r]
    BY <2>1, <2>2, SettleTypes
  <2>5. ReqsFit'
    <3> SUFFICES ASSUME NEW r \in Reqs PROVE ReqFits(req'[r], start, conn')
      BY DEF ReqsFit
    <3>1. ReqFits(req[r], start, conn)
      BY DEF IInv, ReqsFit
    <3>2. CASE r \in Unsettled(client)
      BY <2>4, <3>2 DEF ReqFits
    <3>3. CASE r \notin Unsettled(client)
      <4>1. req'[r] = req[r] /\ (req[r].st = "pending" => req[r].conn # client)
        BY <2>4, <3>3 DEF Unsettled
      <4> QED
        BY <2>3, <3>1, <4>1 DEF ReqFits
    <3> QED
      BY <3>2, <3>3
  <2> QED
    BY <2>3, <2>4, <2>5
<1> QED
  BY <1>1, <1>2

LEMMA ExitEventKeeps ==
  ASSUME IInv, NEW p \in Pids, ExitEvent(p)
  PROVE  IInv'
<1> DEFINE ps == IF client = None THEN {} ELSE Orphaned(client) \ {p}
<1>1. /\ p \in unreaped /\ exitCode' \subseteq exitCode \cup {p} /\ termed' = termed \cup ps
      /\ unreaped' = unreaped \ {p} /\ client' = None
      /\ child' = IF child = p THEN None ELSE child
  BY DEF ExitEvent
<1>2. /\ conn' = IF client = None THEN conn ELSE [conn EXCEPT ![client].st = "closed"]
      /\ req' = IF client = None THEN req ELSE Settle(req, Unsettled(client), "err")
  BY DEF ExitEvent
<1>3. UNCHANGED <<proc, endpoint, policy, start, disposed, closing, faults>>
  BY DEF ExitEvent
<1>4. Shape /\ proc[p] = "dead"
  BY <1>1 DEF IInv, ProcsFit, ProcFits
<1>5. /\ conn' \in [Pids -> ConnRow] /\ ConnMoves(conn, conn')
      /\ req' \in [Reqs -> ReqRow] /\ ReqsFit'
  BY <1>2, <1>3, ClientGoes
<1>6. /\ ps \subseteq Pids /\ \A q \in ps : proc[q] \notin Unguarded \cup {"none"}
      /\ client # None /\ proc[client] \in Startable /\ client \notin termed /\ child = client => client \in ps
  <2>1. CASE client = None
    BY <2>1
  <2>2. CASE client # None
    <3>1. client \in Pids /\ conn[client].st # "none"
      BY <2>2 DEF IInv, Shape, ClientFits
    <3>2. ConnFits(client, conn[client], proc[client])
      BY <3>1 DEF IInv, ConnsFit
    <3>3. /\ Orphaned(client) \subseteq {client}
          /\ proc[client] \in Startable /\ client \notin termed => client \in Orphaned(client) \/ child # client
      BY <3>1, OrphanedFits
    <3>4. proc[client] \in Startable => client # p
      BY <1>4, Constants
    <3> QED
      BY <2>2, <3>1, <3>2, <3>3, <3>4 DEF ConnFits
  <2> QED
    BY <2>1, <2>2
<1> HIDE DEF ps
<1>7. Shape'
  BY <1>1, <1>3, <1>4, <1>5, <1>6 DEF Shape
<1>8. ProcsFit'
  BY <1>1, <1>3, <1>4, <1>6 DEF IInv, ProcsFit, ProcFits
<1>9. Attended'
  <2> SUFFICES ASSUME NEW q \in Pids, proc[q] \in Startable, q \notin termed'
               PROVE  child' = q /\ StartPid(start) = q
    BY <1>3 DEF Attended, AttendedFits
  <2>1. q \notin termed /\ q \notin ps /\ q # p
    BY <1>1, <1>4, Constants
  <2>2. child = q /\ (StartPid(start) = q \/ client = q)
    BY <2>1 DEF IInv, Attended, AttendedFits
  <2>3. client # q
    BY <1>6, <2>1, <2>2, Constants
  <2> QED
    BY <1>1, <2>1, <2>2, <2>3
<1>10. ProcMoves(proc, proc') /\ child' \in {child, None}
  BY <1>1, <1>3, Same
<1>11. ChildFits' /\ ConnsFit'
  BY <1>3, <1>4, <1>5, <1>10, ChildKept, ConnsKept DEF IInv
<1>12. StartFits'
  <2>1. CASE client = None
    <3>1. child' = child \/ (child' = None /\ proc[child] = "dead")
      BY <1>1, <1>4
    <3> QED
      BY <1>1, <1>3, <1>4, <1>5, <1>10, <2>1, <3>1, StartKept DEF IInv
  <2>2. CASE client # None
    <3>1. ~Starting
      BY <2>2 DEF IInv, StartFits
    <3> QED
      BY <1>3, <3>1 DEF StartFits, Starting
  <2> QED
    BY <2>1, <2>2
<1>13. ClientFits'
  BY <1>1 DEF ClientFits
<1> QED
  BY <1>5, <1>7, <1>8, <1>9, <1>11, <1>12, <1>13 DEF IInv

(* dispose: whatever the child is, it is signalled. *)
LEMMA DisposeKeeps ==
  ASSUME IInv, Dispose, UNCHANGED <<exitCode, endpoint, policy, start, faults>>
  PROVE  IInv'
<1>1. /\ disposed' = TRUE /\ closing' = "done" /\ client' = None /\ child' = None
      /\ conn' = IF client = None THEN conn ELSE [conn EXCEPT ![client].st = "closed"]
      /\ req' = IF client = None THEN req ELSE Settle(req, Unsettled(client), "err")
      /\ Signal({child} \ {None})
  BY DEF Dispose
<1>2. Shape
  BY DEF IInv
<1>3. /\ conn' \in [Pids -> ConnRow] /\ ConnMoves(conn, conn')
      /\ req' \in [Reqs -> ReqRow] /\ ReqsFit'
  BY <1>1, ClientGoes
<1>4. {child} \ {None} \subseteq Pids /\ \A p \in {child} \ {None} : proc[p] # "none"
  BY <1>2 DEF Shape, IInv, ChildFits
<1>5. /\ proc' \in [Pids -> {"none", "dead"} \cup Live] /\ ProcMoves(proc, proc')
      /\ termed' = termed \cup ({child} \ {None}) /\ termed' \subseteq Pids /\ unreaped' \subseteq Pids
      /\ ProcsFit'
  BY <1>1, <1>4, SignalMoves
<1>6. Shape'
  BY <1>1, <1>2, <1>3, <1>5 DEF Shape
<1>7. Attended'
  <2> SUFFICES ASSUME NEW q \in Pids, proc'[q] \in Startable, q \notin termed' PROVE FALSE
    BY DEF Attended, AttendedFits
  <2>1. proc[q] \in Startable /\ q \notin termed
    BY <1>5 DEF ProcMoves
  <2>2. child = q
    BY <2>1 DEF IInv, Attended, AttendedFits
  <2> QED
    BY <1>5, <2>2, Constants
<1>8. ChildFits' /\ ConnsFit'
  BY <1>1, <1>3, <1>5, ConnsKept DEF IInv, ChildFits
<1>9. StartFits'
  <2> SUFFICES ASSUME Starting PROVE StartFits'
    BY DEF StartFits, Starting
  <2>1. /\ start.pid \in Pids /\ proc[start.pid] # "none" /\ client = None
        /\ start.pc = "wait" /\ endpoint # None => endpoint = start.pid
        /\ start.pc # "wait" => conn[start.pid].st # "none"
        /\ start.pc \in {"get", "set"} => start.left # <<>>
        /\ start.pc # "hung" => policy \subseteq {start.left[i] : i \in DOMAIN start.left}
    BY DEF IInv, StartFits
  <2>2. proc'[start.pid] # "none" /\ (start.pc # "wait" => conn'[start.pid].st # "none")
    BY <1>3, <1>5, <2>1 DEF ProcMoves, ConnMoves
  <2> QED
    BY <1>1, <2>1, <2>2 DEF StartFits
<1>10. ClientFits'
  BY <1>1 DEF ClientFits
<1> QED
  BY <1>3, <1>5, <1>6, <1>7, <1>8, <1>9, <1>10 DEF IInv

LEMMA DeactivateKeeps ==
  ASSUME IInv, Deactivate \/ ShutdownPrepared
  PROVE  IInv'
<1>1. CASE Dispose /\ UNCHANGED <<exitCode, endpoint, policy, start, faults>>
  BY <1>1, DisposeKeeps
<1>2. CASE closing' = "rpc" /\ UNCHANGED <<world, child, client, start, disposed, conn, req, faults>>
  <2>1. UNCHANGED <<proc, termed, exitCode, unreaped, endpoint, policy, child, client, start, disposed,
                    conn, req, faults>>
    BY <1>2 DEF world
  <2>2. ReqsFit' /\ req' \in [Reqs -> ReqRow] /\ faults' \in 0..MaxFaults
    BY <2>1 DEF IInv, ReqsFit, Shape
  <2> QED
    BY <1>2, <2>1, <2>2, ReqStep
<1> QED
  BY <1>1, <1>2 DEF Deactivate, ShutdownPrepared

(***************************************************************************)
(* The theorems.                                                           *)
(***************************************************************************)

LEMMA InitHolds == Init => IInv
<1> SUFFICES ASSUME Init PROVE IInv
  OBVIOUS
<1>1. /\ proc = [p \in Pids |-> "none"] /\ termed = {} /\ exitCode = {} /\ unreaped = {}
      /\ endpoint = None /\ policy \subseteq Gated /\ child = None /\ client = None /\ start = Idle
      /\ disposed = FALSE /\ closing = "no" /\ faults = 0
      /\ conn = [k \in Pids |-> [st |-> "none", peer |-> None]]
      /\ req = [r \in Reqs |-> [st |-> "new", conn |-> None]]
  BY DEF Init, Gated
<1>2. conn \in [Pids -> ConnRow] /\ req \in [Reqs -> ReqRow]
  BY <1>1 DEF ConnRow, ReqRow
<1>3. Shape
  <2>1. faults \in 0..MaxFaults
    BY <1>1, BoundAssumption
  <2>2. proc \in [Pids -> {"none", "dead"} \cup Live]
    BY <1>1
  <2>3. start \in StartRow
    BY <1>1, IdleFits
  <2> QED
    BY <1>1, <1>2, <2>1, <2>2, <2>3 DEF Shape
<1>4. ProcsFit /\ Attended /\ ChildFits
  BY <1>1, Constants DEF ProcsFit, ProcFits, Attended, AttendedFits, ChildFits
<1>5. ConnsFit /\ ReqsFit
  BY <1>1 DEF ConnsFit, ConnFits, ReqsFit, ReqFits
<1>6. StartFits /\ ClientFits
  BY <1>1, IdleFits DEF StartFits, ClientFits, Starting
<1> QED
  BY <1>3, <1>4, <1>5, <1>6 DEF IInv

LEMMA NextKeeps == IInv /\ [Next]_vars => IInv'
<1> SUFFICES ASSUME IInv, [Next]_vars PROVE IInv'
  OBVIOUS
<1>1. CASE UNCHANGED vars
  <2>1. UNCHANGED <<proc, termed, exitCode, unreaped, endpoint, policy, child, client, start, disposed,
                    closing, conn, req, faults>>
    BY <1>1 DEF vars, world, manager
  <2>2. ReqsFit' /\ req' \in [Reqs -> ReqRow] /\ faults' \in 0..MaxFaults /\ closing' \in {"no", "rpc", "done"}
    BY <2>1 DEF IInv, ReqsFit, Shape
  <2> QED
    BY <2>1, <2>2, ReqStep
<1>2. ASSUME NEW p \in Pids, Process(p) PROVE IInv'
  BY <1>2, ProcessKeeps, ServeKeeps, DiesKeeps DEF Process
<1>3. ASSUME NEW p \in Pids, Crash(p) \/ ExitEvent(p) \/ SocketFails(p) \/ CloseEvent(p) PROVE IInv'
  BY <1>3, DiesKeeps, ExitEventKeeps, SocketFailsKeeps, CloseEventKeeps
<1>4. ASSUME NEW r \in Reqs, Call(r) \/ NoBinary(r) \/ Answer(r) PROVE IInv'
  BY <1>4, AnswerKeeps, CallClientKeeps, CallWaitsKeeps, CallStartsKeeps DEF Call
<1>5. CASE StartStep
  BY <1>5, ReadEndpointKeeps, WaitFailsKeeps, HandshakeKeeps, HandshakeFailsKeeps, HandshakeHangsKeeps,
     PolicyKeeps DEF StartStep
<1>6. CASE PolicyFails
  BY <1>6, WaitFailsKeeps
<1>7. CASE Deactivate \/ ShutdownPrepared
  BY <1>7, DeactivateKeeps
<1> QED
  BY <1>1, <1>2, <1>3, <1>4, <1>5, <1>6, <1>7 DEF Next

LEMMA Inductive == Spec => []IInv
BY InitHolds, NextKeeps, PTL DEF Spec

(* However starts, failed starts, broken sockets, exits and the dispose
   interleave: a daemon nobody asked to stop is the manager's child, the client
   that callers are given speaks to the daemon of its own start, and it is given
   to nobody before the gated features are off (daemonManager.ts). *)
THEOREM DaemonIsSupervised == Spec => []Supervised
<1>1. IInv => Supervised
  <2> SUFFICES ASSUME IInv PROVE Supervised
    OBVIOUS
  <2>1. termed \subseteq Spawned /\ exitCode \subseteq Spawned /\ unreaped \subseteq Spawned
    BY Constants DEF IInv, Shape, ProcsFit, ProcFits, Spawned
  <2>2. start.pc \in {"idle", "wait", "connect", "get", "set", "hung"} /\ start.pid \in Pids \cup {None}
    BY DEF IInv, Shape, StartRow
  <2>3. \A k \in Pids : /\ conn[k].st \in {"none", "handshake", "open", "broken", "cut", "closed"}
                        /\ conn[k].peer \in Pids \cup {None}
    BY DEF IInv, Shape, ConnRow
  <2>4. \A r \in Reqs : /\ req[r].st \in {"new", "waiting", "pending", "ok", "err"}
                        /\ req[r].conn \in Pids \cup {None}
    BY DEF IInv, Shape, ReqRow
  <2>5. TypeOK
    BY <2>1, <2>2, <2>3, <2>4 DEF IInv, Shape, TypeOK, Gated
  <2>6. NoOrphan
    BY DEF IInv, Attended, AttendedFits, NoOrphan, Live, Unguarded, Serving, Startable
  <2>7. OwnDaemon
    <3> SUFFICES ASSUME client # None PROVE conn[client].peer = client /\ (~disposed => child = client)
      BY DEF OwnDaemon
    <3>1. client \in Pids /\ conn[client].st # "none" /\ (~disposed => child = client)
      BY DEF IInv, Shape, ClientFits
    <3>2. ConnFits(client, conn[client], proc[client])
      BY <3>1 DEF IInv, ConnsFit
    <3> QED
      BY <3>1, <3>2 DEF ConnFits
  <2>8. GatedOff
    BY DEF IInv, ClientFits, GatedOff
  <2> QED
    BY <2>5, <2>6, <2>7, <2>8 DEF Supervised
<1> QED
  BY <1>1, Inductive, PTL

(* A caller that waits has a start in progress, and a request in flight has a
   connection that is not closed: whatever closes it rejects the request. *)
THEOREM CallersAreServed == Spec => []CallersServed
<1>1. IInv => CallersServed
  <2> SUFFICES ASSUME IInv PROVE CallersServed
    OBVIOUS
  <2>1. NobodyForgotten
    BY DEF IInv, ReqsFit, ReqFits, NobodyForgotten, Awaiting, Starting
  <2>2. NothingOnClosed
    BY DEF IInv, ReqsFit, ReqFits, NothingOnClosed
  <2> QED
    BY <2>1, <2>2 DEF CallersServed
<1> QED
  BY <1>1, Inductive, PTL

(***************************************************************************)
(* Proofs about Approvals for every set of requests, runs and callers.     *)
(***************************************************************************)

(* The state of approvals.rs and of the workbench stays well formed. *)
THEOREM ApprovalTypes == ApprovalSpec => []ApprovalTypeOK
<1>1. ApprovalInit => ApprovalTypeOK
  <2> SUFFICES ASSUME ApprovalInit PROVE ApprovalTypeOK
    OBVIOUS
  <2>1. /\ chan \in [Request -> Decision \cup {"open", "closed"}]
        /\ reply \in [Request -> Decision \cup {NoReply}]
        /\ told \in [Request -> Seq(Resolution)]
    BY DEF ApprovalInit
  <2>2. call \in [Caller -> {Off} \cup
                           [at : {"send", "publish"}, q : Request, d : Decision]]
    BY DEF ApprovalInit
  <2> QED
    BY <2>1, <2>2 DEF ApprovalInit, ApprovalTypeOK
<1>2. ApprovalTypeOK /\ [ApprovalNext]_approvalVars => ApprovalTypeOK'
  <2> SUFFICES ASSUME ApprovalTypeOK, [ApprovalNext]_approvalVars PROVE ApprovalTypeOK'
    OBVIOUS
  <2> USE DEF ApprovalTypeOK, uiVars
  <2>1. ASSUME NEW q \in Request, Ask(q) \/ Insert(q) \/ Announce(q) \/ Timeout(q)
        PROVE ApprovalTypeOK'
    <3>1. CASE Ask(q)
      BY <3>1 DEF Ask
    <3>2. CASE Insert(q)
      BY <3>2 DEF Insert
    <3>3. CASE Announce(q)
      BY <3>3 DEF Announce
    <3>4. CASE Timeout(q)
      BY <3>4 DEF Timeout
    <3> QED
      BY <2>1, <3>1, <3>2, <3>3, <3>4
  <2>2. ASSUME NEW q \in Request, Wake(q) PROVE ApprovalTypeOK'
    <3>1. reply' \in [Request -> Decision \cup {NoReply}]
      <4>1. (IF chan[q] = "closed" THEN "deny" ELSE chan[q]) \in Decision
        BY <2>2 DEF Wake, Decision
      <4> QED
        BY <2>2, <4>1 DEF Wake
    <3> QED
      BY <2>2, <3>1 DEF Wake
  <2>3. ASSUME NEW q \in Request, Expire(q) PROVE ApprovalTypeOK'
    <3>1. CASE q \in pending
      BY <2>3, <3>1 DEF Expire
    <3>2. CASE q \notin pending
      <4>1. reply' \in [Request -> Decision \cup {NoReply}]
        BY <2>3, <3>2 DEF Expire, Decision
      <4> QED
        BY <2>3, <3>2, <4>1 DEF Expire
    <3> QED
      BY <3>1, <3>2
  <2>4. ASSUME NEW q \in Request, AnnounceTimeout(q) PROVE ApprovalTypeOK'
    BY <2>4 DEF AnnounceTimeout, PublishResolution, Decision, Resolution
  <2>5. ASSUME NEW c \in Caller, NEW q \in Request, NEW d \in Decision, ResolveTake(c, q, d)
        PROVE ApprovalTypeOK'
    BY <2>5 DEF ResolveTake
  <2>6. ASSUME NEW c \in Caller, ResolveSend(c) PROVE ApprovalTypeOK'
    <3>1. call[c] \in [at : {"send", "publish"}, q : Request, d : Decision]
      BY <2>6 DEF ResolveSend, Off
    <3>2. /\ call' = [call EXCEPT ![c] = [call[c] EXCEPT !.at = "publish"]]
          /\ [call[c] EXCEPT !.at = "publish"] \in
               [at : {"send", "publish"}, q : Request, d : Decision]
      BY <2>6, <3>1 DEF ResolveSend
    <3>3. chan' \in [Request -> Decision \cup {"open", "closed"}]
      BY <2>6, <3>1 DEF ResolveSend
    <3> QED
      BY <2>6, <3>2, <3>3 DEF ResolveSend
  <2>7. ASSUME NEW c \in Caller, ResolvePublish(c) PROVE ApprovalTypeOK'
    <3>1. call[c] \in [at : {"send", "publish"}, q : Request, d : Decision]
      BY <2>7 DEF ResolvePublish, Off
    <3>2. told' \in [Request -> Seq(Resolution)]
      BY <2>7, <3>1 DEF ResolvePublish, PublishResolution, Resolution
    <3> QED
      BY <2>7, <3>2 DEF ResolvePublish, PublishResolution
  <2>8. ASSUME NEW r \in Run, CancelSession(r) PROVE ApprovalTypeOK'
    <3>1. /\ chan' \in [Request -> Decision \cup {"open", "closed"}]
          /\ pending' \subseteq Request
      BY <2>8 DEF CancelSession
    <3>2. clearing' \in [Run -> SUBSET Request]
      BY <2>8 DEF CancelSession
    <3>3. run' \in [Run -> {"live", "ending", "over"}]
      BY <2>8 DEF CancelSession
    <3> QED
      BY <2>8, <3>1, <3>2, <3>3 DEF CancelSession
  <2>9. ASSUME NEW r \in Run, CancelPublish(r) PROVE ApprovalTypeOK'
    <3>1. ASSUME NEW q \in clearing[r], PublishResolution(q, "cancelled"),
                 clearing' = [clearing EXCEPT ![r] = @ \ {q}], UNCHANGED run
          PROVE ApprovalTypeOK'
      <4>1. told' \in [Request -> Seq(Resolution)]
        BY <3>1 DEF PublishResolution, Resolution
      <4>2. clearing' \in [Run -> SUBSET Request]
        BY <3>1
      <4> QED
        BY <2>9, <3>1, <4>1, <4>2 DEF CancelPublish, PublishResolution
    <3>2. CASE run' = [run EXCEPT ![r] = "over"] /\ UNCHANGED <<told, mail, clearing>>
      BY <2>9, <3>2 DEF CancelPublish
    <3> QED
      BY <2>9, <3>1, <3>2 DEF CancelPublish
  <2>10. ASSUME Deliver \/ OtherRefresh PROVE ApprovalTypeOK'
    <3>1. Refresh /\ UNCHANGED <<ask, pending, chan, reply, told, call, run, clearing>>
      BY <2>10 DEF Deliver, OtherRefresh
    <3>2. mail' \in Nat
      BY <2>10 DEF Deliver, OtherRefresh
    <3>3. /\ ui' \in {"idle", "loading", "loaded"} /\ again' \in BOOLEAN
          /\ UNCHANGED <<seen, cards>>
      BY <3>1 DEF Refresh
    <3> QED
      BY <3>1, <3>2, <3>3
  <2>11. ASSUME Fetch \/ Show PROVE ApprovalTypeOK'
    BY <2>11 DEF Fetch, Show
  <2>12. CASE UNCHANGED approvalVars
    BY <2>12 DEF approvalVars
  <2> QED
    BY <2>1, <2>2, <2>3, <2>4, <2>5, <2>6, <2>7, <2>8, <2>9, <2>10, <2>11, <2>12
       DEF ApprovalNext, AskTask
<1> QED
  BY <1>1, <1>2, PTL DEF ApprovalSpec

------------------------------------------------------------------------------
(* Who may announce a request: nobody yet, the registry's entry, the caller
   that took it, the cancellation that took it, or the timed-out task.  Each
   of them finds nothing announced. *)
Early == {"idle", "asked"}
InRegistry ==
    \A q \in pending : /\ ask[q] \in {"inserted", "parked", "expired"}
                       /\ chan[q] = "open" /\ told[q] = << >>
ByCaller ==
    \A c \in Caller : call[c] # Off =>
       /\ call[c].q \notin pending /\ told[call[c].q] = << >>
       /\ ask[call[c].q] \notin Early \cup {"timed_out"}
       /\ \/ chan[call[c].q] = "open"
          \/ call[c].at = "publish" /\ chan[call[c].q] = call[c].d
OneCaller ==
    \A b, c \in Caller : call[b] # Off /\ call[c] # Off /\ call[b].q = call[c].q => b = c
ByCancel ==
    \A r \in Run : \A q \in clearing[r] :
       /\ RunOf[q] = r /\ q \notin pending /\ told[q] = << >>
       /\ ask[q] \notin Early \cup {"timed_out"}
       /\ chan[q] = "closed"
ByTimer ==
    \A q \in Request : ask[q] \in Early \cup {"timed_out"} =>
       q \notin pending /\ told[q] = << >> /\ chan[q] = "open"
AllowedInChannel ==
    \A q \in Request : chan[q] = "allow" =>
       \/ told[q] = <<"allow">>
       \/ told[q] = << >> /\ \E c \in Caller :
                               call[c] = [at |-> "publish", q |-> q, d |-> "allow"]
RepliesFromChannel == \A q \in Request : reply[q] = "allow" => chan[q] = "allow"

Rights == /\ InRegistry /\ ByCaller /\ OneCaller /\ ByCancel /\ ByTimer
          /\ ToldOnce /\ AllowedInChannel /\ RepliesFromChannel

LEMMA RightsInit == ApprovalInit => Rights
  BY DEF ApprovalInit, Rights, InRegistry, ByCaller, OneCaller, ByCancel, ByTimer, ToldOnce,
         AllowedInChannel, RepliesFromChannel, NoReply

LEMMA RightsStep == ApprovalTypeOK /\ Rights /\ [ApprovalNext]_approvalVars => Rights'
<1> SUFFICES ASSUME ApprovalTypeOK, Rights, [ApprovalNext]_approvalVars PROVE Rights'
  OBVIOUS
<1> USE DEF Rights, Early
<1>t. \A c \in Caller : call[c] # Off => call[c].q \in Request /\ call[c].d \in Decision
  BY DEF Off, ApprovalTypeOK
<1>1. ASSUME NEW q \in Request, Ask(q) \/ Announce(q) \/ Timeout(q) PROVE Rights'
  <2>1. /\ UNCHANGED <<pending, chan, reply, told, call, clearing>>
        /\ \A p \in Request : p # q => ask'[p] = ask[p]
        /\ \/ ask[q] = "idle" /\ ask'[q] = "asked"
           \/ ask[q] = "inserted" /\ ask'[q] = "parked"
           \/ ask[q] = "parked" /\ ask'[q] = "expired"
    BY <1>1 DEF Ask, Announce, Timeout, ApprovalTypeOK
  <2>2. InRegistry' /\ ByTimer' /\ ToldOnce'
    BY <2>1 DEF ApprovalTypeOK, InRegistry, ByTimer, ToldOnce
  <2>3. ByCaller' /\ OneCaller'
    BY <2>1, <1>t DEF ByCaller, OneCaller
  <2>4. ByCancel'
    BY <2>1 DEF ApprovalTypeOK, ByCancel
  <2>5. AllowedInChannel' /\ RepliesFromChannel'
    BY <2>1 DEF AllowedInChannel, RepliesFromChannel
  <2> QED
    BY <2>2, <2>3, <2>4, <2>5
<1>2. ASSUME NEW q \in Request, Insert(q) PROVE Rights'
  BY <1>2, <1>t
     DEF Insert, ApprovalTypeOK, InRegistry, ByCaller, OneCaller, ByCancel, ByTimer,
         ToldOnce, AllowedInChannel, RepliesFromChannel
<1>3. ASSUME NEW q \in Request, Wake(q) PROVE Rights'
  BY <1>3, <1>t
     DEF Wake, ApprovalTypeOK, InRegistry, ByCaller, OneCaller, ByCancel, ByTimer,
         ToldOnce, AllowedInChannel, RepliesFromChannel
<1>4. ASSUME NEW q \in Request, Expire(q) PROVE Rights'
  BY <1>4, <1>t
     DEF Expire, ApprovalTypeOK, InRegistry, ByCaller, OneCaller, ByCancel, ByTimer,
         ToldOnce, AllowedInChannel, RepliesFromChannel
<1>5. ASSUME NEW q \in Request, AnnounceTimeout(q) PROVE Rights'
  BY <1>5, <1>t
     DEF AnnounceTimeout, PublishResolution, ApprovalTypeOK, InRegistry, ByCaller,
         OneCaller, ByCancel, ByTimer, ToldOnce, AllowedInChannel, RepliesFromChannel
<1>6. ASSUME NEW c \in Caller, NEW q \in Request, NEW d \in Decision, ResolveTake(c, q, d)
      PROVE Rights'
  <2>1. /\ call' = [call EXCEPT ![c] = [at |-> "send", q |-> q, d |-> d]]
        /\ q \in pending /\ pending' = pending \ {q} /\ call[c] = Off
        /\ UNCHANGED <<ask, chan, reply, told, clearing>>
    BY <1>6 DEF ResolveTake, ApprovalTypeOK
  <2>2. /\ call'[c].at = "send" /\ call'[c].q = q
        /\ \A b \in Caller : b # c => call'[b] = call[b]
    BY <2>1 DEF ApprovalTypeOK
  <2>3. InRegistry' /\ ByTimer' /\ ByCancel' /\ ToldOnce' /\ RepliesFromChannel'
    BY <2>1 DEF ApprovalTypeOK, InRegistry, ByCancel, ByTimer, ToldOnce, RepliesFromChannel
  <2>4. ByCaller' /\ OneCaller'
    <3>1. /\ told[q] = << >> /\ chan[q] = "open"
          /\ ask[q] \notin Early \cup {"timed_out"}
          /\ \A b \in Caller : call[b] # Off => call[b].q # q
      BY <2>1 DEF InRegistry, ByCaller
    <3>2. OneCaller'
      BY <2>2, <3>1 DEF OneCaller
    <3>3. ByCaller'
      <4> SUFFICES ASSUME NEW b \in Caller, call'[b] # Off
                   PROVE  /\ call'[b].q \notin pending' /\ told'[call'[b].q] = << >>
                          /\ ask'[call'[b].q] \notin Early \cup {"timed_out"}
                          /\ \/ chan'[call'[b].q] = "open"
                             \/ call'[b].at = "publish" /\ chan'[call'[b].q] = call'[b].d
        BY DEF ByCaller
      <4>1. CASE b = c
        BY <2>1, <2>2, <3>1, <4>1
      <4>2. CASE b # c
        BY <2>1, <2>2, <4>2 DEF ByCaller
      <4> QED
        BY <4>1, <4>2
    <3> QED
      BY <3>2, <3>3
  <2>5. AllowedInChannel'
    <3>1. \A b \in Caller : call[b] # Off => call'[b] = call[b]
      BY <2>1, <2>2 DEF ApprovalTypeOK
    <3>2. \A p \in Request : [at |-> "publish", q |-> p, d |-> "allow"] # Off
      BY DEF Off, ApprovalTypeOK
    <3> QED
      BY <2>1, <3>1, <3>2 DEF AllowedInChannel
  <2> QED
    BY <2>3, <2>4, <2>5
<1>7. ASSUME NEW c \in Caller, ResolveSend(c) PROVE Rights'
  <2> DEFINE p == call[c].q
             d == call[c].d
  <2>1. /\ call[c] # Off /\ call[c].at = "send"
        /\ UNCHANGED <<ask, pending, reply, told, clearing>>
        /\ \A b \in Caller : b # c => call'[b] = call[b]
    BY <1>7 DEF ResolveSend, Off, ApprovalTypeOK
  <2>2. /\ p \in Request /\ d \in Decision
        /\ call'[c] = [at |-> "publish", q |-> p, d |-> d]
    BY <1>7, <2>1 DEF ResolveSend, Off, ApprovalTypeOK
  <2>3. /\ chan[p] = "open" /\ chan'[p] \in {"open", d}
        /\ \A x \in Request : x # p => chan'[x] = chan[x]
        /\ chan' \in [Request -> Decision \cup {"open", "closed"}]
    BY <1>7, <2>1, <2>2 DEF ResolveSend, ApprovalTypeOK, ByCaller
  <2> HIDE DEF p, d
  <2>4. p = call[c].q /\ d = call[c].d
    BY DEF p, d
  <2>5. call'[c].q = p /\ call'[c].d = d /\ call'[c].at = "publish" /\ call'[c] # Off
    BY <2>2 DEF Off, ApprovalTypeOK
  <2>6. InRegistry' /\ ByTimer' /\ ToldOnce' /\ RepliesFromChannel'
    BY <2>1, <2>2, <2>3, <2>4
       DEF ApprovalTypeOK, InRegistry, ByCaller, ByTimer, ToldOnce, RepliesFromChannel
  <2>7. ByCaller' /\ OneCaller'
    <3>1. OneCaller'
      BY <2>1, <2>4, <2>5 DEF OneCaller
    <3>2. ASSUME NEW b \in Caller, b # c, call[b] # Off
          PROVE  call'[b] = call[b] /\ chan'[call[b].q] = chan[call[b].q]
      BY <2>1, <2>3, <2>4, <3>2, <1>t DEF OneCaller
    <3>3. /\ p \notin pending /\ told[p] = << >>
          /\ ask[p] \notin Early \cup {"timed_out"}
      BY <2>1, <2>4 DEF ByCaller
    <3>4. ByCaller'
      <4> SUFFICES ASSUME NEW b \in Caller, call'[b] # Off
                   PROVE  /\ call'[b].q \notin pending' /\ told'[call'[b].q] = << >>
                          /\ ask'[call'[b].q] \notin Early \cup {"timed_out"}
                          /\ \/ chan'[call'[b].q] = "open"
                             \/ call'[b].at = "publish" /\ chan'[call'[b].q] = call'[b].d
        BY DEF ByCaller
      <4>1. CASE b = c
        BY <2>1, <2>3, <2>5, <3>3, <4>1
      <4>2. CASE b # c
        BY <2>1, <3>2, <4>2 DEF ByCaller
      <4> QED
        BY <4>1, <4>2
    <3> QED
      BY <3>1, <3>4
  <2>8. ByCancel'
    BY <2>1, <2>2, <2>3, <2>4 DEF ApprovalTypeOK, ByCancel
  <2>9. AllowedInChannel'
    <3> SUFFICES ASSUME NEW x \in Request, chan'[x] = "allow"
                 PROVE  \/ told'[x] = <<"allow">>
                        \/ told'[x] = << >> /\ \E b \in Caller :
                              call'[b] = [at |-> "publish", q |-> x, d |-> "allow"]
      BY DEF AllowedInChannel
    <3>1. CASE x = p
      BY <2>1, <2>2, <2>3, <2>4, <3>1 DEF ByCaller
    <3>2. CASE x # p
      <4>1. chan[x] = "allow"
        BY <2>3, <3>2 DEF ApprovalTypeOK
      <4>2. ASSUME NEW b \in Caller, call[b] = [at |-> "publish", q |-> x, d |-> "allow"]
            PROVE  call'[b] = call[b]
        BY <2>1, <4>2 DEF ApprovalTypeOK
      <4> QED
        BY <2>1, <4>1, <4>2 DEF AllowedInChannel
    <3> QED
      BY <3>1, <3>2
  <2> QED
    BY <2>6, <2>7, <2>8, <2>9
<1>8. ASSUME NEW c \in Caller, ResolvePublish(c) PROVE Rights'
  <2> DEFINE p == call[c].q
             d == call[c].d
  <2>1. /\ call[c] # Off /\ call[c].at = "publish"
        /\ UNCHANGED <<ask, pending, chan, reply, clearing>>
        /\ call' = [call EXCEPT ![c] = Off]
        /\ told' = [told EXCEPT ![p] = Append(@, d)]
    BY <1>8 DEF ResolvePublish, PublishResolution, Off, ApprovalTypeOK
  <2>2. p \in Request /\ d \in Decision /\ told[p] = << >>
    BY <2>1, <1>t DEF ApprovalTypeOK, ByCaller
  <2>3. told'[p] = <<d>> /\ \A x \in Request : x # p => told'[x] = told[x]
    BY <2>1, <2>2 DEF ApprovalTypeOK
  <2>4. call'[c] = Off /\ \A b \in Caller : b # c => call'[b] = call[b]
    BY <2>1 DEF ApprovalTypeOK
  <2>5. \A b \in Caller : b # c /\ call[b] # Off => call[b].q # p
    BY <2>1 DEF ApprovalTypeOK, OneCaller
  <2>6. /\ p \notin pending /\ ask[p] \notin Early \cup {"timed_out"}
        /\ chan[p] \in {"open", d}
    BY <2>1 DEF ApprovalTypeOK, ByCaller
  <2> HIDE DEF p, d
  <2>7. p = call[c].q
    BY DEF p
  <2>8. InRegistry' /\ ByTimer' /\ RepliesFromChannel'
    BY <2>1, <2>2, <2>3, <2>6 DEF ApprovalTypeOK, InRegistry, ByTimer, RepliesFromChannel
  <2>9. ToldOnce'
    <3>1. Len(told'[p]) = 1
      BY <2>3
    <3>2. ASSUME NEW x \in Request, x # p PROVE Len(told'[x]) <= 1
      <4>1. told'[x] = told[x]
        BY <2>3, <3>2
      <4> QED
        BY <4>1 DEF ToldOnce
    <3>3. ASSUME NEW x \in Request PROVE Len(told'[x]) <= 1
      <4>1. CASE x = p
        BY <3>1, <4>1, 1 <= 1
      <4>2. CASE x # p
        BY <3>2, <4>2
      <4> QED
        BY <4>1, <4>2
    <3> QED
      BY <3>3 DEF ToldOnce
  <2>10. ByCancel'
    BY <2>1, <2>2, <2>3, <2>6 DEF Decision, ApprovalTypeOK, ByCancel
  <2>11. ByCaller' /\ OneCaller'
    BY <2>1, <2>3, <2>4, <2>5, <1>t DEF ApprovalTypeOK, ByCaller, OneCaller
  <2>12. AllowedInChannel'
    <3> SUFFICES ASSUME NEW x \in Request, chan'[x] = "allow"
                 PROVE  \/ told'[x] = <<"allow">>
                        \/ told'[x] = << >> /\ \E b \in Caller :
                              call'[b] = [at |-> "publish", q |-> x, d |-> "allow"]
      BY DEF AllowedInChannel
    <3>1. CASE x = p
      BY <2>1, <2>3, <2>6, <3>1 DEF ByCaller
    <3>2. CASE x # p
      <4>1. ASSUME NEW b \in Caller, call[b] = [at |-> "publish", q |-> x, d |-> "allow"]
            PROVE  call'[b] = call[b]
        <5>1. call[b].q = x
          BY <4>1 DEF ApprovalTypeOK
        <5> QED
          BY <2>4, <2>7, <3>2, <5>1
      <4> QED
        BY <2>1, <2>3, <3>2, <4>1 DEF AllowedInChannel
    <3> QED
      BY <3>1, <3>2
  <2> QED
    BY <2>8, <2>9, <2>10, <2>11, <2>12
<1>9. ASSUME NEW r \in Run, CancelSession(r) PROVE Rights'
  BY <1>9, <1>t
     DEF CancelSession, ApprovalTypeOK, InRegistry, ByCaller, OneCaller, ByCancel, ByTimer,
         ToldOnce, AllowedInChannel, RepliesFromChannel
<1>10. ASSUME NEW r \in Run, CancelPublish(r) PROVE Rights'
  <2>1. CASE UNCHANGED <<told, mail, clearing>>
    BY <1>10, <2>1
       DEF CancelPublish, ApprovalTypeOK, InRegistry, ByCaller, OneCaller, ByCancel,
           ByTimer, ToldOnce, AllowedInChannel, RepliesFromChannel
  <2>2. ASSUME NEW q \in clearing[r], PublishResolution(q, "cancelled"),
               clearing' = [clearing EXCEPT ![r] = @ \ {q}]
        PROVE  Rights'
    <3>1. /\ q \in Request /\ UNCHANGED <<ask, pending, chan, reply, call>>
          /\ RunOf[q] = r /\ told[q] = << >> /\ chan[q] = "closed" /\ q \notin pending
          /\ ask[q] \notin Early \cup {"timed_out"}
      BY <1>10, <2>2 DEF CancelPublish, ApprovalTypeOK, ByCancel
    <3>2. told'[q] = <<"cancelled">> /\ \A x \in Request : x # q => told'[x] = told[x]
      BY <2>2, <3>1 DEF PublishResolution, ApprovalTypeOK
    <3>3. clearing'[r] = clearing[r] \ {q} /\ \A t \in Run : t # r => clearing'[t] = clearing[t]
      BY <2>2 DEF ApprovalTypeOK
    <3>4. \A b \in Caller : call[b] # Off => call[b].q # q
      BY <3>1, <1>t DEF Decision, ApprovalTypeOK, ByCaller
    <3>5. InRegistry' /\ ByTimer' /\ RepliesFromChannel' /\ AllowedInChannel'
      BY <3>1, <3>2
         DEF ApprovalTypeOK, InRegistry, ByTimer, AllowedInChannel, RepliesFromChannel
    <3>6. ToldOnce'
      <4>1. Len(told'[q]) = 1
        BY <3>2
      <4>2. ASSUME NEW x \in Request, x # q PROVE Len(told'[x]) <= 1
        <5>1. told'[x] = told[x]
          BY <3>2, <4>2
        <5> QED
          BY <5>1 DEF ToldOnce
      <4>3. ASSUME NEW x \in Request PROVE Len(told'[x]) <= 1
        <5>1. CASE x = q
          BY <4>1, <5>1, 1 <= 1
        <5>2. CASE x # q
          BY <4>2, <5>2
        <5> QED
          BY <5>1, <5>2
      <4> QED
        BY <4>3 DEF ToldOnce
    <3>7. ByCancel'
      <4> SUFFICES ASSUME NEW t \in Run, NEW x \in clearing'[t]
                   PROVE  /\ RunOf[x] = t /\ x \notin pending' /\ told'[x] = << >>
                          /\ ask'[x] \notin Early \cup {"timed_out"}
                          /\ chan'[x] = "closed"
        BY DEF ByCancel
      <4>1. x \in clearing[t] /\ x \in Request /\ RunOf[x] = t
        BY <3>3 DEF ApprovalTypeOK, ByCancel
      <4>2. x # q
        BY <3>1, <3>3, <4>1
      <4> QED
        BY <3>1, <3>2, <4>1, <4>2 DEF ByCancel
    <3>8. ByCaller' /\ OneCaller'
      BY <3>1, <3>2, <3>4, <1>t DEF ApprovalTypeOK, ByCaller, OneCaller
    <3> QED
      BY <3>5, <3>6, <3>7, <3>8
  <2> QED
    BY <1>10, <2>1, <2>2 DEF CancelPublish
<1>11. ASSUME Deliver \/ OtherRefresh \/ Fetch \/ Show PROVE Rights'
  BY <1>11
     DEF Deliver, OtherRefresh, Fetch, Show, ApprovalTypeOK, InRegistry, ByCaller,
         OneCaller, ByCancel, ByTimer, ToldOnce, AllowedInChannel, RepliesFromChannel
<1>12. CASE UNCHANGED approvalVars
  BY <1>12
     DEF approvalVars, ApprovalTypeOK, InRegistry, ByCaller, OneCaller, ByCancel, ByTimer,
         ToldOnce, AllowedInChannel, RepliesFromChannel
<1> QED
  BY <1>1, <1>2, <1>3, <1>4, <1>5, <1>6, <1>7, <1>8, <1>9, <1>10, <1>11, <1>12
     DEF ApprovalNext, AskTask

LEMMA RightsHold == ApprovalSpec => []Rights
  BY RightsInit, RightsStep, ApprovalTypes, PTL DEF ApprovalSpec

(* Whoever settles a request, the caller, the timer or the end of its run, one
   resolution is announced: removing the entry is the right to announce. *)
THEOREM OneResolution == ApprovalSpec => []ToldOnce
<1>1. Rights => ToldOnce
  BY DEF Rights
<1> QED
  BY <1>1, RightsHold, PTL

(* request_approval never allows what no caller allowed, and never allows what
   is announced as denied, cancelled or timed out. *)
THEOREM NothingAllowedUnasked == ApprovalSpec => []AllowedByUser
<1>1. Rights => AllowedByUser
  BY DEF Rights, AllowedByUser, AllowedInChannel, RepliesFromChannel
<1> QED
  BY <1>1, RightsHold, PTL

------------------------------------------------------------------------------
(* What is shown, or about to be shown, is the registry, unless an
   announcement, an event or another round of the loop is still to come. *)
Coming == Unannounced \/ mail > 0
Converging ==
    /\ ui = "idle" => cards = pending \/ Coming
    /\ ui = "loaded" => seen = pending \/ again = TRUE \/ Coming

(* A consumer takes its run's entries once, when the run ends. *)
LiveTookNothing == \A r \in Run : run[r] = "live" => clearing[r] = {}

LEMMA LiveTookNothingHolds == ApprovalSpec => []LiveTookNothing
<1>1. ApprovalInit => LiveTookNothing
  BY DEF ApprovalInit, LiveTookNothing
<1>2. ApprovalTypeOK /\ LiveTookNothing /\ [ApprovalNext]_approvalVars => LiveTookNothing'
  <2> SUFFICES ASSUME ApprovalTypeOK, LiveTookNothing, [ApprovalNext]_approvalVars PROVE LiveTookNothing'
    OBVIOUS
  <2>1. CASE UNCHANGED <<run, clearing>>
    BY <2>1 DEF LiveTookNothing
  <2>2. ASSUME NEW r \in Run, CancelSession(r) \/ CancelPublish(r)
        PROVE  LiveTookNothing'
    <3>1. /\ run'[r] # "live"
          /\ \A t \in Run : t # r => run'[t] = run[t] /\ clearing'[t] = clearing[t]
      BY <2>2 DEF CancelSession, CancelPublish, ApprovalTypeOK
    <3> QED
      BY <3>1 DEF LiveTookNothing
  <2> QED
    BY <2>1, <2>2 DEF ApprovalNext, AskTask, approvalVars, Ask, Insert, Announce, Wake, Timeout, Expire,
       AnnounceTimeout, ResolveTake, ResolveSend, ResolvePublish, Deliver, OtherRefresh,
       Fetch, Show
<1> QED
  BY <1>1, <1>2, ApprovalTypes, PTL DEF ApprovalSpec

LEMMA ConvergingStep ==
    ApprovalTypeOK /\ LiveTookNothing /\ Converging /\ [ApprovalNext]_approvalVars => Converging'
<1> SUFFICES ASSUME ApprovalTypeOK, LiveTookNothing, Converging, [ApprovalNext]_approvalVars PROVE Converging'
  OBVIOUS
<1> USE DEF Converging
<1>u. ASSUME Coming', ui' = ui PROVE Converging'
  BY <1>u
<1>k. ASSUME UNCHANGED <<pending, uiVars>>, Coming => Coming' PROVE Converging'
  BY <1>k DEF uiVars
<1>a. ASSUME NEW q \in Request, AskTask(q) \/ Ask(q) PROVE Converging'
  <2>1. CASE Ask(q)
    BY <2>1, <1>k DEF Ask, Coming, Unannounced, ApprovalTypeOK
  <2>2. CASE Insert(q)
    BY <2>2, <1>u DEF Insert, Coming, Unannounced, ApprovalTypeOK, uiVars
  <2>3. CASE Announce(q)
    BY <2>3, <1>u DEF Announce, Coming, ApprovalTypeOK, uiVars
  <2>4. CASE Wake(q) \/ Timeout(q)
    <3>1. Coming => Coming'
      BY <2>4 DEF Wake, Timeout, Coming, Unannounced, ApprovalTypeOK
    <3> QED
      BY <2>4, <3>1, <1>k DEF Wake, Timeout
  <2>5. CASE Expire(q)
    <3>1. CASE q \in pending
      BY <2>5, <3>1, <1>u DEF Expire, Coming, Unannounced, ApprovalTypeOK, uiVars
    <3>2. CASE q \notin pending
      <4>1. pending' = pending /\ UNCHANGED uiVars
        BY <2>5, <3>2 DEF Expire
      <4>2. Coming => Coming'
        BY <2>5, <3>2 DEF Expire, Coming, Unannounced, ApprovalTypeOK
      <4> QED
        BY <4>1, <4>2, <1>k
    <3> QED
      BY <3>1, <3>2
  <2>6. CASE AnnounceTimeout(q)
    BY <2>6, <1>u DEF AnnounceTimeout, PublishResolution, Coming, ApprovalTypeOK, uiVars
  <2> QED
    BY <1>a, <2>1, <2>2, <2>3, <2>4, <2>5, <2>6 DEF AskTask
<1>b. ASSUME NEW c \in Caller, NEW q \in Request, NEW d \in Decision, ResolveTake(c, q, d)
      PROVE Converging'
  <2>1. call'[c] # Off
    BY <1>b DEF ResolveTake, ApprovalTypeOK, Off
  <2> QED
    BY <1>b, <2>1, <1>u DEF ResolveTake, Coming, Unannounced, uiVars
<1>c. ASSUME NEW c \in Caller, ResolveSend(c) PROVE Converging'
  <2>1. call'[c].at = "publish"
    BY <1>c DEF ResolveSend, ApprovalTypeOK
  <2>2. call'[c] # Off
    BY <2>1 DEF Off
  <2> QED
    BY <1>c, <2>2, <1>u DEF ResolveSend, Coming, Unannounced, uiVars
<1>d. ASSUME NEW c \in Caller, ResolvePublish(c) PROVE Converging'
  BY <1>d, <1>u DEF ResolvePublish, PublishResolution, Coming, ApprovalTypeOK, uiVars
<1>e. ASSUME NEW r \in Run, CancelSession(r) PROVE Converging'
  <2> DEFINE mine == {q \in pending : RunOf[q] = r}
  <2>1. /\ clearing' = [clearing EXCEPT ![r] = mine] /\ pending' = pending \ mine
        /\ UNCHANGED <<ask, call, mail, uiVars>>
    BY <1>e DEF CancelSession
  <2>2. clearing'[r] = mine /\ \A t \in Run : t # r => clearing'[t] = clearing[t]
    BY <2>1 DEF ApprovalTypeOK
  <2>3. CASE mine # {}
    BY <2>1, <2>2, <2>3, <1>u DEF Coming, Unannounced, uiVars
  <2>4. CASE mine = {} /\ clearing[r] = {}
    <3>1. Coming => Coming'
      BY <2>1, <2>2, <2>4 DEF Coming, Unannounced
    <3> QED
      BY <2>1, <2>4, <3>1, <1>k
  <2> QED
    BY <1>e, <2>3, <2>4 DEF CancelSession, LiveTookNothing
<1>f. ASSUME NEW r \in Run, CancelPublish(r) PROVE Converging'
  <2>1. CASE UNCHANGED <<told, mail, clearing>>
    BY <1>f, <2>1, <1>k DEF CancelPublish, Coming, Unannounced
  <2>2. CASE \E q \in clearing[r] : PublishResolution(q, "cancelled")
    BY <1>f, <2>2, <1>u DEF CancelPublish, PublishResolution, Coming, ApprovalTypeOK, uiVars
  <2> QED
    BY <1>f, <2>1, <2>2 DEF CancelPublish
<1>g. ASSUME Deliver \/ OtherRefresh PROVE Converging'
  <2>1. Refresh
    BY <1>g DEF Deliver, OtherRefresh
  <2>2. ui' # "idle" /\ (ui' = "loaded" => again' = TRUE)
    BY <2>1 DEF Refresh, ApprovalTypeOK
  <2> QED
    BY <2>2
<1>h. ASSUME Fetch PROVE Converging'
  BY <1>h DEF Fetch
<1>i. ASSUME Show PROVE Converging'
  <2>1. ui' \in {"loading", "idle"} /\ pending' = pending /\ (Coming => Coming')
    BY <1>i DEF Show, Coming, Unannounced
  <2>2. CASE again
    BY <1>i, <2>2 DEF Show
  <2>3. CASE ~again
    <3>1. cards' = seen /\ (seen = pending \/ Coming)
      BY <1>i, <2>3 DEF Show
    <3> QED
      BY <2>1, <3>1
  <2> QED
    BY <2>2, <2>3
<1>j. CASE UNCHANGED approvalVars
  BY <1>j, <1>k DEF approvalVars, Coming, Unannounced, uiVars
<1> QED
  BY <1>a, <1>b, <1>c, <1>d, <1>e, <1>f, <1>g, <1>h, <1>i, <1>j DEF ApprovalNext

(* The workbench converges to the registry: when nothing is left to announce,
   to hear or to reload, its cards are the pending requests.  The change comes
   before its event and the flag is cleared before the list is read. *)
THEOREM CardsConverge == ApprovalSpec => []CardsUpToDate
<1>1. ApprovalInit => Converging
  BY DEF ApprovalInit, Converging
<1>2. ApprovalTypeOK /\ Converging => CardsUpToDate
  BY DEF ApprovalTypeOK, Converging, Coming, CardsUpToDate
<1> QED
  BY <1>1, <1>2, ConvergingStep, LiveTookNothingHolds, ApprovalTypes, PTL DEF ApprovalSpec
=============================================================================
