--------------------------- MODULE Collaboration ---------------------------
(***************************************************************************)
(* Multi-device collaboration: the coordinator's assignments, repository   *)
(* leases and change sets (am-core/collaboration.rs over                   *)
(* am-db/repos/collaboration.rs) and the extension's worker that claims    *)
(* assignments and mirrors them on its own machine                         *)
(* (src/node/collaborationWorker.ts).                                      *)
(*                                                                         *)
(* A coordinator call is not atomic: every statement it awaits is a step   *)
(* of its own, and calls of different clients interleave.  `call' holds    *)
(* the calls in progress.  Most calls begin with expire_collaboration_-    *)
(* leases; its selects and its updates are separate steps as well.  Time   *)
(* is abstracted to one bit per lease (`lapsed': lease_expires_at is not   *)
(* after now) and one per device (`online': seen in the last 45 seconds);  *)
(* a claimed lease lapses when nobody renews it in time.                   *)
(***************************************************************************)
EXTENDS Naturals, FiniteSets

CONSTANTS Thread, Repo, Device,
          Worker,        \* worker processes
          User,          \* clients through which people act
          Asg, First,    \* identifiers for assignments, and the one of Init
          Instr,         \* follow-up prompts people send
          None,
          DeviceOf,      \* the device a worker process belongs to
          Repos,         \* the repositories attached to a thread
          Slots,         \* MAX_PARALLEL_ASSIGNMENTS
          UserOps,       \* what people do in this instance
          MaxCalls,      \* bound: calls of people, and follow-ups sent
          FaultKinds,    \* what goes wrong in this instance
          MaxFaults      \* bound on how often

ASSUME CollaborationAssumption ==
  /\ None \notin Asg
  /\ First \in Asg /\ DeviceOf \in [Worker -> Device]
  /\ Repos \in [Thread -> SUBSET Repo]
  /\ Slots \in Nat \ {0} /\ MaxCalls \in Nat /\ MaxFaults \in Nat

VARIABLES device, asg, lease, change, thread, queue, call, poll, run, sync,
          decided, sent, handed, rival, calls, faults

hub == <<device, asg, lease, change, thread>>
worker == <<poll, run, sync>>
ghosts == <<decided, sent, handed, rival>>
bounds == <<calls, faults>>
vars == <<device, asg, lease, change, thread, queue, call, poll, run, sync,
          decided, sent, handed, rival, calls, faults>>

Status == {"queued", "running", "review", "completed", "failed",
           "lease_expired", "cancelled"}
Live == {"queued", "running", "review"}
ChangeStatus == {"pending", "conflict", "applied", "rejected"}
Open == {"pending", "conflict"}
ThreadStatus == {"idle", "queued", "running", "review", "done", "paused",
                 "failed", "waiting_for_network"}

DeviceRow == [revoked : BOOLEAN, online : BOOLEAN]
Paired == [revoked |-> FALSE, online |-> TRUE]     \* as upsert_device writes it
Assignment == [status : Status \cup {"none"}, thread : Thread \cup {None},
               device : Device \cup {None}, write : BOOLEAN, lapsed : BOOLEAN]
NoAssignment == [status |-> "none", thread |-> None, device |-> None,
                 write |-> FALSE, lapsed |-> FALSE]
NewAssignment(t, d, w) ==
  [status |-> "queued", thread |-> t, device |-> d, write |-> w, lapsed |-> FALSE]
ChangeSet == [Asg -> [Repo -> ChangeStatus \cup {"none"}]]

Caller == User \cup Device \cup Worker \cup (Worker \X Asg)
Op == {"none", "snapshot", "list", "heartbeat", "create", "claim", "report",
       "finish", "cancel", "apply", "reject"}
Call == [op : Op,
         pc : {"none", "expiring", "failing", "body",
               "insert", "write", "complete", "save"},
         a : Asg \cup {None}, r : Repo \cup {None}, new : Assignment,
         to : ThreadStatus, ids : SUBSET Asg, out : SUBSET Asg]
NoCall == [op |-> "none", pc |-> "none", a |-> None, r |-> None,
           new |-> NoAssignment, to |-> "idle", ids |-> {}, out |-> {}]

Phase == {"none", "claiming", "preparing", "starting", "active", "syncing",
          "publishing", "ending", "retry"}
Mirror == {"none", "idle", "running", "review", "failed", "paused"}
Ended == {"review", "failed", "paused"}
ActiveRemoteRun == [phase : Phase, kept : BOOLEAN, local : Mirror,
                    status : Mirror, msgs : 0..MaxCalls, cont : BOOLEAN,
                    delivered : SUBSET Instr, fails : 0..2, todo : SUBSET Repo]
NoRun == [phase |-> "none", kept |-> FALSE, local |-> "none",
          status |-> "none", msgs |-> 0, cont |-> FALSE, delivered |-> {},
          fails |-> 0, todo |-> {}]
SyncTask == [pc : {"none", "list", "take", "send", "delete"}, todo : SUBSET Instr,
             i : Instr \cup {None}]
NoSync == [pc |-> "none", todo |-> {}, i |-> None]
Who == {"poll", "final"}
NotPolling == [pc |-> "idle", seen |-> {}, queued |-> {}]

\* Rows, calls, worker runs and their synchronisation have their types.
TypeOK ==
  /\ device \in [Device -> DeviceRow]
  /\ asg \in [Asg -> Assignment]
  /\ lease \in [Repo -> Asg \cup {None}]
  /\ change \in ChangeSet
  /\ thread \in [Thread -> ThreadStatus]
  /\ queue \in [Thread -> SUBSET Instr]
  /\ call \in [Caller -> Call]
  /\ poll \in [Worker -> [pc : {"idle", "listing", "handle", "claiming", "syncing"},
                          seen : SUBSET Asg, queued : SUBSET Asg]]
  /\ run \in [Worker \X Asg -> ActiveRemoteRun]
  /\ sync \in [Worker \X Asg \X Who -> SyncTask]
  /\ decided \subseteq Asg \X Repo
  /\ sent \subseteq Instr /\ handed \subseteq Instr /\ rival \subseteq Asg
  /\ calls \in 0..MaxCalls /\ faults \in 0..MaxFaults

\* One assignment is queued, as create_collaboration_assignment leaves it;
\* whether it may write is open.
Init ==
  /\ device = [d \in Device |-> Paired]
  /\ \E t \in Thread, d \in Device, w \in BOOLEAN :
       /\ asg = [a \in Asg |-> IF a = First THEN NewAssignment(t, d, w) ELSE NoAssignment]
       /\ lease = [r \in Repo |-> IF w /\ r \in Repos[t] THEN First ELSE None]
       /\ thread = [x \in Thread |-> IF x = t THEN "queued" ELSE "idle"]
  /\ change = [a \in Asg |-> [r \in Repo |-> "none"]]
  /\ queue = [t \in Thread |-> {}]
  /\ call = [c \in Caller |-> NoCall]
  /\ poll = [w \in Worker |-> NotPolling]
  /\ run = [x \in Worker \X Asg |-> NoRun]
  /\ sync = [x \in Worker \X Asg \X Who |-> NoSync]
  /\ decided = {} /\ sent = {} /\ handed = {} /\ rival = {}
  /\ calls = 0 /\ faults = 0

----------------------------------------------------------------------------
(* The coordinator *)

Sweeping == {"snapshot", "list", "heartbeat", "create", "claim"}

\* The first select of a sweep.  With nothing to expire the sweep returns
\* here, before it looks at queued work of devices that went offline.
StaleNone == {}
StaleIds == {a \in Asg : asg[a].status = "running" /\ asg[a].lapsed}

\* A call as it enters the coordinator: the sweeping ones select first.
Entered(fields) ==
  IF fields.op \in Sweeping /\ StaleIds # {}
  THEN [fields EXCEPT !.pc = "expiring", !.ids = StaleIds]
  ELSE [fields EXCEPT !.pc = "body"]

Enter(c, fields) ==
  /\ call[c].op = "none"
  /\ call' = [call EXCEPT ![c] = Entered(fields)]

Go(c, pc) == call' = [call EXCEPT ![c].pc = pc]
Return(c) == call' = [call EXCEPT ![c] = NoCall]

\* DELETE FROM collaboration_repo_leases WHERE assignment_id = ?
ReleaseRepoLeases(S) ==
  lease' = [r \in Repo |-> IF lease[r] \in S THEN None ELSE lease[r]]

LeaseValid(a) ==
  /\ asg[a].status = "running" /\ ~asg[a].lapsed
  /\ ~device[asg[a].device].revoked

ExpireUnguarded(c) ==
  /\ call[c].pc = "expiring"
  /\ \E a \in call[c].ids :
       /\ asg' = [asg EXCEPT ![a].status = "lease_expired", ![a].lapsed = FALSE]
       /\ ReleaseRepoLeases({a})
       /\ call' = [call EXCEPT ![c].ids = @ \ {a}, ![c].out = @ \cup {a}]
  /\ UNCHANGED <<device, change, thread, queue, worker, ghosts, bounds>>

\* One transaction per selected row: the update looks at the status again,
\* the delete of its repository leases does not.
ExpireOne(c) ==
  /\ call[c].pc = "expiring"
  /\ \E a \in call[c].ids :
       /\ asg' = [asg EXCEPT ![a] =
            IF @.status = "running"
            THEN [@ EXCEPT !.status = "lease_expired", !.lapsed = FALSE] ELSE @]
       /\ ReleaseRepoLeases({a})
       /\ call' = [call EXCEPT ![c].ids = @ \ {a}, ![c].out = @ \cup {a}]
  /\ UNCHANGED <<device, change, thread, queue, worker, ghosts, bounds>>

OfflineSelect(c) ==
  /\ call[c].pc = "expiring" /\ call[c].ids = {}
  /\ call' = [call EXCEPT ![c].pc = "failing",
       ![c].ids = {a \in Asg : asg[a].status = "queued" /\ ~device[asg[a].device].online}]
  /\ UNCHANGED <<hub, queue, worker, ghosts, bounds>>

FailOne(c) ==
  /\ call[c].pc = "failing"
  /\ \E a \in call[c].ids :
       /\ asg' = [asg EXCEPT ![a].status = IF @ = "queued" THEN "failed" ELSE @]
       /\ ReleaseRepoLeases({a})
       /\ call' = [call EXCEPT ![c].ids = @ \ {a}, ![c].out = @ \cup {a}]
  /\ UNCHANGED <<device, change, thread, queue, worker, ghosts, bounds>>

\* expire_collaboration_leases: the turns of the swept assignments end and
\* their threads wait for the network.
NotifyExpired(c) ==
  /\ call[c].pc = "failing" /\ call[c].ids = {}
  /\ thread' = [t \in Thread |-> IF \E a \in call[c].out : asg[a].thread = t
                                 THEN "waiting_for_network" ELSE thread[t]]
  /\ call' = [call EXCEPT ![c].pc = "body", ![c].out = {}]
  /\ UNCHANGED <<device, asg, lease, change, queue, worker, ghosts, bounds>>

Heartbeat(d) ==
  /\ ~device[d].online
  /\ Enter(d, [NoCall EXCEPT !.op = "heartbeat"])
  /\ UNCHANGED <<hub, queue, worker, ghosts, bounds>>

HeartbeatDevice(d) ==
  /\ call[d].op = "heartbeat" /\ call[d].pc = "body"
  /\ device' = [device EXCEPT ![d].online = TRUE]
  /\ Return(d)
  /\ UNCHANGED <<asg, lease, change, thread, queue, worker, ghosts, bounds>>

\* Pairing again reactivates the row, and does not sweep.
RegisterDevice(d) ==
  /\ device[d] # Paired
  /\ device' = [device EXCEPT ![d] = Paired]
  /\ UNCHANGED <<asg, lease, change, thread, queue, call, worker, ghosts, bounds>>

\* validate_lease, then the insert: the row is not looked at again.
ReportValidate(c) ==
  /\ call[c].op = "report" /\ call[c].pc = "body"
  /\ LeaseValid(call[c].a)
  /\ Go(c, "insert")
  /\ UNCHANGED <<hub, queue, worker, ghosts, bounds>>

InsertChangeSet(c) ==
  /\ call[c].op = "report" /\ call[c].pc = "insert"
  /\ change' = [change EXCEPT ![call[c].a][call[c].r] = "pending"]
  /\ Return(c)
  /\ UNCHANGED <<device, asg, lease, thread, queue, worker, ghosts, bounds>>

\* finish_assignment, for a state the worker reports (the thread status it
\* leads to is call[c].to: "review" for a completed session).
FinishAssignment(c) ==
  LET a == call[c].a
      ok == asg[a].status = "running" /\ ~asg[a].lapsed IN
  /\ call[c].op = "finish" /\ call[c].pc = "body" /\ ok
  /\ asg' = [asg EXCEPT ![a].status = IF call[c].to = "review" THEN "review" ELSE "failed"]
  /\ IF call[c].to = "review" THEN Go(c, "complete") /\ UNCHANGED lease
     ELSE Go(c, "save") /\ ReleaseRepoLeases({a})
  /\ UNCHANGED <<device, change, thread, queue, worker, ghosts, bounds>>

SettlesWithConflicts(a) ==
  /\ asg[a].status = "review"
  /\ \A r \in Repo : change[a][r] # "pending"

Settles(a) ==
  /\ asg[a].status = "review"
  /\ \A r \in Repo : change[a][r] \notin Open

\* complete_assignment_review, called by finish and after every decision.
CompleteReview(c) ==
  LET a == call[c].a IN
  /\ call[c].pc = "complete"
  /\ \/ /\ Settles(a)
        /\ asg' = [asg EXCEPT ![a].status = "completed"]
        /\ ReleaseRepoLeases({a})
        /\ call' = [call EXCEPT ![c].pc = "save", ![c].to = "done"]
     \/ /\ ~Settles(a)
        /\ IF call[c].op = "finish" THEN Go(c, "save") ELSE Return(c)
        /\ UNCHANGED <<asg, lease>>
  /\ UNCHANGED <<device, change, thread, queue, worker, ghosts, bounds>>

SaveThread(c) ==
  /\ call[c].pc = "save"
  /\ thread' = [thread EXCEPT ![asg[call[c].a].thread] = call[c].to]
  /\ Return(c)
  /\ UNCHANGED <<device, asg, lease, change, queue, worker, ghosts, bounds>>

----------------------------------------------------------------------------
(* People *)

Fault(kind) == kind \in FaultKinds /\ faults < MaxFaults /\ faults' = faults + 1

Bounded(op) == op \in UserOps /\ calls < MaxCalls /\ calls' = calls + 1

\* Reads refresh the interface; what they change is what their sweep changes.
Snapshot(u) ==
  /\ StaleIds # {}
  /\ Enter(u, [NoCall EXCEPT !.op = "snapshot"])
  /\ UNCHANGED <<hub, queue, worker, ghosts, bounds>>

SnapshotRead(u) ==
  /\ call[u].op = "snapshot" /\ call[u].pc = "body"
  /\ Return(u)
  /\ UNCHANGED <<hub, queue, worker, ghosts, bounds>>

Create(u) ==
  /\ Bounded("create")
  /\ \E t \in Thread, d \in Device, w \in BOOLEAN :
       Enter(u, [NoCall EXCEPT !.op = "create", !.new = NewAssignment(t, d, w)])
  /\ UNCHANGED <<hub, queue, worker, ghosts, faults>>

\* Only failed or disconnected work is retried, with the parameters of its row.
Retry(u) ==
  /\ Bounded("retry")
  /\ \E a \in Asg :
       /\ asg[a].status \in {"failed", "lease_expired"}
       /\ Enter(u, [NoCall EXCEPT !.op = "create",
                     !.new = NewAssignment(asg[a].thread, asg[a].device, asg[a].write)])
  /\ UNCHANGED <<hub, queue, worker, ghosts, faults>>

Wanted(new) == IF new.write THEN Repos[new.thread] ELSE {}

\* Those of the wanted repositories that some assignment holds.
LockedRepos(new) == {r \in Wanted(new) : lease[r] # None}

\* The checks of create_collaboration_assignment_inner.
CreateCheck(u) ==
  LET new == call[u].new
      ok == /\ ~device[new.device].revoked /\ device[new.device].online
            /\ LockedRepos(new) = {} IN
  /\ call[u].op = "create" /\ call[u].pc = "body"
  /\ IF ok THEN Go(u, "insert") ELSE Return(u)
  /\ UNCHANGED <<hub, queue, worker, ghosts, bounds>>

\* insert_assignment: repo_id is the primary key of the leases, so the
\* transaction fails when another writer got there first.
InsertAssignment(u) ==
  LET new == call[u].new IN
  /\ call[u].op = "create" /\ call[u].pc = "insert"
  /\ \/ /\ \E r \in Wanted(new) : lease[r] # None
        /\ Return(u)
        /\ UNCHANGED <<asg, lease>>
     \/ /\ \A r \in Wanted(new) : lease[r] = None
        /\ \E a \in Asg :
             /\ asg[a].status = "none"
             /\ asg' = [asg EXCEPT ![a] = new]
             /\ lease' = [r \in Repo |-> IF r \in Wanted(new) THEN a ELSE lease[r]]
             /\ call' = [call EXCEPT ![u].pc = "save", ![u].a = a, ![u].to = "queued"]
     \/ /\ \A a \in Asg : asg[a].status # "none"    \* bound: no identifier left
        /\ Return(u)
        /\ UNCHANGED <<asg, lease>>
  /\ UNCHANGED <<device, change, thread, queue, worker, ghosts, bounds>>

\* cancel_assignment: one guarded update and the delete of the leases.
CancelRow(a) ==
  /\ asg[a].status \in Live \cup {"failed", "lease_expired"}
  /\ asg' = [asg EXCEPT ![a].status = "cancelled", ![a].lapsed = FALSE]
  /\ ReleaseRepoLeases({a})

CancelAssignment(u) ==
  /\ Bounded("cancel")
  /\ call[u].op = "none"
  /\ \E a \in Asg :
       /\ CancelRow(a)
       /\ call' = [call EXCEPT ![u] = [NoCall EXCEPT !.op = "cancel", !.a = a,
                                         !.pc = "save", !.to = "paused"]]
  /\ UNCHANGED <<device, change, thread, queue, worker, ghosts, faults>>

Revoked(d) == {a \in Asg : asg[a].device = d /\ asg[a].status \in {"queued", "running"}}

RevokeKeepsLeases(d) == UNCHANGED lease

RevokeLeases(d) ==
  ReleaseRepoLeases(Revoked(d) \cup
                    {a \in Asg : asg[a].device = d /\ asg[a].status = "cancelled"})

\* One transaction; neither the turns nor the threads are told.
RevokeDevice(u) ==
  /\ Bounded("revoke")
  /\ call[u].op = "none"
  /\ \E d \in Device :
       /\ device' = [device EXCEPT ![d].revoked = TRUE]
       /\ asg' = [a \in Asg |-> IF a \in Revoked(d)
                    THEN [asg[a] EXCEPT !.status = "cancelled", !.lapsed = FALSE]
                    ELSE asg[a]]
       /\ RevokeLeases(d)
  /\ UNCHANGED <<change, thread, queue, call, worker, ghosts, faults>>

\* Apply or reject a change set: the status is read, the patch is tried
\* against the checkout, and only then the outcome is written.
Decide(u) ==
  \E op \in {"apply", "reject"}, a \in Asg, r \in Repo :
    /\ Bounded(op)
    /\ change[a][r] \in Open
    /\ call[u].op = "none"
    /\ call' = [call EXCEPT ![u] = [NoCall EXCEPT !.op = op, !.a = a, !.r = r,
                                      !.pc = "write"]]
    /\ UNCHANGED <<hub, queue, worker, ghosts, faults>>

SetChangeStatus(c, to) ==
  change' = [change EXCEPT ![call[c].a][call[c].r] = to]

\* Dirty files, or a patch that does not apply: kept for the user to decide.
ApplyConflict(u) ==
  /\ call[u].op = "apply" /\ call[u].pc = "write"
  /\ SetChangeStatus(u, "conflict")
  /\ Return(u)
  /\ UNCHANGED <<device, asg, lease, thread, queue, worker, ghosts, bounds>>

UpdateChangeStatus(u) ==
  LET to == IF call[u].op = "apply" THEN "applied" ELSE "rejected" IN
  /\ call[u].op \in {"apply", "reject"} /\ call[u].pc = "write"
  /\ SetChangeStatus(u, to)
  /\ decided' = decided \cup {<<call[u].a, call[u].r>>}
  /\ Go(u, "complete")
  /\ UNCHANGED <<device, asg, lease, thread, queue, worker, sent, handed, rival, bounds>>

\* send_thread_message of a thread that a device is working on.
QueueInstruction(u) ==
  /\ Bounded("instruct")
  /\ \E t \in Thread, i \in Instr :
       /\ \E a \in Asg : asg[a].thread = t /\ asg[a].status \in {"queued", "running"}
       /\ \A a \in Asg : asg[a].thread = t => asg[a].status # "review"
       /\ i \notin sent
       /\ sent' = sent \cup {i}
       /\ queue' = [queue EXCEPT ![t] = @ \cup {i}]
  /\ UNCHANGED <<hub, call, worker, decided, handed, rival, faults>>

----------------------------------------------------------------------------
(* The worker *)

Kept(w) == {a \in Asg : run[<<w, a>>].kept}        \* the `active' map
Finishing(x) == run[x].phase \in {"syncing", "publishing", "ending"}

Listed(w) ==
  LET mine == {a \in Asg : asg[a].device = DeviceOf[w] /\ asg[a].status \in Live} IN
  [pc |-> "handle", seen |-> mine, queued |-> {a \in mine : asg[a].status = "queued"}]

\* A poll that finds nothing to do changes nothing and is left out.
PollFinds(w) ==
  \/ Listed(w).queued # {}
  \/ \E a \in Kept(w) : \/ a \notin Listed(w).seen /\ run[<<w, a>>].local = "running"
                        \/ queue[asg[a].thread] # {}

\* The sweep of the list call, then the list.  A worker starts after its
\* device registered, so the device has been seen.
Poll(w) ==
  /\ poll[w].pc = "idle" /\ call[w].op = "none"
  /\ device[DeviceOf[w]].online
  /\ PollFinds(w)
  /\ IF StaleIds = {} THEN poll' = [poll EXCEPT ![w] = Listed(w)] /\ UNCHANGED call
     ELSE /\ Enter(w, [NoCall EXCEPT !.op = "list"])
          /\ poll' = [poll EXCEPT ![w].pc = "listing"]
  /\ UNCHANGED <<hub, queue, run, sync, ghosts, bounds>>

PollList(w) ==
  /\ call[w].op = "list" /\ call[w].pc = "body"
  /\ poll' = IF poll[w].pc = "listing" THEN [poll EXCEPT ![w] = Listed(w)] ELSE poll
  /\ Return(w)
  /\ UNCHANGED <<hub, queue, run, sync, ghosts, bounds>>

\* A local session stops; the worker hears of it at once, and starts to
\* finish the run unless it is finishing already.
Stopped(r, s) ==
  IF r.phase = "active" THEN [r EXCEPT !.local = s, !.status = s, !.phase = "syncing"]
  ELSE [r EXCEPT !.local = s]

StopLocal(r) == IF r.local = "running" THEN Stopped(r, "paused") ELSE r

StartFinal(old, new) ==
  [x \in DOMAIN sync |->
     IF /\ x[3] = "final" /\ old[<<x[1], x[2]>>].phase # "syncing"
        /\ new[<<x[1], x[2]>>].phase = "syncing"
     THEN [NoSync EXCEPT !.pc = "list"] ELSE sync[x]]

\* Runs no longer listed are stopped, and queued ones claimed while the
\* worker has slots left.
PollHandle(w) ==
  LET lost == Kept(w) \ poll[w].seen
      room == IF Slots > Cardinality(Kept(w)) THEN Slots - Cardinality(Kept(w)) ELSE 0
      queued == poll[w].queued
      stopped == [x \in Worker \X Asg |->
                    IF x[1] = w /\ x[2] \in lost THEN StopLocal(run[x]) ELSE run[x]] IN
  /\ poll[w].pc = "handle"
  /\ \E S \in SUBSET queued :
       /\ \A a \in S : call[<<w, a>>].op = "none"
       /\ Cardinality(S) = IF room < Cardinality(queued) THEN room ELSE Cardinality(queued)
       /\ run' = [x \in Worker \X Asg |->
            IF x[1] = w /\ x[2] \in S /\ ~run[x].kept
            THEN [NoRun EXCEPT !.phase = "claiming"] ELSE stopped[x]]
       /\ call' = [c \in Caller |->
            IF c \in {<<w, a>> : a \in {b \in S : ~run[<<w, b>>].kept}}
            THEN Entered([NoCall EXCEPT !.op = "claim", !.a = c[2]]) ELSE call[c]]
  /\ sync' = StartFinal(run, stopped)
  /\ poll' = [poll EXCEPT ![w] = [NotPolling EXCEPT !.pc = "claiming"]]
  /\ UNCHANGED <<hub, queue, ghosts, bounds>>

ClaimAny(a, d) == asg[a].status \in {"queued", "running"} /\ ~device[d].revoked

\* The claim is one guarded update, so of several processes one wins.
ClaimGuard(a, d) ==
  /\ asg[a].status = "queued" /\ asg[a].device = d
  /\ ~device[d].revoked

ClaimAssignment(w, a) ==
  LET x == <<w, a>>
      waiting == run[x].phase = "claiming" IN
  /\ call[x].op = "claim" /\ call[x].pc = "body"
  /\ \/ /\ ClaimGuard(a, DeviceOf[w])
        /\ asg' = [asg EXCEPT ![a].status = "running", ![a].lapsed = FALSE]
        /\ call' = [call EXCEPT ![x].pc = "save", ![x].to = "running"]
        /\ run' = [run EXCEPT ![x].phase = IF waiting THEN "preparing" ELSE @]
     \/ /\ ~ClaimGuard(a, DeviceOf[w])
        /\ Return(x)
        /\ run' = [run EXCEPT ![x].phase = IF waiting THEN "none" ELSE @]
        /\ UNCHANGED asg
  /\ UNCHANGED <<device, lease, change, thread, queue, poll, sync, ghosts, bounds>>

\* Another window of the same device polls as well, and gets there first.
\* Of its run only the claim is followed.
OtherWindowClaims(d) ==
  /\ Fault("window") /\ call[d].op = "none"
  /\ \E a \in Asg :
       /\ ClaimGuard(a, d)
       /\ asg' = [asg EXCEPT ![a].status = "running", ![a].lapsed = FALSE]
       /\ rival' = rival \cup {a}
       /\ call' = [call EXCEPT ![d] = [NoCall EXCEPT !.op = "claim", !.pc = "save",
                                         !.a = a, !.to = "running"]]
  /\ UNCHANGED <<device, lease, change, thread, queue, worker, decided, sent, handed, calls>>

FinishCall(a, to) ==
  [NoCall EXCEPT !.op = "finish", !.pc = "body", !.a = a, !.to = to]

\* prepareMirror: a mirror thread with the repositories matched, or an error.
PrepareMirror(w, a) ==
  LET x == <<w, a>> IN
  /\ run[x].phase = "preparing" /\ call[x].op = "none"
  /\ \/ /\ run' = [run EXCEPT ![x].phase = "starting", ![x].kept = TRUE, ![x].local = "idle"]
        /\ UNCHANGED <<call, faults>>
     \/ /\ Fault("prepare")
        /\ run' = [run EXCEPT ![x].phase = "ending"]
        /\ call' = [call EXCEPT ![x] = FinishCall(a, "failed")]
  /\ UNCHANGED <<hub, queue, poll, sync, ghosts, calls>>

\* runAgentThread.  When it fails the mirror is deleted and the assignment
\* reported failed; the entry of the `active' map and its timer stay.
StartLocal(w, a) ==
  LET x == <<w, a>> IN
  /\ run[x].phase = "starting"
  /\ \/ /\ run' = [run EXCEPT ![x].phase = "active", ![x].local = "running"]
        /\ UNCHANGED <<call, faults>>
     \/ /\ Fault("start")
        /\ run' = [run EXCEPT ![x].phase = "ending", ![x].local = "none"]
        /\ call' = [call EXCEPT ![x] = FinishCall(a, "failed")]
  /\ UNCHANGED <<hub, queue, poll, sync, ghosts, calls>>

\* After a failed start the task ends, whatever the coordinator said.
FailedStart(w, a) ==
  LET x == <<w, a>> IN
  /\ run[x].phase = "ending" /\ call[x].op = "none" /\ run[x].status = "none"
  /\ run' = [run EXCEPT ![x] = [NoRun EXCEPT !.kept = run[x].kept]]
  /\ UNCHANGED <<hub, queue, call, poll, sync, ghosts, bounds>>

\* The claims of this poll are done; every run is synchronised.
PollSync(w) ==
  /\ poll[w].pc = "claiming"
  /\ \A a \in Asg : run[<<w, a>>].phase \notin {"claiming", "preparing", "starting"}
  /\ \A a \in Asg : ~(run[<<w, a>>].phase = "ending" /\ run[<<w, a>>].status = "none")
  /\ poll' = [poll EXCEPT ![w] = IF \A a \in Kept(w) : queue[asg[a].thread] = {} THEN NotPolling
                                  ELSE [@ EXCEPT !.pc = "syncing"]]
  /\ sync' = [x \in DOMAIN sync |->
       IF x[1] = w /\ x[3] = "poll" /\ x[2] \in Kept(w) /\ queue[asg[x[2]].thread] # {}
       THEN [NoSync EXCEPT !.pc = "list"] ELSE sync[x]]
  /\ UNCHANGED <<hub, queue, call, run, ghosts, bounds>>

PollDone(w) ==
  /\ poll[w].pc = "syncing"
  /\ \A a \in Asg : sync[<<w, a, "poll">>].pc = "none"
  /\ poll' = [poll EXCEPT ![w] = NotPolling]
  /\ UNCHANGED <<hub, queue, call, run, sync, ghosts, bounds>>

\* syncInstructions: list, and for each one not yet delivered a report to
\* the coordinator, the message to the mirror, then the delete.
SyncList(x) ==
  /\ sync[x].pc = "list"
  /\ sync' = [sync EXCEPT ![x] =
       [@ EXCEPT !.pc = "take", !.todo = queue[asg[x[2]].thread]]]
  /\ UNCHANGED <<hub, queue, call, poll, run, ghosts, bounds>>

\* report_collaboration_event: what it writes is a transcript entry.
EventAccepted(a) == LeaseValid(a)

SyncTake(x) ==
  LET r == run[<<x[1], x[2]>>] IN
  /\ sync[x].pc = "take"
  /\ \E i \in sync[x].todo :
       \/ /\ i \in r.delivered
          /\ sync' = [sync EXCEPT ![x].pc = "delete", ![x].i = i]
       \/ /\ i \notin r.delivered /\ EventAccepted(x[2])
          /\ sync' = [sync EXCEPT ![x].pc = "send", ![x].i = i]
  /\ UNCHANGED <<hub, queue, call, poll, run, ghosts, bounds>>

Received(r) ==
  IF r.local = "running" THEN [r EXCEPT !.msgs = IF @ < MaxCalls THEN @ + 1 ELSE @]
  ELSE [r EXCEPT !.local = "running"]

SyncSend(x) ==
  LET r == run[<<x[1], x[2]>>] IN
  /\ sync[x].pc = "send" /\ r.local # "none"
  /\ run' = [run EXCEPT ![<<x[1], x[2]>>] =
       [Received(r) EXCEPT !.delivered = @ \cup {sync[x].i}, !.cont = TRUE]]
  /\ handed' = handed \cup {sync[x].i}
  /\ sync' = [sync EXCEPT ![x].pc = "delete"]
  /\ UNCHANGED <<hub, queue, call, poll, decided, sent, rival, bounds>>

DeleteTaken(x) ==
  /\ sync[x].pc \in {"delete", "send"}
  /\ queue' = [t \in Thread |-> queue[t] \ {sync[x].i}]
  /\ sync' = [sync EXCEPT ![x] = [pc |-> "take", todo |-> sync[x].todo \ {sync[x].i}, i |-> None]]
  /\ UNCHANGED <<hub, call, poll, run, ghosts, bounds>>

DeleteQueued(x) ==
  /\ sync[x].pc = "delete"
  /\ queue' = [t \in Thread |-> queue[t] \ {sync[x].i}]
  /\ sync' = [sync EXCEPT ![x] = [pc |-> "take", todo |-> sync[x].todo \ {sync[x].i}, i |-> None]]
  /\ UNCHANGED <<hub, call, poll, run, ghosts, bounds>>

\* A report the coordinator refuses, or a mirror that is gone: the poll
\* logs it; the final check puts the run back and tries again later.
SyncFailed(x) ==
  LET k == <<x[1], x[2]>> IN
  /\ \/ /\ sync[x].pc = "take"
        /\ \E i \in sync[x].todo : i \notin run[k].delivered /\ ~EventAccepted(x[2])
     \/ sync[x].pc = "send" /\ run[k].local = "none"
  /\ sync' = [sync EXCEPT ![x] = NoSync]
  /\ run' = IF x[3] = "final" THEN [run EXCEPT ![k].phase = "retry"] ELSE run
  /\ UNCHANGED <<hub, queue, call, poll, ghosts, bounds>>

FinalRetry(w, a) ==
  LET x == <<w, a>> IN
  /\ run[x].phase = "retry"
  /\ run' = [run EXCEPT ![x].phase = "syncing"]
  /\ sync' = [sync EXCEPT ![<<w, a, "final">>] = [NoSync EXCEPT !.pc = "list"]]
  /\ UNCHANGED <<hub, queue, call, poll, ghosts, bounds>>

SyncPollDone(w, a) ==
  /\ sync[<<w, a, "poll">>].pc = "take" /\ sync[<<w, a, "poll">>].todo = {}
  /\ sync' = [sync EXCEPT ![<<w, a, "poll">>] = NoSync]
  /\ UNCHANGED <<hub, queue, call, poll, run, ghosts, bounds>>

\* finishRun goes on: back to the run when a follow-up was sent, else the
\* diff is read and its repositories are reported.
FinalDone(w, a) ==
  LET x == <<w, a>>
      y == <<w, a, "final">> IN
  /\ sync[y].pc = "take" /\ sync[y].todo = {}
  /\ sync' = [sync EXCEPT ![y] = NoSync]
  /\ \/ run[x].cont /\ run' = [run EXCEPT ![x].phase = "active"]
     \/ /\ ~run[x].cont
        /\ \E S \in (IF run[x].status = "review" /\ asg[a].write
                     THEN SUBSET Repos[asg[a].thread] ELSE {{}}) :
             run' = [run EXCEPT ![x].phase = "publishing", ![x].todo = S]
  /\ UNCHANGED <<hub, queue, call, poll, ghosts, bounds>>

Publish(w, a) ==
  LET x == <<w, a>> IN
  /\ run[x].phase = "publishing" /\ call[x].op = "none"
  /\ \/ \E r \in run[x].todo :
          /\ call' = [call EXCEPT ![x] = [NoCall EXCEPT !.op = "report", !.a = a,
                                            !.r = r, !.pc = "body"]]
          /\ run' = [run EXCEPT ![x].todo = @ \ {r}]
     \/ /\ run[x].todo = {}
        /\ call' = [call EXCEPT ![x] = FinishCall(a, run[x].status)]
        /\ run' = [run EXCEPT ![x].phase = "ending"]
  /\ UNCHANGED <<hub, queue, poll, sync, ghosts, bounds>>

\* The coordinator refused a report: the run is reported failed instead,
\* without the remaining change sets.
PublishRefused(x) ==
  /\ call[x].op = "report" /\ call[x].pc = "body" /\ ~LeaseValid(call[x].a)
  /\ \/ /\ run[x].phase = "publishing"
        /\ call' = [call EXCEPT ![x] = FinishCall(call[x].a, "failed")]
        /\ run' = [run EXCEPT ![x].phase = "ending"]
     \/ run[x].phase # "publishing" /\ Return(x) /\ UNCHANGED run   \* it was closed
  /\ UNCHANGED <<hub, queue, poll, sync, ghosts, bounds>>

\* finish refused: the lease was lost.
FinishRefused(x) ==
  /\ call[x].op = "finish" /\ call[x].pc = "body"
  /\ ~(asg[call[x].a].status = "running" /\ ~asg[call[x].a].lapsed)
  /\ Return(x)
  /\ UNCHANGED <<hub, queue, worker, ghosts, bounds>>

\* The `finally' of finishRun: the entry goes, and the mirror with it.
Close(w, a) ==
  LET x == <<w, a>> IN
  /\ run[x].phase = "ending" /\ call[x].op = "none" /\ run[x].status # "none"
  /\ run' = [run EXCEPT ![x] = NoRun]
  /\ UNCHANGED <<hub, queue, call, poll, sync, ghosts, bounds>>

\* The mirror's session ends, or goes on with a follow-up it had queued.
LocalEnds(w, a) ==
  LET x == <<w, a>> IN
  /\ run[x].local = "running"
  /\ \E s \in Ended : run' = [run EXCEPT ![x] = Stopped(@, s)]
  /\ sync' = StartFinal(run, run')
  /\ UNCHANGED <<hub, queue, call, poll, ghosts, bounds>>

LocalContinues(w, a) ==
  LET x == <<w, a>> IN
  /\ run[x].local \in Ended /\ run[x].msgs > 0
  /\ run' = [run EXCEPT ![x].local = "running", ![x].msgs = @ - 1,
                        ![x].cont = @ /\ run[x].phase # "active"]
  /\ UNCHANGED <<hub, queue, call, poll, sync, ghosts, bounds>>

\* Any update of a running mirror clears the expected continuation.
LocalUpdated(w, a) ==
  LET x == <<w, a>> IN
  /\ run[x].local = "running" /\ run[x].phase = "active" /\ run[x].cont
  /\ run' = [run EXCEPT ![x].cont = FALSE]
  /\ UNCHANGED <<hub, queue, call, poll, sync, ghosts, bounds>>

\* renewLease: the second failure in a row stops the session.
RenewFails(w, a) ==
  LET x == <<w, a>> IN
  /\ run[x].kept /\ ~Finishing(x)
  /\ \/ ~(asg[a].status = "running" /\ ~asg[a].lapsed) /\ UNCHANGED faults
     \/ Fault("renew")
  /\ run[x].fails < 2
  /\ run' = [run EXCEPT ![x] = IF @.fails = 0 THEN [@ EXCEPT !.fails = 1]
                               ELSE StopLocal([@ EXCEPT !.fails = 2])]
  /\ sync' = StartFinal(run, run')
  /\ UNCHANGED <<hub, queue, call, poll, ghosts, calls>>

RenewLease(w, a) ==
  LET x == <<w, a>> IN
  /\ run[x].kept /\ ~Finishing(x) /\ run[x].fails > 0
  /\ asg[a].status = "running" /\ ~asg[a].lapsed
  /\ run' = [run EXCEPT ![x].fails = 0]
  /\ UNCHANGED <<hub, queue, call, poll, sync, ghosts, bounds>>

\* Leaving the workspace, a lost connection, or the window closing.  Calls
\* that reached the coordinator go on there.  Heartbeats stop as well, and
\* come back before or after the coordinator takes the device for offline.
Dispose(w) ==
  /\ Fault("close")
  /\ \E a \in Asg : run[<<w, a>>] # NoRun
  /\ run' = [x \in Worker \X Asg |-> IF x[1] = w THEN NoRun ELSE run[x]]
  /\ sync' = [x \in DOMAIN sync |-> IF x[1] = w THEN NoSync ELSE sync[x]]
  /\ poll' = [poll EXCEPT ![w] = NotPolling]
  /\ \E late \in BOOLEAN :
       device' = [device EXCEPT ![DeviceOf[w]].online = @ /\ ~late]
  /\ UNCHANGED <<asg, lease, change, thread, queue, call, ghosts, calls>>

----------------------------------------------------------------------------
(* Time *)

Renewed(a) ==
  \E w \in Worker : run[<<w, a>>].kept \/ run[<<w, a>>].phase = "preparing"

\* A lease nobody renews lapses; one that is renewed may, when renewals are late.
Lapse(a) ==
  /\ asg[a].status = "running" /\ ~asg[a].lapsed
  /\ \/ ~Renewed(a) /\ UNCHANGED faults
     \/ Renewed(a) /\ Fault("lapse")
  /\ asg' = [asg EXCEPT ![a].lapsed = TRUE]
  /\ UNCHANGED <<device, lease, change, thread, queue, call, worker, ghosts, calls>>

\* Heartbeats are late: the device was not seen for 45 seconds.
GoOffline(d) ==
  /\ device[d].online
  /\ Fault("offline")
  /\ device' = [device EXCEPT ![d].online = FALSE]
  /\ UNCHANGED <<asg, lease, change, thread, queue, call, worker, ghosts, calls>>

----------------------------------------------------------------------------
HubStep(c) ==
  \/ ExpireOne(c) \/ OfflineSelect(c) \/ FailOne(c)
  \/ NotifyExpired(c) \/ ReportValidate(c) \/ InsertChangeSet(c)
  \/ FinishAssignment(c) \/ CompleteReview(c) \/ SaveThread(c)

UserStep(u) ==
  \/ SnapshotRead(u) \/ CreateCheck(u) \/ InsertAssignment(u)
  \/ ApplyConflict(u) \/ UpdateChangeStatus(u)

UserCall(u) ==
  \/ Create(u) \/ Retry(u) \/ CancelAssignment(u) \/ RevokeDevice(u)
  \/ Decide(u) \/ QueueInstruction(u)

PollStep(w) == Poll(w) \/ PollList(w) \/ PollHandle(w) \/ PollSync(w) \/ PollDone(w)

RunStep(w, a) ==
  \/ ClaimAssignment(w, a) \/ PrepareMirror(w, a) \/ StartLocal(w, a) \/ FailedStart(w, a)
  \/ FinalRetry(w, a) \/ SyncPollDone(w, a) \/ FinalDone(w, a) \/ Publish(w, a)
  \/ PublishRefused(<<w, a>>) \/ FinishRefused(<<w, a>>) \/ Close(w, a)
  \/ RenewFails(w, a) \/ RenewLease(w, a)

LocalStep(w, a) == LocalEnds(w, a) \/ LocalContinues(w, a) \/ LocalUpdated(w, a)

SyncStep(x) ==
  SyncList(x) \/ SyncTake(x) \/ SyncSend(x) \/ DeleteQueued(x) \/ SyncFailed(x)

Next ==
  \/ \E c \in Caller : HubStep(c)
  \/ \E u \in User : UserStep(u) \/ UserCall(u) \/ Snapshot(u)
  \/ \E d \in Device : Heartbeat(d) \/ HeartbeatDevice(d) \/ RegisterDevice(d)
                     \/ GoOffline(d) \/ OtherWindowClaims(d)
  \/ \E w \in Worker : PollStep(w) \/ Dispose(w)
  \/ \E w \in Worker, a \in Asg : RunStep(w, a) \/ LocalStep(w, a)
  \/ \E x \in DOMAIN sync : SyncStep(x)
  \/ \E a \in Asg : Lapse(a)

Spec == Init /\ [][Next]_vars

\* The interface refreshes, tokio runs every call it started, clocks advance.
Fairness ==
  /\ \A c \in Caller : WF_vars(HubStep(c))
  /\ \A u \in User : WF_vars(UserStep(u)) /\ WF_vars(Snapshot(u))
  /\ \A a \in Asg : WF_vars(Lapse(a))

LiveSpec == Spec /\ Fairness

----------------------------------------------------------------------------
(* Properties *)

\* Only work that is queued, running or in review keeps a repository: no
\* path that ends an assignment (finish, cancel, expiry, offline, revoke,
\* review) leaves a lease that would block every later writer
\* (am-db/repos/collaboration.rs).
LeasesBacked ==
  \A r \in Repo : lease[r] # None =>
    /\ asg[lease[r]].status \in Live /\ asg[lease[r]].write
    /\ r \in Repos[asg[lease[r]].thread]

\* However many windows poll for one device, one of them runs an
\* assignment: what another window claimed is never mirrored here
\* (claim_assignment is the only way in).
OneRun == \A w \in Worker, a \in rival : run[<<w, a>>].local = "none"

\* Nothing that came back is dropped: every change set of a completed
\* assignment was applied or rejected by someone (complete_assignment_review
\* against apply, reject and the worker's late reports).
DecidedBeforeDone ==
  \A a \in Asg, r \in Repo :
    asg[a].status = "completed" /\ change[a][r] # "none" => <<a, r>> \in decided

\* A follow-up leaves the coordinator's queue only when a mirror has it
\* (syncInstructions, run by the poll and by finishRun at once).
HandedOver ==
  \A i \in sent : i \in handed \/ \E t \in Thread : i \in queue[t]

\* An assignment that ended stays ended, whatever calls were under way when
\* it did; only cancel touches it again (the status guards of the updates).
EndedStaysEnded ==
  [][\A a \in Asg :
       asg[a].status \in Status \ Live =>
         \/ asg'[a].status = asg[a].status
         \/ asg[a].status \in {"failed", "lease_expired"} /\ asg'[a].status = "cancelled"]_vars

\* A claimed assignment whose worker is gone ends (expire_stale_assignments).
OrphanedRunEnds ==
  \A a \in Asg : (asg[a].status = "running" /\ ~Renewed(a)) ~> asg[a].status # "running"

\* Rows are well typed, repositories are kept by live assignments only, and
\* an assignment is carried out by the one worker that claimed it.
ClaimsSound == TypeOK /\ LeasesBacked /\ OneRun

\* No change set and no follow-up gets lost between the coordinator and a
\* worker that both act on the end of a run.
NothingDropped == DecidedBeforeDone /\ HandedOver
=============================================================================
