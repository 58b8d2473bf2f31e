------------------------ MODULE CollaborationProofs ------------------------
(***************************************************************************)
(* Proofs about Collaboration for every set of threads, repositories,      *)
(* devices, workers, people and assignments.                               *)
(***************************************************************************)
EXTENDS Collaboration, TLAPS

(***************************************************************************)
(* The inductive invariant, part by part.                                  *)
(***************************************************************************)

(* A row that was ever written names a thread and a device. *)
RowsNamed ==
  \A a \in Asg : asg[a].status # "none" =>
    asg[a].thread \in Thread /\ asg[a].device \in Device

(* A call carries the row, the assignment or the change set it is about; only
   a worker's own call reports on an assignment or finishes it. *)
CallFits(c, v, ch) ==
  /\ v.op = "create" =>
       v.new.status = "queued" /\ v.new.thread \in Thread /\ v.new.device \in Device
  /\ v.op \in {"report", "finish"} => c \in Worker \X Asg /\ v.a = c[2]
  /\ v.op \in {"apply", "reject"} =>
       v.a \in Asg /\ v.r \in Repo /\ ch[v.a][v.r] # "none"
  /\ v.pc = "complete" => v.op \in {"finish", "apply", "reject"}
CallShape == \A c \in Caller : CallFits(c, call[c], change)

(* Where a run is, against its entry in the `active' map, its mirror and the
   final synchronisation. *)
RunFits(r, final) ==
  /\ r.phase \in {"starting", "active", "syncing", "publishing", "retry"} => r.kept
  /\ r.local # "none" => r.kept
  /\ r.phase \in {"syncing", "publishing", "retry"} => r.status \in Ended
  /\ final.pc # "none" => r.phase = "syncing"
RunShape ==
  \A w \in Worker, a \in Asg : RunFits(run[<<w, a>>], sync[<<w, a, "final">>])

(* The worker has no more than a claim under way for the assignment. *)
Idle(w, a) ==
  /\ run[<<w, a>>].phase \in {"none", "claiming"}
  /\ ~run[<<w, a>>].kept
  /\ run[<<w, a>>].local = "none"
  /\ \A k \in Who : sync[<<w, a, k>>].pc = "none"
  /\ call[<<w, a>>].op \notin {"report", "finish"}

(* Nobody works on an assignment that was not claimed, or that another window
   claimed. *)
Unclaimed ==
  /\ \A a \in rival : asg[a].status \notin {"none", "queued"}
  /\ \A a \in Asg : asg[a].status \in {"none", "queued"} \/ a \in rival =>
       \A w \in Worker : Idle(w, a)

(* One worker at most has gone past the claim. *)
OneOwner ==
  \A a \in Asg, v, w \in Worker : Idle(v, a) \/ Idle(w, a) \/ v = w

(* Once finish has been called the worker reports nothing more. *)
Quiet(w, a) ==
  run[<<w, a>>].phase \in {"none", "claiming", "ending"} /\ call[<<w, a>>].op # "report"
FinishEnds(w, a) ==
  call[<<w, a>>].op = "finish" => run[<<w, a>>].phase \in {"none", "ending"}
Reported ==
  \A w \in Worker, a \in Asg :
    FinishEnds(w, a) /\ (asg[a].status \in {"review", "completed"} => Quiet(w, a))

(* A change set is applied or rejected by someone. *)
Settled ==
  \A a \in Asg, r \in Repo :
    change[a][r] \in {"applied", "rejected"} => <<a, r>> \in decided

(* What a worker takes for delivered was handed to a mirror, and what a
   synchronisation sends is a follow-up. *)
TaskFits(s, h) ==
  (s.pc = "send" => s.i \in Instr) /\ (s.pc = "delete" => s.i \in h)
Delivered ==
  \A w \in Worker, a \in Asg :
    /\ run[<<w, a>>].delivered \subseteq handed
    /\ \A k \in Who : TaskFits(sync[<<w, a, k>>], handed)

CallPc == {"none", "expiring", "failing", "body", "insert", "write", "complete", "save"}

(* Advancing a call keeps its type. *)
LEMMA CallAdvances ==
  ASSUME NEW v \in Call
  PROVE  /\ \A p \in CallPc : [v EXCEPT !.pc = p] \in Call
         /\ \A i, o \in SUBSET Asg : [v EXCEPT !.ids = i, !.out = o] \in Call
         /\ \A p \in CallPc, i \in SUBSET Asg : [v EXCEPT !.pc = p, !.ids = i] \in Call
         /\ \A p \in CallPc, o \in SUBSET Asg : [v EXCEPT !.pc = p, !.out = o] \in Call
         /\ \A p \in CallPc, s \in ThreadStatus : [v EXCEPT !.pc = p, !.to = s] \in Call
         /\ \A p \in CallPc, b \in Asg, s \in ThreadStatus :
              [v EXCEPT !.pc = p, !.a = b, !.to = s] \in Call
  BY DEF Call, CallPc

LEMMA NoCallTyped == NoCall \in Call /\ NoCall.op = "none" /\ NoCall.pc = "none"
  BY DEF NoCall, Call, NoAssignment, Assignment, ThreadStatus, Op

(* The calls that start. *)
LEMMA NewCalls ==
  /\ \A o \in Op : [NoCall EXCEPT !.op = o] \in Call
  /\ \A o \in Op, b \in Asg : [NoCall EXCEPT !.op = o, !.a = b] \in Call
  /\ \A o \in Op, n \in Assignment : [NoCall EXCEPT !.op = o, !.new = n] \in Call
  /\ \A o \in Op, p \in CallPc, b \in Asg, s \in ThreadStatus :
       /\ [NoCall EXCEPT !.op = o, !.a = b, !.pc = p, !.to = s] \in Call
       /\ [NoCall EXCEPT !.op = o, !.pc = p, !.a = b, !.to = s] \in Call
  /\ \A o \in Op, p \in CallPc, b \in Asg, r \in Repo :
       [NoCall EXCEPT !.op = o, !.a = b, !.r = r, !.pc = p] \in Call
<1> USE NoCallTyped DEF Call, CallPc
<1>1. \A o \in Op : [NoCall EXCEPT !.op = o] \in Call
  OBVIOUS
<1>2. \A o \in Op, b \in Asg : [NoCall EXCEPT !.op = o, !.a = b] \in Call
  OBVIOUS
<1>3. \A o \in Op, n \in Assignment : [NoCall EXCEPT !.op = o, !.new = n] \in Call
  OBVIOUS
<1>4. \A o \in Op, p \in CallPc, b \in Asg, s \in ThreadStatus :
        [NoCall EXCEPT !.op = o, !.a = b, !.pc = p, !.to = s] \in Call
  OBVIOUS
<1>5. \A o \in Op, p \in CallPc, b \in Asg, r \in Repo :
        [NoCall EXCEPT !.op = o, !.a = b, !.r = r, !.pc = p] \in Call
  OBVIOUS
<1>6. \A o \in Op, p \in CallPc, b \in Asg, s \in ThreadStatus :
        [NoCall EXCEPT !.op = o, !.pc = p, !.a = b, !.to = s] \in Call
  OBVIOUS
<1> HIDE NoCallTyped DEF Call, CallPc
<1> QED
  BY <1>1, <1>2, <1>3, <1>4, <1>5, <1>6

(* No report or finish begins. *)
NoNewReport ==
  \A x \in Worker \X Asg : call'[x].op \in {"report", "finish"} => call'[x].op = call[x].op

CallsSound == call' \in [Caller -> Call] /\ CallShape'

(* Change sets do not disappear. *)
ChangesStay ==
  /\ change' \in ChangeSet
  /\ \A a \in Asg, r \in Repo : change[a][r] # "none" => change'[a][r] # "none"

(* One call changes: the others fit as long as no change set disappears. *)
LEMMA OneCall ==
  ASSUME call \in [Caller -> Call], CallShape, NEW c \in Caller, NEW v \in Call,
         CallFits(c, v, change'), call' = [call EXCEPT ![c] = v], ChangesStay
  PROVE  /\ CallsSound
         /\ (v.op \in {"report", "finish"} => v.op = call[c].op) => NoNewReport
<1>1. call' \in [Caller -> Call]
  OBVIOUS
<1>2. ASSUME NEW k \in Caller PROVE CallFits(k, call'[k], change')
  <2>1. CASE k = c
    BY <2>1
  <2>2. CASE k # c
    <3>1. call'[k] = call[k] /\ CallFits(k, call[k], change)
      BY <2>2 DEF CallShape
    <3> QED
      BY <3>1 DEF CallFits, ChangesStay
  <2> QED
    BY <2>1, <2>2
<1>3. ASSUME v.op \in {"report", "finish"} => v.op = call[c].op PROVE NoNewReport
  BY <1>3 DEF NoNewReport, Caller
<1> QED
  BY <1>1, <1>2, <1>3 DEF CallShape, CallsSound


(* The frequent cases: a call that stays, returns, goes on or enters. *)
LEMMA SameCalls ==
  ASSUME call \in [Caller -> Call], CallShape, call' = call, ChangesStay
  PROVE  CallsSound /\ NoNewReport
  BY DEF CallShape, CallFits, CallsSound, NoNewReport, ChangesStay

LEMMA CallReturns ==
  ASSUME call \in [Caller -> Call], CallShape, NEW c \in Caller, Return(c), ChangesStay
  PROVE  CallsSound /\ NoNewReport
<1>1. NoCall \in Call /\ NoCall.op = "none" /\ CallFits(c, NoCall, change')
  BY NoCallTyped DEF CallFits
<1> QED
  BY <1>1, OneCall DEF Return

LEMMA CallGoes ==
  ASSUME call \in [Caller -> Call], CallShape, NEW c \in Caller, NEW p \in CallPc,
         p = "complete" => call[c].op \in {"finish", "apply", "reject"}, Go(c, p), ChangesStay
  PROVE  CallsSound /\ NoNewReport
<1> DEFINE v == [call[c] EXCEPT !.pc = p]
<1>1. v \in Call /\ call[c] \in Call
  BY CallAdvances
<1>2. CallFits(c, call[c], change)
  BY DEF CallShape
<1>3. CallFits(c, v, change') /\ v.op = call[c].op
  BY <1>1, <1>2 DEF CallFits, Call, ChangesStay
<1>4. call' = [call EXCEPT ![c] = v]
  BY DEF Go
<1> QED
  BY <1>1, <1>3, <1>4, OneCall

LEMMA CallEnters ==
  ASSUME call \in [Caller -> Call], CallShape, NEW c \in Caller, NEW v \in Call,
         v.op \notin {"report", "finish", "apply", "reject"},
         CallFits(c, v, change'), Enter(c, v), ChangesStay
  PROVE  CallsSound /\ NoNewReport
<1>1. StaleIds \in SUBSET Asg
  BY DEF StaleIds
<1>2. Entered(v) \in Call
  BY <1>1, CallAdvances DEF Entered, CallPc
<1>3. Entered(v).op = v.op /\ CallFits(c, Entered(v), change')
  BY DEF Entered, CallFits, Call
<1> QED
  BY <1>2, <1>3, OneCall DEF Enter

Decisions ==
  /\ ChangesStay /\ Settled'
  /\ decided' \subseteq Asg \X Repo /\ decided \subseteq decided'

(* apply and reject are remembered; nothing else settles a change set. *)
LEMMA ChangeSteps ==
  ASSUME TypeOK, CallShape, Settled, [Next]_vars
  PROVE  Decisions
<1>t. /\ change \in ChangeSet /\ decided \subseteq Asg \X Repo
      /\ \A c \in Caller : CallFits(c, call[c], change)
  BY DEF TypeOK, CallShape
<1>1. ASSUME NEW c \in Caller, InsertChangeSet(c)
      PROVE  Decisions
  <2>1. change' = [change EXCEPT ![call[c].a][call[c].r] = "pending"] /\ UNCHANGED decided
    BY <1>1 DEF InsertChangeSet, ghosts
  <2> QED
    BY <1>t, <2>1 DEF Decisions, ChangesStay, ChangeSet, ChangeStatus, Settled
<1>2. ASSUME NEW u \in User, ApplyConflict(u)
      PROVE  Decisions
  <2>1. change' = [change EXCEPT ![call[u].a][call[u].r] = "conflict"] /\ UNCHANGED decided
    BY <1>2 DEF ApplyConflict, SetChangeStatus, ghosts
  <2> QED
    BY <1>t, <2>1 DEF Decisions, ChangesStay, ChangeSet, ChangeStatus, Settled
<1>3. ASSUME NEW u \in User, UpdateChangeStatus(u)
      PROVE  Decisions
  <2>1. PICK s \in {"applied", "rejected"} :
          /\ change' = [change EXCEPT ![call[u].a][call[u].r] = s]
          /\ decided' = decided \cup {<<call[u].a, call[u].r>>}
          /\ call[u].op \in {"apply", "reject"}
    BY <1>3 DEF UpdateChangeStatus, SetChangeStatus
  <2>2. call[u].a \in Asg /\ call[u].r \in Repo
    BY <1>t, <2>1 DEF CallFits, Caller
  <2> QED
    BY <1>t, <2>1, <2>2 DEF Decisions, ChangesStay, ChangeSet, ChangeStatus, Settled
<1>4. UNCHANGED <<change, decided>> =>
        Decisions
  BY <1>t DEF Decisions, ChangesStay, Settled
<1>5. ASSUME NEW c \in Caller, HubStep(c) PROVE InsertChangeSet(c) \/ UNCHANGED <<change, decided>>
  BY <1>5 DEF HubStep, ExpireOne, OfflineSelect, FailOne, NotifyExpired, ReportValidate,
     FinishAssignment, CompleteReview, SaveThread, hub, ghosts
<1>6. ASSUME NEW u \in User, UserStep(u) \/ UserCall(u) \/ Snapshot(u)
      PROVE  ApplyConflict(u) \/ UpdateChangeStatus(u) \/ UNCHANGED <<change, decided>>
  BY <1>6 DEF UserStep, UserCall, SnapshotRead, CreateCheck, InsertAssignment, Create, Retry,
     CancelAssignment, RevokeDevice, Decide, QueueInstruction, Snapshot, hub, ghosts
<1>7. ASSUME NEW d \in Device, Heartbeat(d) \/ HeartbeatDevice(d) \/ RegisterDevice(d)
                               \/ GoOffline(d) \/ OtherWindowClaims(d)
      PROVE  UNCHANGED <<change, decided>>
  BY <1>7 DEF Heartbeat, HeartbeatDevice, RegisterDevice, GoOffline, OtherWindowClaims, hub, ghosts
<1>8. ASSUME NEW w \in Worker, PollStep(w) \/ Dispose(w) PROVE UNCHANGED <<change, decided>>
  BY <1>8 DEF PollStep, Poll, PollList, PollHandle, PollSync, PollDone, Dispose, hub, ghosts
<1>9. ASSUME NEW w \in Worker, NEW a \in Asg, RunStep(w, a) \/ LocalStep(w, a)
      PROVE  UNCHANGED <<change, decided>>
  BY <1>9 DEF RunStep, LocalStep, ClaimAssignment, PrepareMirror, StartLocal, FailedStart,
     FinalRetry, SyncPollDone, FinalDone, Publish, PublishRefused, FinishRefused, Close,
     RenewFails, RenewLease, LocalEnds, LocalContinues, LocalUpdated, hub, ghosts
<1>10. ASSUME NEW x \in DOMAIN sync, SyncStep(x) PROVE UNCHANGED <<change, decided>>
  BY <1>10 DEF SyncStep, SyncList, SyncTake, SyncSend, DeleteQueued, SyncFailed, hub, ghosts
<1>11. ASSUME NEW a \in Asg, Lapse(a) PROVE UNCHANGED <<change, decided>>
  BY <1>11 DEF Lapse, ghosts
<1>12. UNCHANGED vars => UNCHANGED <<change, decided>>
  BY DEF vars
<1> QED
  BY <1>1, <1>2, <1>3, <1>4, <1>5, <1>6, <1>7, <1>8, <1>9, <1>10, <1>11, <1>12 DEF Next

(* Calls of the coordinator advance; none of these steps starts a report. *)
LEMMA HubCalls ==
  ASSUME TypeOK, CallShape, ChangesStay, NEW c \in Caller, HubStep(c)
  PROVE  CallsSound /\ NoNewReport
<1> USE DEF CallPc
<1>t. call \in [Caller -> Call] /\ call[c] \in Call /\ CallFits(c, call[c], change)
  BY DEF TypeOK, CallShape
<1>1. CASE ExpireOne(c) \/ FailOne(c)
  <2>1. PICK a \in call[c].ids :
          call' = [call EXCEPT ![c].ids = @ \ {a}, ![c].out = @ \cup {a}]
    BY <1>1 DEF ExpireOne, FailOne
  <2> DEFINE v == [call[c] EXCEPT !.ids = @ \ {a}, !.out = @ \cup {a}]
  <2>2. call[c].ids \ {a} \in SUBSET Asg /\ call[c].out \cup {a} \in SUBSET Asg
    BY <1>t DEF Call
  <2>3. v \in Call
    BY <1>t, <2>2, CallAdvances
  <2>4. CallFits(c, v, change') /\ v.op = call[c].op
    BY <1>t DEF CallFits, Call, ChangesStay
  <2> QED
    BY <1>t, <2>1, <2>3, <2>4, OneCall
<1>2. CASE OfflineSelect(c)
  <2>1. PICK i \in SUBSET Asg : call' = [call EXCEPT ![c].pc = "failing", ![c].ids = i]
    BY <1>2 DEF OfflineSelect
  <2> DEFINE v == [call[c] EXCEPT !.pc = "failing", !.ids = i]
  <2>2. v \in Call
    BY <1>t, CallAdvances
  <2>3. CallFits(c, v, change') /\ v.op = call[c].op
    BY <1>t DEF CallFits, Call, ChangesStay
  <2> QED
    BY <1>t, <2>1, <2>2, <2>3, OneCall
<1>3. CASE NotifyExpired(c)
  <2>1. call' = [call EXCEPT ![c].pc = "body", ![c].out = {}]
    BY <1>3 DEF NotifyExpired
  <2> DEFINE v == [call[c] EXCEPT !.pc = "body", !.out = {}]
  <2>2. v \in Call
    BY <1>t, CallAdvances
  <2>3. CallFits(c, v, change') /\ v.op = call[c].op
    BY <1>t DEF CallFits, Call, ChangesStay
  <2> QED
    BY <1>t, <2>1, <2>2, <2>3, OneCall
<1>4. CASE ReportValidate(c)
  BY <1>t, <1>4, CallGoes DEF ReportValidate
<1>5. CASE InsertChangeSet(c) \/ SaveThread(c)
  BY <1>t, <1>5, CallReturns DEF InsertChangeSet, SaveThread
<1>6. CASE FinishAssignment(c)
  <2>1. call[c].op = "finish" /\ (Go(c, "complete") \/ Go(c, "save"))
    BY <1>6 DEF FinishAssignment
  <2> QED
    BY <1>t, <2>1, CallGoes
<1>7. CASE CompleteReview(c)
  <2>1. \/ call' = [call EXCEPT ![c].pc = "save", ![c].to = "done"]
        \/ Go(c, "save") \/ Return(c)
    BY <1>7 DEF CompleteReview
  <2> DEFINE v == [call[c] EXCEPT !.pc = "save", !.to = "done"]
  <2>2. v \in Call
    BY <1>t, CallAdvances DEF ThreadStatus
  <2>3. CallFits(c, v, change') /\ v.op = call[c].op
    BY <1>t DEF CallFits, Call, ChangesStay
  <2>4. CASE call' = [call EXCEPT ![c].pc = "save", ![c].to = "done"]
    BY <1>t, <2>2, <2>3, <2>4, OneCall
  <2> QED
    BY <1>t, <2>1, <2>4, CallGoes, CallReturns
<1> QED
  BY <1>1, <1>2, <1>3, <1>4, <1>5, <1>6, <1>7 DEF HubStep

(* Calls people make: they carry the row or the change set they are about. *)
LEMMA UserCalls ==
  ASSUME TypeOK, RowsNamed, CallShape, ChangesStay, NEW u \in User,
         UserStep(u) \/ UserCall(u) \/ Snapshot(u)
  PROVE  CallsSound /\ NoNewReport
<1> USE DEF CallPc
<1>t. /\ call \in [Caller -> Call] /\ u \in Caller /\ call[u] \in Call
      /\ CallFits(u, call[u], change) /\ asg \in [Asg -> Assignment]
  BY DEF TypeOK, CallShape, Caller
<1>0. NoCall \in Call /\ NoCall.op = "none" /\ NoCall.pc = "none"
  BY NoCallTyped
<1>1. CASE SnapshotRead(u) \/ ApplyConflict(u)
  BY <1>t, <1>1, CallReturns DEF SnapshotRead, ApplyConflict
<1>2. CASE CreateCheck(u)
  BY <1>t, <1>2, CallReturns, CallGoes DEF CreateCheck
<1>3. CASE InsertAssignment(u)
  <2>1. CASE Return(u)
    BY <1>t, <2>1, CallReturns
  <2>2. CASE \E a \in Asg : call' = [call EXCEPT ![u].pc = "save", ![u].a = a, ![u].to = "queued"]
    <3>1. PICK a \in Asg : call' = [call EXCEPT ![u].pc = "save", ![u].a = a, ![u].to = "queued"]
      BY <2>2
    <3> DEFINE v == [call[u] EXCEPT !.pc = "save", !.a = a, !.to = "queued"]
    <3>2. call[u].op = "create"
      BY <1>3 DEF InsertAssignment
    <3>3. v \in Call
      BY <1>t, CallAdvances DEF ThreadStatus
    <3>4. CallFits(u, v, change') /\ v.op = call[u].op
      BY <1>t, <3>2 DEF CallFits, Call
    <3> QED
      BY <1>t, <3>1, <3>3, <3>4, OneCall
  <2> QED
    BY <1>3, <2>1, <2>2 DEF InsertAssignment
<1>4. CASE UpdateChangeStatus(u)
  BY <1>t, <1>4, CallGoes DEF UpdateChangeStatus
<1>5. CASE Create(u) \/ Retry(u)
  <2>1. PICK t \in Thread, d \in Device, w \in BOOLEAN :
          Enter(u, [NoCall EXCEPT !.op = "create", !.new = NewAssignment(t, d, w)])
    <3>1. CASE Create(u)
      BY <3>1 DEF Create
    <3>2. CASE Retry(u)
      <4>1. PICK a \in Asg :
              /\ asg[a].status \in {"failed", "lease_expired"}
              /\ Enter(u, [NoCall EXCEPT !.op = "create",
                   !.new = NewAssignment(asg[a].thread, asg[a].device, asg[a].write)])
        BY <3>2 DEF Retry
      <4>2. asg[a].thread \in Thread /\ asg[a].device \in Device /\ asg[a].write \in BOOLEAN
        BY <1>t, <4>1 DEF RowsNamed, Assignment
      <4> QED
        BY <4>1, <4>2
    <3> QED
      BY <1>5, <3>1, <3>2
  <2> DEFINE n == NewAssignment(t, d, w)
  <2>2. n \in Assignment /\ n.status = "queued" /\ n.thread \in Thread /\ n.device \in Device
    BY DEF NewAssignment, Assignment, Status
  <2> HIDE DEF n
  <2> DEFINE v == [NoCall EXCEPT !.op = "create", !.new = n]
  <2>3. v \in Call
    BY <2>2, NewCalls DEF Op
  <2>4. v.op = "create" /\ v.pc = "none" /\ v.new = n
    BY <1>0 DEF Call
  <2>5. CallFits(u, v, change')
    BY <2>2, <2>4 DEF CallFits
  <2>6. Enter(u, v)
    BY <2>1 DEF n
  <2> QED
    BY <1>t, <2>3, <2>4, <2>5, <2>6, CallEnters
<1>6. CASE CancelAssignment(u)
  <2>1. PICK a \in Asg : call' = [call EXCEPT ![u] = [NoCall EXCEPT !.op = "cancel", !.a = a,
                                                         !.pc = "save", !.to = "paused"]]
    BY <1>6 DEF CancelAssignment
  <2> DEFINE v == [NoCall EXCEPT !.op = "cancel", !.a = a, !.pc = "save", !.to = "paused"]
  <2>2. v \in Call
    BY NewCalls DEF Op, ThreadStatus
  <2>3. v.op = "cancel" /\ v.pc = "save"
    BY <1>0 DEF Call
  <2>4. CallFits(u, v, change')
    BY <2>3 DEF CallFits
  <2> QED
    BY <1>t, <2>1, <2>2, <2>3, <2>4, OneCall
<1>7. CASE Decide(u)
  <2>1. PICK op \in {"apply", "reject"}, a \in Asg, r \in Repo :
          /\ change[a][r] \in Open
          /\ call' = [call EXCEPT ![u] = [NoCall EXCEPT !.op = op, !.a = a, !.r = r,
                                            !.pc = "write"]]
    BY <1>7 DEF Decide
  <2> DEFINE v == [NoCall EXCEPT !.op = op, !.a = a, !.r = r, !.pc = "write"]
  <2>2. v \in Call
    BY NewCalls DEF Op
  <2>3. v.op = op /\ v.pc = "write" /\ v.a = a /\ v.r = r
    BY <1>0 DEF Call
  <2>4. change'[a][r] # "none"
    BY <2>1 DEF ChangesStay, Open
  <2>5. CallFits(u, v, change')
    BY <2>3, <2>4 DEF CallFits
  <2> QED
    BY <1>t, <2>1, <2>2, <2>3, <2>5, OneCall
<1>8. CASE RevokeDevice(u) \/ QueueInstruction(u)
  BY <1>t, <1>8, SameCalls DEF RevokeDevice, QueueInstruction
<1>9. CASE Snapshot(u)
  <2> DEFINE v == [NoCall EXCEPT !.op = "snapshot"]
  <2>1. v \in Call
    BY NewCalls DEF Op
  <2>2. v.op = "snapshot" /\ v.pc = "none"
    BY <1>0 DEF Call
  <2>3. CallFits(u, v, change') /\ Enter(u, v)
    BY <1>9, <2>2 DEF CallFits, Snapshot
  <2> QED
    BY <1>t, <2>1, <2>2, <2>3, CallEnters
<1> QED
  BY <1>1, <1>2, <1>3, <1>4, <1>5, <1>6, <1>7, <1>8, <1>9 DEF UserStep, UserCall

(***************************************************************************)
(* Runs of the workers.                                                    *)
(***************************************************************************)
Triple == Worker \X Asg \X Who

(* The worker claims an assignment nobody works on. *)
Takes(w, a) ==
  /\ asg[a].status = "queued" /\ asg'[a].status = "running" /\ a \notin rival'
  /\ \A v \in Worker : v # w => (Idle(v, a) => Idle(v, a)')

(* What a step keeps for one worker and one assignment. *)
PairFits(w, a) ==
  /\ RunFits(run'[<<w, a>>], sync'[<<w, a, "final">>])
  /\ run'[<<w, a>>].delivered \subseteq handed'
  /\ \A k \in Who : TaskFits(sync'[<<w, a, k>>], handed')
  /\ FinishEnds(w, a)'
  /\ Idle(w, a) => Idle(w, a)' \/ Takes(w, a)
  /\ Quiet(w, a) => Quiet(w, a)' \/ Takes(w, a)
RunTypes ==
  run' \in [Worker \X Asg -> ActiveRemoteRun] /\ sync' \in [Triple -> SyncTask]
PairsFit == RunTypes /\ \A w \in Worker, a \in Asg : PairFits(w, a)

LEMMA NoSyncTyped ==
  /\ NoSync \in SyncTask /\ NoSync.pc = "none"
  /\ [NoSync EXCEPT !.pc = "list"] \in SyncTask
  /\ [NoSync EXCEPT !.pc = "list"].pc = "list"
  BY DEF NoSync, SyncTask

LEMMA NoRunTyped ==
  /\ NoRun \in ActiveRemoteRun
  /\ NoRun.phase = "none" /\ ~NoRun.kept /\ NoRun.local = "none" /\ NoRun.delivered = {}
  BY CollaborationAssumption DEF NoRun, ActiveRemoteRun, Phase, Mirror

(* One synchronisation changes. *)
LEMMA SyncAt ==
  ASSUME sync \in [Triple -> SyncTask], NEW w \in Worker, NEW a \in Asg, NEW k \in Who,
         NEW s \in SyncTask, sync' = [sync EXCEPT ![<<w, a, k>>] = s]
  PROVE  /\ sync' \in [Triple -> SyncTask]
         /\ sync'[<<w, a, k>>] = s
         /\ \A v \in Worker, b \in Asg, j \in Who :
              <<v, b, j>> # <<w, a, k>> => sync'[<<v, b, j>>] = sync[<<v, b, j>>]
  BY DEF Triple

(* The final synchronisation starts when its run begins to finish. *)
LEMMA SyncStarts ==
  ASSUME sync \in [Triple -> SyncTask], NEW w \in Worker, NEW a \in Asg,
         run \in [Worker \X Asg -> ActiveRemoteRun], NEW r \in ActiveRemoteRun,
         run' = [run EXCEPT ![<<w, a>>] = r], sync' = StartFinal(run, run')
  PROVE  /\ sync' \in [Triple -> SyncTask]
         /\ \A v \in Worker, b \in Asg, j \in Who :
              <<v, b, j>> # <<w, a, "final">> => sync'[<<v, b, j>>] = sync[<<v, b, j>>]
         /\ sync'[<<w, a, "final">>] =
              IF run[<<w, a>>].phase # "syncing" /\ r.phase = "syncing"
              THEN [NoSync EXCEPT !.pc = "list"] ELSE sync[<<w, a, "final">>]
<1>1. \A x \in Triple :
        sync'[x] = IF /\ x[3] = "final" /\ run[<<x[1], x[2]>>].phase # "syncing"
                      /\ run'[<<x[1], x[2]>>].phase = "syncing"
                   THEN [NoSync EXCEPT !.pc = "list"] ELSE sync[x]
  BY DEF StartFinal
<1>2. sync' \in [Triple -> SyncTask]
  BY <1>1, NoSyncTyped DEF StartFinal
<1>3. ASSUME NEW v \in Worker, NEW b \in Asg, NEW j \in Who, <<v, b, j>> # <<w, a, "final">>
      PROVE  sync'[<<v, b, j>>] = sync[<<v, b, j>>]
  <2>1. CASE j = "final"
    <3>1. run'[<<v, b>>] = run[<<v, b>>]
      BY <1>3, <2>1
    <3> QED
      BY <1>1, <3>1 DEF Triple
  <2>2. CASE j # "final"
    BY <1>1, <2>2 DEF Triple
  <2> QED
    BY <2>1, <2>2
<1>4. run'[<<w, a>>] = r /\ <<w, a, "final">> \in Triple
  BY DEF Triple, Who
<1> QED
  BY <1>1, <1>2, <1>3, <1>4

(* What is not touched keeps its parts. *)
LEMMA PairKept ==
  ASSUME RunShape, Reported, Delivered, NEW w \in Worker, NEW a \in Asg,
         run'[<<w, a>>] = run[<<w, a>>],
         \A k \in Who : sync'[<<w, a, k>>] = sync[<<w, a, k>>],
         call'[<<w, a>>].op \in {"report", "finish"} => call'[<<w, a>>].op = call[<<w, a>>].op,
         handed \subseteq handed'
  PROVE  PairFits(w, a)
<1>1. "final" \in Who
  BY DEF Who
<1>2. RunFits(run'[<<w, a>>], sync'[<<w, a, "final">>])
  BY <1>1 DEF RunShape
<1>3. run'[<<w, a>>].delivered \subseteq handed'
  BY DEF Delivered
<1>4. \A k \in Who : TaskFits(sync'[<<w, a, k>>], handed')
  BY DEF Delivered, TaskFits
<1>5. FinishEnds(w, a)' /\ (Quiet(w, a) => Quiet(w, a)')
  BY DEF Reported, FinishEnds, Quiet
<1>6. Idle(w, a) => Idle(w, a)'
  BY DEF Idle
<1> QED
  BY <1>2, <1>3, <1>4, <1>5, <1>6 DEF PairFits

(* A step of one worker on one assignment. *)
LEMMA PairSound ==
  ASSUME TypeOK, RunShape, Reported, Delivered,
         NEW w \in Worker, NEW a \in Asg, NEW r \in ActiveRemoteRun,
         run' = [run EXCEPT ![<<w, a>>] = r], sync' \in [Triple -> SyncTask],
         \A v \in Worker, b \in Asg : <<v, b>> # <<w, a>> =>
           /\ call'[<<v, b>>] = call[<<v, b>>]
           /\ \A k \in Who : sync'[<<v, b, k>>] = sync[<<v, b, k>>],
         handed \subseteq handed', PairFits(w, a)
  PROVE  PairsFit
<1>t. run \in [Worker \X Asg -> ActiveRemoteRun]
  BY DEF TypeOK
<1>1. run' \in [Worker \X Asg -> ActiveRemoteRun]
  BY <1>t
<1>2. ASSUME NEW v \in Worker, NEW b \in Asg PROVE PairFits(v, b)
  <2>1. CASE <<v, b>> = <<w, a>>
    BY <2>1
  <2>2. CASE <<v, b>> # <<w, a>>
    <3>1. run'[<<v, b>>] = run[<<v, b>>]
      BY <1>t, <2>2
    <3> QED
      BY <2>2, <3>1, PairKept
  <2> QED
    BY <2>1, <2>2
<1> QED
  BY <1>1, <1>2 DEF PairsFit, RunTypes

(* Calls of devices. *)
LEMMA DeviceCalls ==
  ASSUME TypeOK, CallShape, ChangesStay, NEW d \in Device,
         Heartbeat(d) \/ HeartbeatDevice(d) \/ RegisterDevice(d) \/ GoOffline(d)
           \/ OtherWindowClaims(d)
  PROVE  CallsSound /\ NoNewReport
<1>t. call \in [Caller -> Call] /\ d \in Caller
  BY DEF TypeOK, Caller
<1>0. NoCall \in Call /\ NoCall.op = "none" /\ NoCall.pc = "none"
  BY NoCallTyped
<1>1. CASE Heartbeat(d)
  <2> DEFINE v == [NoCall EXCEPT !.op = "heartbeat"]
  <2>1. v \in Call
    BY NewCalls DEF Op
  <2>2. v.op = "heartbeat" /\ v.pc = "none"
    BY <1>0 DEF Call
  <2>3. CallFits(d, v, change') /\ Enter(d, v)
    BY <1>1, <2>2 DEF CallFits, Heartbeat
  <2> QED
    BY <1>t, <2>1, <2>2, <2>3, CallEnters
<1>2. CASE HeartbeatDevice(d)
  BY <1>t, <1>2, CallReturns DEF HeartbeatDevice
<1>3. CASE RegisterDevice(d) \/ GoOffline(d)
  BY <1>t, <1>3, SameCalls DEF RegisterDevice, GoOffline
<1>4. CASE OtherWindowClaims(d)
  <2>1. PICK a \in Asg : call' = [call EXCEPT ![d] = [NoCall EXCEPT !.op = "claim", !.pc = "save",
                                                         !.a = a, !.to = "running"]]
    BY <1>4 DEF OtherWindowClaims
  <2> DEFINE v == [NoCall EXCEPT !.op = "claim", !.pc = "save", !.a = a, !.to = "running"]
  <2>2. v \in Call
    BY NewCalls DEF Op, ThreadStatus, CallPc
  <2>3. v.op = "claim" /\ v.pc = "save"
    BY <1>0 DEF Call
  <2>4. CallFits(d, v, change')
    BY <2>3 DEF CallFits
  <2> QED
    BY <1>t, <2>1, <2>2, <2>3, <2>4, OneCall
<1> QED
  BY <1>1, <1>2, <1>3, <1>4

(* Calls of the poll: the list, and the claims it starts. *)
LEMMA PollCalls ==
  ASSUME TypeOK, CallShape, ChangesStay, NEW w \in Worker, PollStep(w) \/ Dispose(w)
  PROVE  CallsSound /\ NoNewReport
<1>t. call \in [Caller -> Call] /\ w \in Caller
  BY DEF TypeOK, Caller
<1>0. NoCall \in Call /\ NoCall.op = "none" /\ NoCall.pc = "none"
  BY NoCallTyped
<1>1. CASE Poll(w)
  <2> DEFINE v == [NoCall EXCEPT !.op = "list"]
  <2>1. v \in Call
    BY NewCalls DEF Op
  <2>2. v.op = "list" /\ v.pc = "none"
    BY <1>0 DEF Call
  <2>3. CallFits(w, v, change') /\ (Enter(w, v) \/ call' = call)
    BY <1>1, <2>2 DEF CallFits, Poll
  <2> QED
    BY <1>t, <2>1, <2>2, <2>3, CallEnters, SameCalls
<1>2. CASE PollList(w)
  BY <1>t, <1>2, CallReturns DEF PollList
<1>3. CASE PollHandle(w)
  <2>1. PICK S \in SUBSET Asg : call' = [c \in Caller |->
            IF c \in {<<w, a>> : a \in S}
            THEN Entered([NoCall EXCEPT !.op = "claim", !.a = c[2]]) ELSE call[c]]
    <3>1. poll[w].queued \subseteq Asg
      BY DEF TypeOK
    <3>2. PICK S \in SUBSET poll[w].queued : call' = [c \in Caller |->
            IF c \in {<<w, a>> : a \in {b \in S : ~run[<<w, b>>].kept}}
            THEN Entered([NoCall EXCEPT !.op = "claim", !.a = c[2]]) ELSE call[c]]
      BY <1>3 DEF PollHandle
    <3>3. {b \in S : ~run[<<w, b>>].kept} \in SUBSET Asg
      BY <3>1
    <3> QED
      BY <3>2, <3>3
  <2>2. ASSUME NEW a \in Asg
        PROVE  LET v == Entered([NoCall EXCEPT !.op = "claim", !.a = a]) IN
               v \in Call /\ v.op = "claim" /\ v.pc # "complete"
    <3> DEFINE v == [NoCall EXCEPT !.op = "claim", !.a = a]
    <3>1. v \in Call
      BY NewCalls DEF Op
    <3>2. v.op = "claim"
      BY <1>0 DEF Call
    <3> HIDE DEF v
    <3>3. StaleIds \in SUBSET Asg
      BY DEF StaleIds
    <3>4. Entered(v) \in Call
      BY <3>1, <3>3, CallAdvances DEF Entered, CallPc
    <3>5. Entered(v).op = "claim" /\ Entered(v).pc \in {"expiring", "body"}
      BY <3>1, <3>2 DEF Entered, Call
    <3> QED
      BY <3>4, <3>5 DEF v
  <2>3. ASSUME NEW c \in Caller
        PROVE  \/ call'[c] = call[c]
               \/ call'[c] \in Call /\ call'[c].op = "claim" /\ call'[c].pc # "complete"
    <3>1. CASE c \in {<<w, a>> : a \in S}
      <4>1. PICK a \in S : c = <<w, a>>
        BY <3>1
      <4>2. a \in Asg /\ c[2] = a
        BY <4>1
      <4>3. call'[c] = Entered([NoCall EXCEPT !.op = "claim", !.a = c[2]])
        BY <2>1, <3>1
      <4> QED
        BY <2>2, <4>2, <4>3
    <3>2. CASE c \notin {<<w, a>> : a \in S}
      BY <2>1, <3>2
    <3> QED
      BY <3>1, <3>2
  <2>4. call' \in [Caller -> Call]
    <3>1. \A c \in Caller : call'[c] \in Call
      BY <1>t, <2>3
    <3> QED
      BY <2>1, <3>1
  <2>5. CallShape'
    BY <2>3 DEF CallShape, CallFits, ChangesStay
  <2>6. NoNewReport
    BY <2>3 DEF NoNewReport, Caller
  <2> QED
    BY <2>4, <2>5, <2>6 DEF CallsSound
<1>4. CASE PollSync(w) \/ PollDone(w) \/ Dispose(w)
  BY <1>t, <1>4, SameCalls DEF PollSync, PollDone, Dispose
<1> QED
  BY <1>1, <1>2, <1>3, <1>4 DEF PollStep

(* The call with which a worker finishes an assignment, and its reports. *)
LEMMA WorkerCall ==
  ASSUME NEW w \in Worker, NEW a \in Asg
  PROVE  /\ \A s \in ThreadStatus :
              /\ FinishCall(a, s) \in Call
              /\ FinishCall(a, s).op = "finish" /\ FinishCall(a, s).pc = "body"
              /\ FinishCall(a, s).a = a
              /\ CallFits(<<w, a>>, FinishCall(a, s), change')
         /\ \A r \in Repo : LET v == [NoCall EXCEPT !.op = "report", !.a = a, !.r = r, !.pc = "body"] IN
              v \in Call /\ v.op = "report" /\ CallFits(<<w, a>>, v, change')
<1>0. NoCall \in Call
  BY NoCallTyped
<1>1. ASSUME NEW s \in ThreadStatus
      PROVE  /\ FinishCall(a, s) \in Call
              /\ FinishCall(a, s).op = "finish" /\ FinishCall(a, s).pc = "body"
              /\ FinishCall(a, s).a = a
              /\ CallFits(<<w, a>>, FinishCall(a, s), change')
  <2> DEFINE v == [NoCall EXCEPT !.op = "finish", !.pc = "body", !.a = a, !.to = s]
  <2>1. v \in Call
    BY NewCalls DEF Op, CallPc
  <2>2. v.op = "finish" /\ v.pc = "body" /\ v.a = a
    BY <1>0 DEF Call
  <2>3. CallFits(<<w, a>>, v, change')
    BY <2>2 DEF CallFits
  <2> QED
    BY <2>1, <2>2, <2>3 DEF FinishCall
<1>2. ASSUME NEW r \in Repo
      PROVE  LET v == [NoCall EXCEPT !.op = "report", !.a = a, !.r = r, !.pc = "body"] IN
              v \in Call /\ v.op = "report" /\ CallFits(<<w, a>>, v, change')
  <2> DEFINE v == [NoCall EXCEPT !.op = "report", !.a = a, !.r = r, !.pc = "body"]
  <2>1. v \in Call
    BY NewCalls DEF Op, CallPc
  <2>2. v.op = "report" /\ v.pc = "body" /\ v.a = a
    BY <1>0 DEF Call
  <2>3. CallFits(<<w, a>>, v, change')
    BY <2>2 DEF CallFits
  <2> QED
    BY <2>1, <2>2, <2>3
<1> QED
  BY <1>1, <1>2
(* What is known of one worker and one assignment before a step. *)
LEMMA PairKnown ==
  ASSUME TypeOK, RunShape, Reported, Delivered, CallShape, NEW w \in Worker, NEW a \in Asg
  PROVE  /\ run[<<w, a>>] \in ActiveRemoteRun
         /\ run \in [Worker \X Asg -> ActiveRemoteRun] /\ sync \in [Triple -> SyncTask]
         /\ \A k \in Who : sync[<<w, a, k>>] \in SyncTask /\ TaskFits(sync[<<w, a, k>>], handed)
         /\ "final" \in Who /\ "poll" \in Who
         /\ RunFits(run[<<w, a>>], sync[<<w, a, "final">>])
         /\ FinishEnds(w, a)
         /\ run[<<w, a>>].delivered \subseteq handed /\ handed \subseteq Instr
         /\ <<w, a>> \in Caller /\ <<w, a>> \in Worker \X Asg
         /\ call \in [Caller -> Call]
         /\ call[<<w, a>>] \in Call /\ CallFits(<<w, a>>, call[<<w, a>>], change)
<1>1. run \in [Worker \X Asg -> ActiveRemoteRun] /\ sync \in [Triple -> SyncTask]
      /\ call \in [Caller -> Call] /\ handed \subseteq Instr
  BY DEF TypeOK, Triple
<1>2. <<w, a>> \in Worker \X Asg /\ <<w, a>> \in Caller /\ "final" \in Who /\ "poll" \in Who
      /\ \A k \in Who : <<w, a, k>> \in Triple
  BY DEF Caller, Who, Triple
<1>3. \A k \in Who : sync[<<w, a, k>>] \in SyncTask /\ TaskFits(sync[<<w, a, k>>], handed)
  BY <1>1, <1>2 DEF Delivered
<1> QED
  BY <1>1, <1>2, <1>3 DEF RunShape, Delivered, Reported, CallShape

(* The step changes the run, and the call of the same worker at most. *)
LEMMA RunMoves ==
  ASSUME TypeOK, RunShape, Reported, Delivered, CallShape,
         NEW w \in Worker, NEW a \in Asg, NEW r \in ActiveRemoteRun, NEW v \in Call,
         run' = [run EXCEPT ![<<w, a>>] = r], call' = [call EXCEPT ![<<w, a>>] = v],
         sync' = sync, handed' = handed,
         RunFits(r, sync[<<w, a, "final">>]), r.delivered \subseteq handed,
         v.op = "finish" => r.phase \in {"none", "ending"},
         ~Idle(w, a),
         Quiet(w, a) => r.phase \in {"none", "claiming", "ending"} /\ v.op # "report"
  PROVE  PairsFit
<1>k. /\ run \in [Worker \X Asg -> ActiveRemoteRun] /\ sync \in [Triple -> SyncTask]
      /\ call \in [Caller -> Call] /\ <<w, a>> \in Caller /\ <<w, a>> \in Worker \X Asg
      /\ \A k \in Who : TaskFits(sync[<<w, a, k>>], handed)
  BY PairKnown
<1>1. run'[<<w, a>>] = r /\ call'[<<w, a>>] = v
  BY <1>k
<1>2. PairFits(w, a)
  BY <1>1, <1>k DEF PairFits, FinishEnds, Quiet
<1>3. ASSUME NEW u \in Worker, NEW b \in Asg, <<u, b>> # <<w, a>>
      PROVE  /\ call'[<<u, b>>] = call[<<u, b>>]
             /\ \A k \in Who : sync'[<<u, b, k>>] = sync[<<u, b, k>>]
  BY <1>k, <1>3 DEF Caller
<1> QED
  BY <1>k, <1>2, <1>3, PairSound

(* The step changes the run alone. *)
LEMMA RunAlone ==
  ASSUME TypeOK, RunShape, Reported, Delivered, CallShape,
         NEW w \in Worker, NEW a \in Asg, NEW r \in ActiveRemoteRun,
         run' = [run EXCEPT ![<<w, a>>] = r], call' = call, sync' = sync, handed' = handed,
         RunFits(r, sync[<<w, a, "final">>]), r.delivered \subseteq handed,
         call[<<w, a>>].op = "finish" => r.phase \in {"none", "ending"},
         ~Idle(w, a), Quiet(w, a) => r.phase \in {"none", "claiming", "ending"}
  PROVE  PairsFit
<1>1. call \in [Caller -> Call] /\ <<w, a>> \in Caller /\ call[<<w, a>>] \in Call
  BY PairKnown
<1>2. call' = [call EXCEPT ![<<w, a>>] = call[<<w, a>>]]
  BY <1>1
<1>3. Quiet(w, a) => call[<<w, a>>].op # "report"
  BY DEF Quiet
<1> QED
  BY <1>1, <1>2, <1>3, RunMoves

(* The step changes the run and one synchronisation, and no call. *)
LEMMA SyncMoves ==
  ASSUME TypeOK, RunShape, Reported, Delivered, CallShape,
         NEW w \in Worker, NEW a \in Asg, NEW k \in Who, NEW r \in ActiveRemoteRun,
         NEW s \in SyncTask,
         run' = [run EXCEPT ![<<w, a>>] = r], sync' = [sync EXCEPT ![<<w, a, k>>] = s],
         call' = call, handed \subseteq handed',
         RunFits(r, IF k = "final" THEN s ELSE sync[<<w, a, "final">>]),
         r.delivered \subseteq handed', TaskFits(s, handed'),
         call[<<w, a>>].op = "finish" => r.phase \in {"none", "ending"},
         ~Idle(w, a),
         Quiet(w, a) => r.phase \in {"none", "claiming", "ending"}
  PROVE  PairsFit
<1>k. /\ run \in [Worker \X Asg -> ActiveRemoteRun] /\ sync \in [Triple -> SyncTask]
      /\ <<w, a>> \in Worker \X Asg /\ "final" \in Who
      /\ \A j \in Who : TaskFits(sync[<<w, a, j>>], handed)
  BY PairKnown
<1>1. run'[<<w, a>>] = r
  BY <1>k
<1>2. /\ sync' \in [Triple -> SyncTask]
      /\ sync'[<<w, a, k>>] = s
      /\ \A v \in Worker, b \in Asg, j \in Who :
           <<v, b, j>> # <<w, a, k>> => sync'[<<v, b, j>>] = sync[<<v, b, j>>]
  BY <1>k, SyncAt
<1>3. \A j \in Who : TaskFits(sync'[<<w, a, j>>], handed')
  <2> SUFFICES ASSUME NEW j \in Who PROVE TaskFits(sync'[<<w, a, j>>], handed')
    OBVIOUS
  <2>1. CASE j = k
    BY <1>2, <2>1
  <2>2. CASE j # k
    <3>1. <<w, a, j>> # <<w, a, k>>
      BY <2>2
    <3> QED
      BY <1>k, <1>2, <3>1 DEF TaskFits
  <2> QED
    BY <2>1, <2>2
<1>4. RunFits(r, sync'[<<w, a, "final">>])
  <2>1. CASE k = "final"
    BY <1>2, <2>1
  <2>2. CASE k # "final"
    <3>1. <<w, a, "final">> # <<w, a, k>>
      BY <2>2
    <3> QED
      BY <1>k, <1>2, <2>2, <3>1
  <2> QED
    BY <2>1, <2>2
<1>5. PairFits(w, a)
  BY <1>1, <1>3, <1>4 DEF PairFits, FinishEnds, Quiet
<1>6. ASSUME NEW u \in Worker, NEW b \in Asg, <<u, b>> # <<w, a>>
      PROVE  /\ call'[<<u, b>>] = call[<<u, b>>]
             /\ \A j \in Who : sync'[<<u, b, j>>] = sync[<<u, b, j>>]
  <2>1. \A j \in Who : <<u, b, j>> # <<w, a, k>>
    BY <1>6
  <2> QED
    BY <1>2, <2>1
<1> QED
  BY <1>2, <1>5, <1>6, PairSound

(* Stopping a mirror keeps its run, which starts to finish if it was active. *)
LEMMA StoppedRun ==
  ASSUME NEW r \in ActiveRemoteRun, NEW s \in Ended, r.local # "none", r.kept
  PROVE  /\ Stopped(r, s) \in ActiveRemoteRun
         /\ Stopped(r, s).kept /\ Stopped(r, s).delivered = r.delivered
         /\ Stopped(r, s).status = IF r.phase = "active" THEN s ELSE r.status
         /\ Stopped(r, s).phase = IF r.phase = "active" THEN "syncing" ELSE r.phase
  BY DEF Stopped, ActiveRemoteRun, Ended, Mirror, Phase

LEMMA StopLocalRun ==
  ASSUME NEW r \in ActiveRemoteRun, r.kept
  PROVE  /\ StopLocal(r) \in ActiveRemoteRun
         /\ StopLocal(r).kept /\ StopLocal(r).delivered = r.delivered
         /\ \/ StopLocal(r) = r
            \/ /\ StopLocal(r).status = IF r.phase = "active" THEN "paused" ELSE r.status
               /\ StopLocal(r).phase = IF r.phase = "active" THEN "syncing" ELSE r.phase
<1>1. CASE r.local = "running"
  BY <1>1, StoppedRun DEF StopLocal, Ended
<1>2. CASE r.local # "running"
  BY <1>2 DEF StopLocal
<1> QED
  BY <1>1, <1>2

(* The step stops the mirror, or at least keeps the run. *)
LEMMA StopMoves ==
  ASSUME TypeOK, RunShape, Reported, Delivered, CallShape,
         NEW w \in Worker, NEW a \in Asg, NEW r \in ActiveRemoteRun, NEW s \in Ended,
         run' = [run EXCEPT ![<<w, a>>] = r], sync' = StartFinal(run, run'),
         call' = call, handed' = handed,
         run[<<w, a>>].kept, r.kept, r.delivered = run[<<w, a>>].delivered,
         \/ r.phase = run[<<w, a>>].phase /\ r.status = run[<<w, a>>].status
         \/ r.phase = "syncing" /\ r.status = s /\ run[<<w, a>>].phase = "active"
  PROVE  PairsFit
<1>k. /\ run \in [Worker \X Asg -> ActiveRemoteRun] /\ sync \in [Triple -> SyncTask]
      /\ <<w, a>> \in Worker \X Asg /\ "final" \in Who
      /\ \A j \in Who : TaskFits(sync[<<w, a, j>>], handed)
      /\ RunFits(run[<<w, a>>], sync[<<w, a, "final">>]) /\ FinishEnds(w, a)
      /\ run[<<w, a>>].delivered \subseteq handed
  BY PairKnown
<1>1. run'[<<w, a>>] = r
  BY <1>k
<1>2. /\ sync' \in [Triple -> SyncTask]
      /\ \A v \in Worker, b \in Asg, j \in Who :
           <<v, b, j>> # <<w, a, "final">> => sync'[<<v, b, j>>] = sync[<<v, b, j>>]
      /\ sync'[<<w, a, "final">>] =
           IF run[<<w, a>>].phase # "syncing" /\ r.phase = "syncing"
           THEN [NoSync EXCEPT !.pc = "list"] ELSE sync[<<w, a, "final">>]
  BY <1>k, SyncStarts
<1>3. TaskFits(sync'[<<w, a, "final">>], handed)
  BY <1>k, <1>2, NoSyncTyped DEF TaskFits
<1>4. \A j \in Who : TaskFits(sync'[<<w, a, j>>], handed')
  <2> SUFFICES ASSUME NEW j \in Who PROVE TaskFits(sync'[<<w, a, j>>], handed')
    OBVIOUS
  <2>1. CASE j = "final"
    BY <1>3, <2>1
  <2>2. CASE j # "final"
    <3>1. <<w, a, j>> # <<w, a, "final">>
      BY <2>2
    <3> QED
      BY <1>k, <1>2, <3>1 DEF TaskFits
  <2> QED
    BY <2>1, <2>2
<1>5. RunFits(r, sync'[<<w, a, "final">>])
  BY <1>k, <1>2 DEF RunFits
<1>6. FinishEnds(w, a)'
  BY <1>k, <1>1 DEF FinishEnds
<1>7. ~Idle(w, a)
  BY DEF Idle
<1>8. Quiet(w, a) => Quiet(w, a)'
  BY <1>1 DEF Quiet
<1>9. PairFits(w, a)
  BY <1>k, <1>1, <1>4, <1>5, <1>6, <1>7, <1>8 DEF PairFits
<1>10. ASSUME NEW u \in Worker, NEW b \in Asg, <<u, b>> # <<w, a>>
      PROVE  /\ call'[<<u, b>>] = call[<<u, b>>]
             /\ \A j \in Who : sync'[<<u, b, j>>] = sync[<<u, b, j>>]
  <2>1. \A j \in Who : <<u, b, j>> # <<w, a, "final">>
    BY <1>10
  <2> QED
    BY <1>2, <2>1
<1> QED
  BY <1>2, <1>9, <1>10, PairSound
(* Steps of a run, except a claim that succeeds. *)
LEMMA RunSteps ==
  ASSUME TypeOK, RowsNamed, CallShape, RunShape, Unclaimed, Reported, Delivered, ChangesStay,
         NEW w \in Worker, NEW a \in Asg, RunStep(w, a), ~ClaimAssignment(w, a)
  PROVE  CallsSound /\ PairsFit
<1> DEFINE x == <<w, a>>
           old == run[x]
           fin == sync[<<w, a, "final">>]
<1>k. /\ old \in ActiveRemoteRun
      /\ run \in [Worker \X Asg -> ActiveRemoteRun] /\ sync \in [Triple -> SyncTask]
      /\ \A k \in Who : sync[<<w, a, k>>] \in SyncTask /\ TaskFits(sync[<<w, a, k>>], handed)
      /\ "final" \in Who /\ "poll" \in Who
      /\ RunFits(old, fin) /\ FinishEnds(w, a)
      /\ old.delivered \subseteq handed /\ handed \subseteq Instr
      /\ x \in Caller /\ x \in Worker \X Asg
      /\ call \in [Caller -> Call]
      /\ call[x] \in Call /\ CallFits(x, call[x], change)
  BY PairKnown
<1>r. run' = run => run' = [run EXCEPT ![x] = run[x]]
  BY <1>k
<1>1. CASE PrepareMirror(w, a)
  <2>1. old.phase = "preparing" /\ call[x].op = "none" /\ sync' = sync /\ handed' = handed
    BY <1>1 DEF PrepareMirror, ghosts
  <2>2. ~Idle(w, a) /\ ~Quiet(w, a)
    BY <2>1 DEF Idle, Quiet
  <2>3. CASE run' = [run EXCEPT ![x].phase = "starting", ![x].kept = TRUE, ![x].local = "idle"]
             /\ call' = call
    <3> DEFINE r == [old EXCEPT !.phase = "starting", !.kept = TRUE, !.local = "idle"]
    <3>1. r \in ActiveRemoteRun /\ r.phase = "starting" /\ r.kept /\ r.delivered = old.delivered
      BY <1>k DEF ActiveRemoteRun, Phase, Mirror
    <3>2. run' = [run EXCEPT ![x] = r]
      BY <2>3
    <3> HIDE DEF r
    <3>3. RunFits(r, fin)
      BY <1>k, <2>1, <3>1 DEF RunFits
    <3>4. call' = call /\ call[x].op # "finish" /\ r.delivered \subseteq handed
      BY <1>k, <2>1, <2>2, <2>3, <3>1
    <3>6. PairsFit
      BY <2>1, <2>2, <3>1, <3>2, <3>3, <3>4, RunAlone
    <3>5. CallsSound
      BY <1>k, <2>3, SameCalls
    <3> QED
      BY <3>5, <3>6
  <2>4. CASE /\ run' = [run EXCEPT ![x].phase = "ending"]
             /\ call' = [call EXCEPT ![x] = FinishCall(a, "failed")]
    <3> DEFINE r == [old EXCEPT !.phase = "ending"]
               v == FinishCall(a, "failed")
    <3>1. /\ r \in ActiveRemoteRun /\ r.phase = "ending" /\ r.kept = old.kept
          /\ r.delivered = old.delivered /\ r.local = old.local
      BY <1>k DEF ActiveRemoteRun, Phase
    <3>2. run' = [run EXCEPT ![x] = r]
      BY <2>4
    <3>v. v \in Call /\ v.op = "finish" /\ CallFits(x, v, change')
      <4>1. "failed" \in ThreadStatus
        BY DEF ThreadStatus
      <4> QED
        BY <4>1, WorkerCall
    <3> HIDE DEF r, v
    <3>3. RunFits(r, fin)
      BY <1>k, <2>1, <3>1 DEF RunFits
    <3>c. call' = [call EXCEPT ![x] = v]
      BY <2>4 DEF v
    <3>4. PairsFit
      BY <1>k, <2>1, <2>2, <3>1, <3>2, <3>3, <3>v, <3>c, RunMoves
    <3>5. CallsSound
      BY <1>k, <3>v, <3>c, OneCall
    <3> QED
      BY <3>4, <3>5
  <2> QED
    BY <1>1, <2>3, <2>4 DEF PrepareMirror
<1>2. CASE StartLocal(w, a)
  <2>1. old.phase = "starting" /\ sync' = sync /\ handed' = handed
    BY <1>2 DEF StartLocal, ghosts
  <2>2. ~Idle(w, a) /\ ~Quiet(w, a) /\ call[x].op # "finish" /\ old.kept
    BY <1>k, <2>1 DEF Idle, Quiet, FinishEnds, RunFits
  <2>3. CASE run' = [run EXCEPT ![x].phase = "active", ![x].local = "running"] /\ call' = call
    <3> DEFINE r == [old EXCEPT !.phase = "active", !.local = "running"]
    <3>1. /\ r \in ActiveRemoteRun /\ r.phase = "active" /\ r.kept = old.kept
          /\ r.delivered = old.delivered
      BY <1>k DEF ActiveRemoteRun, Phase, Mirror
    <3>2. run' = [run EXCEPT ![x] = r]
      BY <2>3
    <3> HIDE DEF r
    <3>3. RunFits(r, fin)
      BY <1>k, <2>1, <2>2, <3>1 DEF RunFits
    <3>4. call' = call /\ call[x].op # "finish" /\ r.delivered \subseteq handed
      BY <1>k, <2>1, <2>2, <2>3, <3>1
    <3>6. PairsFit
      BY <2>1, <2>2, <3>1, <3>2, <3>3, <3>4, RunAlone
    <3>5. CallsSound
      BY <1>k, <2>3, SameCalls
    <3> QED
      BY <3>5, <3>6
  <2>4. CASE /\ run' = [run EXCEPT ![x].phase = "ending", ![x].local = "none"]
             /\ call' = [call EXCEPT ![x] = FinishCall(a, "failed")]
    <3> DEFINE r == [old EXCEPT !.phase = "ending", !.local = "none"]
               v == FinishCall(a, "failed")
    <3>1. /\ r \in ActiveRemoteRun /\ r.phase = "ending" /\ r.kept = old.kept
          /\ r.delivered = old.delivered /\ r.local = "none"
      BY <1>k DEF ActiveRemoteRun, Phase, Mirror
    <3>2. run' = [run EXCEPT ![x] = r]
      BY <2>4
    <3>v. v \in Call /\ v.op = "finish" /\ CallFits(x, v, change')
      <4>1. "failed" \in ThreadStatus
        BY DEF ThreadStatus
      <4> QED
        BY <4>1, WorkerCall
    <3> HIDE DEF r, v
    <3>3. RunFits(r, fin)
      BY <1>k, <2>1, <3>1 DEF RunFits
    <3>c. call' = [call EXCEPT ![x] = v]
      BY <2>4 DEF v
    <3>4. PairsFit
      BY <1>k, <2>1, <2>2, <3>1, <3>2, <3>3, <3>v, <3>c, RunMoves
    <3>5. CallsSound
      BY <1>k, <3>v, <3>c, OneCall
    <3> QED
      BY <3>4, <3>5
  <2> QED
    BY <1>2, <2>3, <2>4 DEF StartLocal
<1>3. CASE FailedStart(w, a) \/ Close(w, a)
  <2>1. /\ old.phase = "ending" /\ call[x].op = "none" /\ sync' = sync /\ handed' = handed
        /\ call' = call
    BY <1>3 DEF FailedStart, Close, ghosts
  <2>2. ~Idle(w, a)
    BY <2>1 DEF Idle
  <2>3. PICK r \in ActiveRemoteRun :
          /\ run' = [run EXCEPT ![x] = r]
          /\ r.phase = "none" /\ r.local = "none" /\ r.delivered = {}
    <3> DEFINE r == [NoRun EXCEPT !.kept = old.kept]
    <3>1. r \in ActiveRemoteRun /\ r.phase = "none" /\ r.local = "none" /\ r.delivered = {}
      BY <1>k, NoRunTyped DEF ActiveRemoteRun
    <3>2. run' = [run EXCEPT ![x] = r] \/ run' = [run EXCEPT ![x] = NoRun]
      BY <1>3 DEF FailedStart, Close
    <3> HIDE DEF r
    <3> QED
      BY <3>1, <3>2, NoRunTyped
  <2>4. RunFits(r, fin)
    BY <1>k, <2>1, <2>3 DEF RunFits
  <2>5. PairsFit
    BY <1>k, <2>1, <2>2, <2>3, <2>4, RunAlone
  <2>6. CallsSound
    BY <1>k, <2>1, SameCalls
  <2> QED
    BY <2>5, <2>6
<1>4. CASE FinalRetry(w, a)
  <2> DEFINE r == [old EXCEPT !.phase = "syncing"]
             s == [NoSync EXCEPT !.pc = "list"]
  <2>1. /\ old.phase = "retry" /\ call' = call /\ handed' = handed
        /\ run' = [run EXCEPT ![x] = r] /\ sync' = [sync EXCEPT ![<<w, a, "final">>] = s]
    BY <1>4 DEF FinalRetry, ghosts
  <2>2. ~Idle(w, a) /\ ~Quiet(w, a) /\ call[x].op # "finish"
    BY <1>k, <2>1 DEF Idle, Quiet, FinishEnds
  <2>3. /\ r \in ActiveRemoteRun /\ r.phase = "syncing" /\ r.kept = old.kept
        /\ r.delivered = old.delivered /\ r.status = old.status
    BY <1>k DEF ActiveRemoteRun, Phase
  <2>4. s \in SyncTask /\ TaskFits(s, handed')
    BY NoSyncTyped DEF TaskFits
  <2> HIDE DEF r, s
  <2>5. RunFits(r, s)
    BY <1>k, <2>1, <2>3 DEF RunFits
  <2>6. PairsFit
    BY <1>k, <2>1, <2>2, <2>3, <2>4, <2>5, SyncMoves
  <2>7. CallsSound
    BY <1>k, <2>1, SameCalls
  <2> QED
    BY <2>6, <2>7
<1>5. CASE SyncPollDone(w, a)
  <2>1. /\ sync[<<w, a, "poll">>].pc = "take" /\ call' = call /\ handed' = handed /\ run' = run
        /\ sync' = [sync EXCEPT ![<<w, a, "poll">>] = NoSync]
    BY <1>5 DEF SyncPollDone, ghosts
  <2>2. ~Idle(w, a)
    BY <1>k, <2>1 DEF Idle
  <2>3. NoSync \in SyncTask /\ TaskFits(NoSync, handed')
    BY NoSyncTyped DEF TaskFits
  <2>4. PairsFit
    <3>1. "poll" # "final"
      OBVIOUS
    <3>2. RunFits(old, IF "poll" = "final" THEN NoSync ELSE fin)
      BY <1>k
    <3>3. call[x].op = "finish" => old.phase \in {"none", "ending"}
      BY <1>k DEF FinishEnds
    <3>4. Quiet(w, a) => old.phase \in {"none", "claiming", "ending"}
      BY DEF Quiet
    <3> QED
      BY <1>k, <1>r, <2>1, <2>2, <2>3, <3>2, <3>3, <3>4, SyncMoves
  <2>5. CallsSound
    BY <1>k, <2>1, SameCalls
  <2> QED
    BY <2>4, <2>5
<1>6. CASE FinalDone(w, a)
  <2>1. /\ fin.pc = "take" /\ call' = call /\ handed' = handed
        /\ sync' = [sync EXCEPT ![<<w, a, "final">>] = NoSync]
    BY <1>6 DEF FinalDone, ghosts
  <2>2. old.phase = "syncing" /\ old.kept
    BY <1>k, <2>1 DEF RunFits
  <2>3. ~Idle(w, a) /\ ~Quiet(w, a) /\ call[x].op # "finish"
    BY <1>k, <2>1, <2>2 DEF Idle, Quiet, FinishEnds
  <2>4. NoSync \in SyncTask /\ TaskFits(NoSync, handed')
    BY NoSyncTyped DEF TaskFits
  <2>5. PICK r \in ActiveRemoteRun :
          /\ run' = [run EXCEPT ![x] = r]
          /\ r.kept /\ r.delivered = old.delivered /\ r.status = old.status
          /\ r.phase \in {"active", "publishing"}
    <3>1. CASE run' = [run EXCEPT ![x].phase = "active"]
      <4> DEFINE r == [old EXCEPT !.phase = "active"]
      <4>1. /\ r \in ActiveRemoteRun /\ r.kept /\ r.delivered = old.delivered
            /\ r.status = old.status /\ r.phase = "active"
        BY <1>k, <2>2 DEF ActiveRemoteRun, Phase
      <4>2. run' = [run EXCEPT ![x] = r]
        BY <3>1
      <4> HIDE DEF r
      <4> QED
        BY <4>1, <4>2
    <3>2. CASE \E S \in (IF old.status = "review" /\ asg[a].write
                         THEN SUBSET Repos[asg[a].thread] ELSE {{}}) :
                 run' = [run EXCEPT ![x].phase = "publishing", ![x].todo = S]
      <4>1. asg[a].thread \in Thread
        BY <2>3 DEF Unclaimed, RowsNamed
      <4>2. Repos[asg[a].thread] \in SUBSET Repo
        BY <4>1, CollaborationAssumption
      <4>3. PICK S \in SUBSET Repo :
              run' = [run EXCEPT ![x].phase = "publishing", ![x].todo = S]
        BY <3>2, <4>2
      <4> DEFINE r == [old EXCEPT !.phase = "publishing", !.todo = S]
      <4>4. /\ r \in ActiveRemoteRun /\ r.kept /\ r.delivered = old.delivered
            /\ r.status = old.status /\ r.phase = "publishing"
        BY <1>k, <2>2 DEF ActiveRemoteRun, Phase
      <4>5. run' = [run EXCEPT ![x] = r]
        BY <4>3
      <4> HIDE DEF r
      <4> QED
        BY <4>4, <4>5
    <3> QED
      BY <1>6, <3>1, <3>2 DEF FinalDone
  <2>6. RunFits(r, NoSync)
    BY <1>k, <2>2, <2>5, NoSyncTyped DEF RunFits
  <2>7. PairsFit
    BY <1>k, <2>1, <2>3, <2>4, <2>5, <2>6, SyncMoves
  <2>8. CallsSound
    BY <1>k, <2>1, SameCalls
  <2> QED
    BY <2>7, <2>8
<1>7. CASE Publish(w, a)
  <2>1. old.phase = "publishing" /\ call[x].op = "none" /\ sync' = sync /\ handed' = handed
    BY <1>7 DEF Publish, ghosts
  <2>2. ~Idle(w, a) /\ ~Quiet(w, a) /\ old.status \in Ended
    BY <1>k, <2>1 DEF Idle, Quiet, RunFits
  <2>3. ASSUME NEW p \in old.todo,
               call' = [call EXCEPT ![x] = [NoCall EXCEPT !.op = "report", !.a = a,
                                              !.r = p, !.pc = "body"]],
               run' = [run EXCEPT ![x].todo = @ \ {p}]
        PROVE  CallsSound /\ PairsFit
    <3> DEFINE r == [old EXCEPT !.todo = @ \ {p}]
               v == [NoCall EXCEPT !.op = "report", !.a = a, !.r = p, !.pc = "body"]
    <3>1. /\ r \in ActiveRemoteRun /\ r.phase = old.phase /\ r.kept = old.kept
          /\ r.delivered = old.delivered /\ r.local = old.local /\ r.status = old.status
      BY <1>k DEF ActiveRemoteRun
    <3>2. run' = [run EXCEPT ![x] = r]
      BY <2>3
    <3>v. v \in Call /\ v.op = "report" /\ CallFits(x, v, change')
      <4>1. p \in Repo
        BY <1>k DEF ActiveRemoteRun
      <4> QED
        BY <4>1, WorkerCall
    <3> HIDE DEF r, v
    <3>3. RunFits(r, fin)
      BY <1>k, <2>1, <3>1 DEF RunFits
    <3>c. call' = [call EXCEPT ![x] = v]
      BY <2>3 DEF v
    <3>4. PairsFit
      BY <1>k, <2>1, <2>2, <3>1, <3>2, <3>3, <3>v, <3>c, RunMoves
    <3>5. CallsSound
      BY <1>k, <3>v, <3>c, OneCall
    <3> QED
      BY <3>4, <3>5
  <2>4. CASE /\ call' = [call EXCEPT ![x] = FinishCall(a, old.status)]
             /\ run' = [run EXCEPT ![x].phase = "ending"]
    <3> DEFINE r == [old EXCEPT !.phase = "ending"]
               v == FinishCall(a, old.status)
    <3>1. /\ r \in ActiveRemoteRun /\ r.phase = "ending" /\ r.kept = old.kept
          /\ r.delivered = old.delivered /\ r.local = old.local
      BY <1>k DEF ActiveRemoteRun, Phase
    <3>2. run' = [run EXCEPT ![x] = r]
      BY <2>4
    <3>v. v \in Call /\ v.op = "finish" /\ CallFits(x, v, change')
      <4>1. old.status \in ThreadStatus
        BY <2>2 DEF ThreadStatus, Ended
      <4> QED
        BY <4>1, WorkerCall
    <3> HIDE DEF r, v
    <3>3. RunFits(r, fin)
      BY <1>k, <2>1, <3>1 DEF RunFits
    <3>c. call' = [call EXCEPT ![x] = v]
      BY <2>4 DEF v
    <3>4. PairsFit
      BY <1>k, <2>1, <2>2, <3>1, <3>2, <3>3, <3>v, <3>c, RunMoves
    <3>5. CallsSound
      BY <1>k, <3>v, <3>c, OneCall
    <3> QED
      BY <3>4, <3>5
  <2> QED
    BY <1>7, <2>3, <2>4 DEF Publish
<1>8. CASE PublishRefused(x)
  <2>1. call[x].op = "report" /\ sync' = sync /\ handed' = handed
    BY <1>8 DEF PublishRefused, ghosts
  <2>2. ~Idle(w, a) /\ ~Quiet(w, a) /\ call[x].a = a
    BY <1>k, <2>1 DEF Idle, Quiet, CallFits
  <2>3. CASE /\ old.phase = "publishing"
             /\ call' = [call EXCEPT ![x] = FinishCall(call[x].a, "failed")]
             /\ run' = [run EXCEPT ![x].phase = "ending"]
    <3> DEFINE r == [old EXCEPT !.phase = "ending"]
               v == FinishCall(a, "failed")
    <3>1. /\ r \in ActiveRemoteRun /\ r.phase = "ending" /\ r.kept = old.kept
          /\ r.delivered = old.delivered /\ r.local = old.local
      BY <1>k DEF ActiveRemoteRun, Phase
    <3>2. run' = [run EXCEPT ![x] = r]
      BY <2>3
    <3>v. v \in Call /\ v.op = "finish" /\ CallFits(x, v, change')
      <4>1. "failed" \in ThreadStatus
        BY DEF ThreadStatus
      <4> QED
        BY <4>1, WorkerCall
    <3> HIDE DEF r, v
    <3>3. RunFits(r, fin)
      BY <1>k, <2>3, <3>1 DEF RunFits
    <3>c. call' = [call EXCEPT ![x] = v]
      BY <2>2, <2>3 DEF v
    <3>4. PairsFit
      BY <1>k, <2>1, <2>2, <3>1, <3>2, <3>3, <3>v, <3>c, RunMoves
    <3>5. CallsSound
      BY <1>k, <3>v, <3>c, OneCall
    <3> QED
      BY <3>4, <3>5
  <2>4. CASE Return(x) /\ run' = run
    <3>1. CallsSound
      BY <1>k, <2>4, CallReturns
    <3>2. NoCall \in Call /\ NoCall.op = "none" /\ call' = [call EXCEPT ![x] = NoCall]
      BY <2>4, NoCallTyped DEF Return
    <3>3. PairsFit
      BY <1>k, <1>r, <2>1, <2>2, <2>4, <3>2, RunMoves
    <3> QED
      BY <3>1, <3>3
  <2> QED
    BY <1>8, <2>3, <2>4 DEF PublishRefused
<1>9. CASE FinishRefused(x)
  <2>1. call[x].op = "finish" /\ sync' = sync /\ handed' = handed /\ Return(x) /\ run' = run
    BY <1>9 DEF FinishRefused, ghosts, worker
  <2>2. ~Idle(w, a)
    BY <2>1 DEF Idle
  <2>3. CallsSound
    BY <1>k, <2>1, CallReturns
  <2>4. NoCall \in Call /\ NoCall.op = "none" /\ call' = [call EXCEPT ![x] = NoCall]
    BY <2>1, NoCallTyped DEF Return
  <2>5. Quiet(w, a) => old.phase \in {"none", "claiming", "ending"}
    BY DEF Quiet
  <2>6. PairsFit
    BY <1>k, <1>r, <2>1, <2>2, <2>4, <2>5, RunMoves
  <2> QED
    BY <2>3, <2>6
<1>10. CASE RenewFails(w, a)
  <2>1. /\ old.kept /\ call' = call /\ handed' = handed /\ sync' = StartFinal(run, run')
        /\ old.fails < 2
    BY <1>10 DEF RenewFails, ghosts
  <2>2. PICK r \in ActiveRemoteRun :
          /\ run' = [run EXCEPT ![x] = r] /\ r.kept /\ r.delivered = old.delivered
          /\ \/ r.phase = old.phase /\ r.status = old.status
             \/ r.phase = "syncing" /\ r.status = "paused" /\ old.phase = "active"
    <3>1. CASE run' = [run EXCEPT ![x] = [old EXCEPT !.fails = 1]]
      <4> DEFINE r == [old EXCEPT !.fails = 1]
      <4>1. /\ r \in ActiveRemoteRun /\ r.phase = old.phase /\ r.kept = old.kept
            /\ r.delivered = old.delivered /\ r.status = old.status
        BY <1>k DEF ActiveRemoteRun
      <4> HIDE DEF r
      <4> QED
        BY <2>1, <3>1, <4>1 DEF r
    <3>2. CASE run' = [run EXCEPT ![x] = StopLocal([old EXCEPT !.fails = 2])]
      <4> DEFINE q == [old EXCEPT !.fails = 2]
      <4>1. /\ q \in ActiveRemoteRun /\ q.phase = old.phase /\ q.kept = old.kept
            /\ q.delivered = old.delivered /\ q.status = old.status
        BY <1>k DEF ActiveRemoteRun
      <4>2. run' = [run EXCEPT ![x] = StopLocal(q)]
        BY <3>2
      <4> HIDE DEF q
      <4> QED
        BY <2>1, <4>1, <4>2, StopLocalRun
    <3> QED
      BY <1>10, <3>1, <3>2 DEF RenewFails
  <2>3. PairsFit
    BY <1>k, <2>1, <2>2, StopMoves DEF Ended
  <2>4. CallsSound
    BY <1>k, <2>1, SameCalls
  <2> QED
    BY <2>3, <2>4
<1>11. CASE RenewLease(w, a)
  <2> DEFINE r == [old EXCEPT !.fails = 0]
  <2>1. /\ old.kept /\ call' = call /\ handed' = handed /\ sync' = sync
        /\ run' = [run EXCEPT ![x] = r]
    BY <1>11 DEF RenewLease, ghosts
  <2>2. /\ r \in ActiveRemoteRun /\ r.phase = old.phase /\ r.kept = old.kept
        /\ r.delivered = old.delivered /\ r.status = old.status /\ r.local = old.local
    BY <1>k DEF ActiveRemoteRun
  <2> HIDE DEF r
  <2>3. ~Idle(w, a) /\ RunFits(r, fin)
    BY <1>k, <2>1, <2>2 DEF Idle, RunFits
  <2>4. /\ call[x].op = "finish" => r.phase \in {"none", "ending"}
        /\ Quiet(w, a) => r.phase \in {"none", "claiming", "ending"} /\ call[x].op # "report"
    BY <1>k, <2>2 DEF FinishEnds, Quiet
  <2>5. PairsFit
    BY <1>k, <2>1, <2>2, <2>3, <2>4, RunAlone
  <2>6. CallsSound
    BY <1>k, <2>1, SameCalls
  <2> QED
    BY <2>5, <2>6
<1> HIDE DEF x
<1> QED
  BY <1>1, <1>2, <1>3, <1>4, <1>5, <1>6, <1>7, <1>8, <1>9, <1>10, <1>11 DEF RunStep, x
(* Steps of a mirror. *)
LEMMA LocalSteps ==
  ASSUME TypeOK, CallShape, RunShape, Reported, Delivered, ChangesStay,
         NEW w \in Worker, NEW a \in Asg, LocalStep(w, a)
  PROVE  CallsSound /\ PairsFit
<1> DEFINE x == <<w, a>>
           old == run[x]
           fin == sync[<<w, a, "final">>]
<1>k. /\ old \in ActiveRemoteRun /\ run \in [Worker \X Asg -> ActiveRemoteRun]
      /\ RunFits(old, fin) /\ FinishEnds(w, a) /\ old.delivered \subseteq handed
      /\ x \in Worker \X Asg /\ call \in [Caller -> Call]
  BY PairKnown
<1>0. /\ old.local # "none" /\ call' = call /\ handed' = handed
      /\ \/ sync' = sync
         \/ sync' = StartFinal(run, run') /\ \E s \in Ended : run' = [run EXCEPT ![x] = Stopped(@, s)]
  BY DEF LocalStep, LocalEnds, LocalContinues, LocalUpdated, Ended, ghosts
<1>1. old.kept /\ ~Idle(w, a)
  BY <1>k, <1>0 DEF RunFits, Idle
<1>2. CallsSound
  BY <1>k, <1>0, SameCalls
<1>3. CASE LocalEnds(w, a)
  <2>1. PICK s \in Ended : run' = [run EXCEPT ![x] = Stopped(old, s)]
    BY <1>3 DEF LocalEnds
  <2>2. sync' = StartFinal(run, run')
    BY <1>3 DEF LocalEnds
  <2> DEFINE r == Stopped(old, s)
  <2>3. /\ r \in ActiveRemoteRun /\ r.kept /\ r.delivered = old.delivered
        /\ r.status = IF old.phase = "active" THEN s ELSE old.status
        /\ r.phase = IF old.phase = "active" THEN "syncing" ELSE old.phase
    BY <1>k, <1>0, <1>1, StoppedRun
  <2> HIDE DEF r
  <2>4. run' = [run EXCEPT ![x] = r]
    BY <2>1 DEF r
  <2>5. PairsFit
    BY <1>0, <1>1, <2>2, <2>3, <2>4, StopMoves
  <2> QED
    BY <1>2, <2>5
<1>4. CASE LocalContinues(w, a) \/ LocalUpdated(w, a)
  <2>1. PICK r \in ActiveRemoteRun :
          /\ run' = [run EXCEPT ![x] = r] /\ r.phase = old.phase /\ r.kept = old.kept
          /\ r.delivered = old.delivered /\ r.status = old.status
    <3>1. CASE LocalContinues(w, a)
      <4> DEFINE c == old.cont /\ old.phase # "active"
                 r == [old EXCEPT !.local = "running", !.msgs = @ - 1, !.cont = c]
      <4>1. old.msgs - 1 \in 0..MaxCalls
        BY <1>k, <3>1, CollaborationAssumption DEF LocalContinues, ActiveRemoteRun
      <4>2. c \in BOOLEAN /\ run' = [run EXCEPT ![x] = r]
        BY <3>1 DEF LocalContinues
      <4> HIDE DEF c
      <4>3. /\ r \in ActiveRemoteRun /\ r.phase = old.phase /\ r.kept = old.kept
            /\ r.delivered = old.delivered /\ r.status = old.status
        BY <1>k, <4>1, <4>2 DEF ActiveRemoteRun, Mirror
      <4> HIDE DEF r
      <4> QED
        BY <4>2, <4>3
    <3>2. CASE LocalUpdated(w, a)
      <4> DEFINE r == [old EXCEPT !.cont = FALSE]
      <4>1. run' = [run EXCEPT ![x] = r]
        BY <3>2 DEF LocalUpdated
      <4>2. /\ r \in ActiveRemoteRun /\ r.phase = old.phase /\ r.kept = old.kept
            /\ r.delivered = old.delivered /\ r.status = old.status
        BY <1>k DEF ActiveRemoteRun
      <4> HIDE DEF r
      <4> QED
        BY <4>1, <4>2
    <3> QED
      BY <1>4, <3>1, <3>2
  <2>2. sync' = sync
    BY <1>4 DEF LocalContinues, LocalUpdated
  <2>3. RunFits(r, fin)
    BY <1>k, <1>1, <2>1 DEF RunFits
  <2>4. /\ call[x].op = "finish" => r.phase \in {"none", "ending"}
        /\ Quiet(w, a) => r.phase \in {"none", "claiming", "ending"}
    BY <1>k, <2>1 DEF FinishEnds, Quiet
  <2>5. PairsFit
    BY <1>k, <1>0, <1>1, <2>1, <2>2, <2>3, <2>4, RunAlone
  <2> QED
    BY <1>2, <2>5
<1> QED
  BY <1>3, <1>4 DEF LocalStep

(* Follow-ups go from the queue to a mirror. *)
LEMMA SyncSteps ==
  ASSUME TypeOK, RowsNamed, CallShape, RunShape, Unclaimed, Reported, Delivered, ChangesStay,
         NEW x \in Triple, SyncStep(x)
  PROVE  CallsSound /\ PairsFit
<1>0. PICK w \in Worker, a \in Asg, k \in Who : x = <<w, a, k>>
  BY DEF Triple
<1>1. x[1] = w /\ x[2] = a /\ x[3] = k
  BY <1>0
<1> DEFINE y == <<w, a>>
           old == run[y]
           fin == sync[<<w, a, "final">>]
           t == sync[<<w, a, k>>]
<1>k. /\ old \in ActiveRemoteRun /\ run \in [Worker \X Asg -> ActiveRemoteRun]
      /\ sync \in [Triple -> SyncTask]
      /\ t \in SyncTask /\ TaskFits(t, handed)
      /\ RunFits(old, fin) /\ FinishEnds(w, a) /\ old.delivered \subseteq handed
      /\ handed \subseteq Instr
      /\ y \in Worker \X Asg /\ call \in [Caller -> Call]
  BY PairKnown
<1>2. t.pc # "none" /\ call' = call /\ handed \subseteq handed'
  BY <1>0, <1>1 DEF SyncStep, SyncList, SyncTake, SyncSend, DeleteQueued, SyncFailed, ghosts
<1>3. ~Idle(w, a)
  BY <1>2 DEF Idle
<1>4. CallsSound
  BY <1>k, <1>2, SameCalls
<1>5. /\ call[y].op = "finish" => old.phase \in {"none", "ending"}
      /\ Quiet(w, a) => old.phase \in {"none", "claiming", "ending"}
  BY <1>k DEF FinishEnds, Quiet
<1>6. ASSUME NEW s \in SyncTask, run' = run, sync' = [sync EXCEPT ![<<w, a, k>>] = s],
             TaskFits(s, handed')
      PROVE  PairsFit
  <2>1. run' = [run EXCEPT ![y] = old]
    BY <1>k, <1>6
  <2>2. RunFits(old, IF k = "final" THEN s ELSE fin)
    BY <1>k, <1>2 DEF RunFits
  <2>3. old.delivered \subseteq handed'
    BY <1>k, <1>2
  <2> QED
    BY <1>k, <1>2, <1>3, <1>5, <1>6, <2>1, <2>2, <2>3, SyncMoves
<1>7. CASE SyncList(x)
  <2>1. asg[a].thread \in Thread
    BY <1>3 DEF Unclaimed, RowsNamed
  <2>2. queue[asg[a].thread] \in SUBSET Instr
    BY <2>1 DEF TypeOK
  <2> DEFINE q == queue[asg[a].thread]
  <2> DEFINE s == [t EXCEPT !.pc = "take", !.todo = q]
  <2>3. run' = run /\ sync' = [sync EXCEPT ![<<w, a, k>>] = s]
    BY <1>0, <1>1, <1>7 DEF SyncList
  <2> HIDE DEF q
  <2>4. q \in SUBSET Instr
    BY <2>2 DEF q
  <2>5. s \in SyncTask /\ s.pc = "take"
    BY <1>k, <2>4 DEF SyncTask
  <2> HIDE DEF s
  <2>6. TaskFits(s, handed')
    BY <2>5 DEF TaskFits
  <2> QED
    BY <1>4, <1>6, <2>3, <2>5, <2>6
<1>8. CASE SyncTake(x)
  <2>1. PICK i \in t.todo, p \in {"delete", "send"} :
          /\ p = "delete" => i \in old.delivered
          /\ sync' = [sync EXCEPT ![<<w, a, k>>].pc = p, ![<<w, a, k>>].i = i]
    BY <1>0, <1>1, <1>8 DEF SyncTake
  <2>2. run' = run
    BY <1>8 DEF SyncTake
  <2>3. i \in Instr
    BY <1>k, <2>1 DEF SyncTask
  <2> DEFINE s == [t EXCEPT !.pc = p, !.i = i]
  <2>4. s \in SyncTask /\ s.pc = p /\ s.i = i
    BY <1>k, <2>1, <2>3 DEF SyncTask
  <2>5. sync' = [sync EXCEPT ![<<w, a, k>>] = s]
    BY <2>1
  <2> HIDE DEF s
  <2>6. TaskFits(s, handed')
    BY <1>k, <1>2, <2>1, <2>3, <2>4 DEF TaskFits
  <2> QED
    BY <1>4, <1>6, <2>2, <2>4, <2>5, <2>6
<1>9. CASE DeleteQueued(x)
  <2> DEFINE s == [pc |-> "take", todo |-> t.todo \ {t.i}, i |-> None]
  <2>1. run' = run /\ sync' = [sync EXCEPT ![<<w, a, k>>] = s]
    BY <1>0, <1>9 DEF DeleteQueued
  <2>2. s \in SyncTask /\ s.pc = "take"
    BY <1>k DEF SyncTask
  <2> HIDE DEF s
  <2>3. TaskFits(s, handed')
    BY <2>2 DEF TaskFits
  <2> QED
    BY <1>4, <1>6, <2>1, <2>2, <2>3
<1>10. CASE SyncFailed(x)
  <2>1. NoSync \in SyncTask /\ TaskFits(NoSync, handed')
    BY NoSyncTyped DEF TaskFits
  <2>2. sync' = [sync EXCEPT ![<<w, a, k>>] = NoSync]
        /\ run' = IF k = "final" THEN [run EXCEPT ![y].phase = "retry"] ELSE run
    BY <1>0, <1>1, <1>10 DEF SyncFailed
  <2>3. CASE k # "final"
    <3>1. run' = run
      BY <2>2, <2>3
    <3> QED
      BY <1>4, <1>6, <2>1, <2>2, <3>1
  <2>4. CASE k = "final"
    <3> DEFINE r == [old EXCEPT !.phase = "retry"]
    <3>1. old.phase = "syncing" /\ old.kept /\ old.status \in Ended
      BY <1>k, <1>2, <2>4 DEF RunFits
    <3>2. /\ r \in ActiveRemoteRun /\ r.phase = "retry" /\ r.kept = old.kept
          /\ r.delivered = old.delivered /\ r.status = old.status
      BY <1>k DEF ActiveRemoteRun, Phase
    <3>3. run' = [run EXCEPT ![y] = r]
      BY <2>2, <2>4
    <3> HIDE DEF r
    <3>4. RunFits(r, NoSync)
      BY <3>1, <3>2, NoSyncTyped DEF RunFits
    <3>5. call[y].op # "finish" /\ ~Quiet(w, a)
      BY <1>5, <3>1
    <3>6. r.delivered \subseteq handed'
      BY <1>k, <1>2, <3>2
    <3>7. RunFits(r, IF k = "final" THEN NoSync ELSE fin)
      BY <2>4, <3>4
    <3>8. PairsFit
      BY <1>2, <1>3, <2>1, <2>2, <3>2, <3>3, <3>5, <3>6, <3>7, SyncMoves
    <3> QED
      BY <1>4, <3>8
  <2> QED
    BY <2>3, <2>4
<1>11. CASE SyncSend(x)
  <2>1. /\ t.pc = "send" /\ old.local # "none"
        /\ run' = [run EXCEPT ![y] = [Received(old) EXCEPT !.delivered = @ \cup {t.i}, !.cont = TRUE]]
        /\ handed' = handed \cup {t.i}
        /\ sync' = [sync EXCEPT ![<<w, a, k>>].pc = "delete"]
    BY <1>0, <1>1, <1>11 DEF SyncSend
  <2>2. t.i \in Instr /\ old.kept
    BY <1>k, <2>1 DEF TaskFits, RunFits
  <2> DEFINE q == Received(old)
             r == [q EXCEPT !.delivered = @ \cup {t.i}, !.cont = TRUE]
             s == [t EXCEPT !.pc = "delete"]
  <2>3. /\ q \in ActiveRemoteRun /\ q.phase = old.phase /\ q.kept = old.kept
        /\ q.delivered = old.delivered /\ q.status = old.status
    <3>1. CASE old.local = "running"
      <4> DEFINE n == IF old.msgs < MaxCalls THEN old.msgs + 1 ELSE old.msgs
      <4>1. n \in 0..MaxCalls
        BY <1>k, CollaborationAssumption DEF ActiveRemoteRun
      <4>2. q = [old EXCEPT !.msgs = n]
        BY <3>1 DEF Received
      <4> HIDE DEF n, q
      <4> QED
        BY <1>k, <4>1, <4>2 DEF ActiveRemoteRun
    <3>2. CASE old.local # "running"
      BY <1>k, <3>2 DEF Received, ActiveRemoteRun, Mirror
    <3> QED
      BY <3>1, <3>2
  <2> HIDE DEF q
  <2>4. /\ r \in ActiveRemoteRun /\ r.phase = q.phase /\ r.kept = q.kept
        /\ r.delivered = q.delivered \cup {t.i} /\ r.status = q.status
    BY <2>2, <2>3 DEF ActiveRemoteRun
  <2>5. s \in SyncTask /\ s.pc = "delete" /\ s.i = t.i
    BY <1>k DEF SyncTask
  <2>6. run' = [run EXCEPT ![y] = r] /\ sync' = [sync EXCEPT ![<<w, a, k>>] = s]
    BY <2>1 DEF q
  <2> HIDE DEF r, s
  <2>7. TaskFits(s, handed') /\ r.delivered \subseteq handed'
    BY <1>k, <2>1, <2>3, <2>4, <2>5 DEF TaskFits
  <2>8. RunFits(r, IF k = "final" THEN s ELSE fin)
    <3>1. t.pc # "none" /\ (k = "final" => t = fin)
      BY <2>1
    <3> QED
      BY <1>k, <2>2, <2>3, <2>4, <3>1 DEF RunFits
  <2>9. /\ call[y].op = "finish" => r.phase \in {"none", "ending"}
        /\ Quiet(w, a) => r.phase \in {"none", "claiming", "ending"}
    BY <1>5, <2>3, <2>4
  <2>10. PairsFit
    BY <1>2, <1>3, <2>4, <2>5, <2>6, <2>7, <2>8, <2>9, SyncMoves
  <2> QED
    BY <1>4, <2>10
<1> QED
  BY <1>7, <1>8, <1>9, <1>10, <1>11 DEF SyncStep
(* Steps that leave the workers alone. *)
LEMMA WorkersKept ==
  ASSUME TypeOK, RunShape, Reported, Delivered, UNCHANGED <<run, sync>>, NoNewReport,
         handed' = handed
  PROVE  PairsFit
<1>1. RunTypes
  BY DEF TypeOK, RunTypes, Triple
<1>2. ASSUME NEW w \in Worker, NEW a \in Asg PROVE PairFits(w, a)
  <2>1. call'[<<w, a>>].op \in {"report", "finish"} => call'[<<w, a>>].op = call[<<w, a>>].op
    BY DEF NoNewReport
  <2> QED
    BY <2>1, PairKept
<1> QED
  BY <1>1, <1>2 DEF PairsFit

(* The poll stops, claims and synchronises several runs at once. *)
LEMMA PollPairs ==
  ASSUME TypeOK, CallShape, RunShape, Reported, Delivered, ChangesStay,
         NEW w \in Worker, PollStep(w) \/ Dispose(w)
  PROVE  PairsFit
<1>t. /\ run \in [Worker \X Asg -> ActiveRemoteRun] /\ sync \in [Triple -> SyncTask]
      /\ poll[w].queued \subseteq Asg
  BY DEF TypeOK, Triple
<1>c. NoNewReport
  BY PollCalls
<1>h. handed' = handed
  BY DEF PollStep, Poll, PollList, PollHandle, PollSync, PollDone, Dispose, ghosts
<1>1. CASE Poll(w) \/ PollList(w) \/ PollDone(w)
  BY <1>1, <1>c, <1>h, WorkersKept DEF Poll, PollList, PollDone
<1>2. CASE PollSync(w)
  <2>1. /\ run' = run
        /\ sync' = [x \in DOMAIN sync |->
             IF x[1] = w /\ x[3] = "poll" /\ x[2] \in Kept(w) /\ queue[asg[x[2]].thread] # {}
             THEN [NoSync EXCEPT !.pc = "list"] ELSE sync[x]]
    BY <1>2 DEF PollSync
  <2>2. RunTypes
    BY <1>t, <2>1, NoSyncTyped DEF RunTypes
  <2>3. ASSUME NEW v \in Worker, NEW b \in Asg PROVE PairFits(v, b)
    <3>1. ASSUME NEW k \in Who
          PROVE  \/ sync'[<<v, b, k>>] = sync[<<v, b, k>>]
                 \/ /\ k = "poll" /\ run[<<v, b>>].kept
                    /\ sync'[<<v, b, k>>] = [NoSync EXCEPT !.pc = "list"]
      <4>1. <<v, b, k>> \in DOMAIN sync
        BY <1>t DEF Triple
      <4> QED
        BY <2>1, <4>1 DEF Kept
    <3>2. call'[<<v, b>>].op \in {"report", "finish"} => call'[<<v, b>>].op = call[<<v, b>>].op
      BY <1>c DEF NoNewReport
    <3>3. CASE \A k \in Who : sync'[<<v, b, k>>] = sync[<<v, b, k>>]
      BY <1>h, <2>1, <3>2, <3>3, PairKept
    <3>4. CASE run[<<v, b>>].kept
      <4>1. ~Idle(v, b)
        BY <3>4 DEF Idle
      <4>2. \A k \in Who : TaskFits(sync'[<<v, b, k>>], handed')
        BY <1>h, <3>1, NoSyncTyped DEF TaskFits, Delivered
      <4>3. sync'[<<v, b, "final">>] = sync[<<v, b, "final">>]
        BY <3>1 DEF Who
      <4>4. FinishEnds(v, b)' /\ (Quiet(v, b) => Quiet(v, b)')
        BY <2>1, <3>2 DEF FinishEnds, Quiet, Reported
      <4>5. RunFits(run'[<<v, b>>], sync'[<<v, b, "final">>])
            /\ run'[<<v, b>>].delivered \subseteq handed'
        BY <1>h, <2>1, <4>3 DEF RunShape, Delivered
      <4> QED
        BY <4>1, <4>2, <4>4, <4>5 DEF PairFits
    <3> QED
      BY <3>1, <3>3, <3>4
  <2> QED
    BY <2>2, <2>3 DEF PairsFit
<1>3. CASE Dispose(w)
  <2>1. /\ run' = [x \in Worker \X Asg |-> IF x[1] = w THEN NoRun ELSE run[x]]
        /\ sync' = [x \in DOMAIN sync |-> IF x[1] = w THEN NoSync ELSE sync[x]]
        /\ call' = call
    BY <1>3 DEF Dispose
  <2>2. RunTypes
    BY <1>t, <2>1, NoSyncTyped, NoRunTyped DEF RunTypes
  <2>3. ASSUME NEW v \in Worker, NEW b \in Asg PROVE PairFits(v, b)
    <3>1. CASE v = w
      <4>1. run'[<<v, b>>] = NoRun /\ \A k \in Who : sync'[<<v, b, k>>] = NoSync
        BY <1>t, <2>1, <3>1 DEF Triple
      <4>2. "final" \in Who
        BY DEF Who
      <4>3. RunFits(run'[<<v, b>>], sync'[<<v, b, "final">>])
        BY <4>1, <4>2, NoRunTyped, NoSyncTyped DEF RunFits
      <4>4. /\ run'[<<v, b>>].delivered \subseteq handed'
            /\ \A k \in Who : TaskFits(sync'[<<v, b, k>>], handed')
        BY <4>1, NoRunTyped, NoSyncTyped DEF TaskFits
      <4>5. FinishEnds(v, b)' /\ (Quiet(v, b) => Quiet(v, b)')
        BY <2>1, <4>1, NoRunTyped DEF FinishEnds, Quiet
      <4>6. Idle(v, b) => Idle(v, b)'
        BY <2>1, <4>1, NoRunTyped, NoSyncTyped DEF Idle
      <4> QED
        BY <4>3, <4>4, <4>5, <4>6 DEF PairFits
    <3>2. CASE v # w
      <4>1. /\ run'[<<v, b>>] = run[<<v, b>>]
            /\ \A k \in Who : sync'[<<v, b, k>>] = sync[<<v, b, k>>]
        BY <1>t, <2>1, <3>2 DEF Triple
      <4> QED
        BY <1>h, <2>1, <4>1, PairKept
    <3> QED
      BY <3>1, <3>2
  <2> QED
    BY <2>2, <2>3 DEF PairsFit
<1>4. CASE PollHandle(w)
  <2> DEFINE lost == Kept(w) \ poll[w].seen
             stopped == [x \in Worker \X Asg |->
                           IF x[1] = w /\ x[2] \in lost THEN StopLocal(run[x]) ELSE run[x]]
  <2>1. PICK S \in SUBSET Asg :
          /\ run' = [x \in Worker \X Asg |->
               IF x[1] = w /\ x[2] \in S /\ ~run[x].kept
               THEN [NoRun EXCEPT !.phase = "claiming"] ELSE stopped[x]]
          /\ sync' = StartFinal(run, stopped)
          /\ call' = [c \in Caller |->
               IF c \in {<<w, a>> : a \in {b \in S : ~run[<<w, b>>].kept}}
               THEN Entered([NoCall EXCEPT !.op = "claim", !.a = c[2]]) ELSE call[c]]
    BY <1>t, <1>4 DEF PollHandle
  <2> DEFINE new == [NoRun EXCEPT !.phase = "claiming"]
  <2>2. /\ new \in ActiveRemoteRun /\ new.phase = "claiming" /\ ~new.kept
        /\ new.local = "none" /\ new.delivered = {}
    BY NoRunTyped DEF ActiveRemoteRun, Phase
  <2> HIDE DEF new
  <2>3. ASSUME NEW v \in Worker, NEW b \in Asg
        PROVE  /\ stopped[<<v, b>>] \in ActiveRemoteRun
               /\ \/ stopped[<<v, b>>] = run[<<v, b>>]
                  \/ /\ run[<<v, b>>].kept /\ stopped[<<v, b>>].kept
                     /\ stopped[<<v, b>>].delivered = run[<<v, b>>].delivered
                     /\ \/ /\ stopped[<<v, b>>].phase = run[<<v, b>>].phase
                           /\ stopped[<<v, b>>].status = run[<<v, b>>].status
                        \/ /\ stopped[<<v, b>>].phase = "syncing"
                           /\ stopped[<<v, b>>].status = "paused"
                           /\ run[<<v, b>>].phase = "active"
    <3>1. run[<<v, b>>] \in ActiveRemoteRun
      BY <1>t
    <3>2. CASE v = w /\ b \in lost
      <4>1. run[<<v, b>>].kept /\ stopped[<<v, b>>] = StopLocal(run[<<v, b>>])
        BY <3>2 DEF Kept
      <4> QED
        BY <3>1, <4>1, StopLocalRun
    <3>3. CASE ~(v = w /\ b \in lost)
      BY <3>1, <3>3
    <3> QED
      BY <3>2, <3>3
  <2>4. stopped \in [Worker \X Asg -> ActiveRemoteRun]
    <3>1. ASSUME NEW x \in Worker \X Asg PROVE stopped[x] \in ActiveRemoteRun
      <4>1. PICK v \in Worker, b \in Asg : x = <<v, b>>
        OBVIOUS
      <4>2. stopped[<<v, b>>] \in ActiveRemoteRun
        BY <2>3
      <4> QED
        BY <4>1, <4>2
    <3>2. stopped = [x \in Worker \X Asg |-> stopped[x]]
      OBVIOUS
    <3> HIDE DEF stopped
    <3> QED
      BY <3>1, <3>2
  <2>6. \A v \in Worker, b \in Asg :
          run'[<<v, b>>] = IF v = w /\ b \in S /\ ~run[<<v, b>>].kept THEN new
                           ELSE stopped[<<v, b>>]
    BY <2>1 DEF new
  <2> HIDE DEF stopped
  <2>7. RunTypes
    <3>1. run' \in [Worker \X Asg -> ActiveRemoteRun]
      BY <2>1, <2>2, <2>4 DEF new
    <3>2. sync' \in [Triple -> SyncTask]
      BY <1>t, <2>1, NoSyncTyped DEF StartFinal
    <3> QED
      BY <3>1, <3>2 DEF RunTypes
  <2>8. ASSUME NEW v \in Worker, NEW b \in Asg, NEW k \in Who
        PROVE  sync'[<<v, b, k>>] =
                 IF k = "final" /\ run[<<v, b>>].phase # "syncing"
                    /\ stopped[<<v, b>>].phase = "syncing"
                 THEN [NoSync EXCEPT !.pc = "list"] ELSE sync[<<v, b, k>>]
    <3>1. <<v, b, k>> \in DOMAIN sync
      BY <1>t DEF Triple
    <3> QED
      BY <2>1, <3>1 DEF StartFinal
  <2>9. ASSUME NEW v \in Worker, NEW b \in Asg PROVE PairFits(v, b)
    <3>1. /\ RunFits(run[<<v, b>>], sync[<<v, b, "final">>]) /\ FinishEnds(v, b)
          /\ run[<<v, b>>].delivered \subseteq handed
          /\ \A k \in Who : TaskFits(sync[<<v, b, k>>], handed)
          /\ "final" \in Who
      BY DEF RunShape, Delivered, Reported, Who
    <3>2. call'[<<v, b>>].op \in {"report", "finish"} => call'[<<v, b>>].op = call[<<v, b>>].op
      BY <1>c DEF NoNewReport
    <3>3. CASE v = w /\ b \in S /\ ~run[<<v, b>>].kept
      <4>1. run'[<<v, b>>] = new /\ stopped[<<v, b>>] = run[<<v, b>>]
        BY <2>3, <2>6, <3>3
      <4>2. \A k \in Who : sync'[<<v, b, k>>] = sync[<<v, b, k>>]
        BY <2>8, <4>1
      <4>3. sync[<<v, b, "final">>].pc = "none"
        BY <3>1, <3>3 DEF RunFits
      <4>4. RunFits(run'[<<v, b>>], sync'[<<v, b, "final">>])
        BY <2>2, <3>1, <4>1, <4>2, <4>3 DEF RunFits
      <4>5. call'[<<v, b>>].op = "claim"
        <5>1. <<v, b>> \in Caller /\ <<v, b>> \in {<<w, a>> : a \in {e \in S : ~run[<<w, e>>].kept}}
          BY <3>3 DEF Caller
        <5>2. call'[<<v, b>>] = Entered([NoCall EXCEPT !.op = "claim", !.a = b])
          BY <2>1, <5>1
        <5> DEFINE n == [NoCall EXCEPT !.op = "claim", !.a = b]
        <5>3. n \in Call /\ n.op = "claim"
          <6>1. n \in Call
            BY NewCalls DEF Op
          <6>2. n.op = "claim"
            BY NoCallTyped DEF Call
          <6> QED
            BY <6>1, <6>2
        <5> HIDE DEF n
        <5>4. Entered(n).op = "claim"
          BY <5>3 DEF Entered, Call
        <5> QED
          BY <5>2, <5>4 DEF n
      <4>6. FinishEnds(v, b)' /\ Quiet(v, b)'
        BY <2>2, <4>1, <4>5 DEF FinishEnds, Quiet
      <4>7. Idle(v, b) => Idle(v, b)'
        BY <2>2, <4>1, <4>2, <4>5 DEF Idle
      <4>8. /\ run'[<<v, b>>].delivered \subseteq handed'
            /\ \A k \in Who : TaskFits(sync'[<<v, b, k>>], handed')
        BY <1>h, <2>2, <3>1, <4>1, <4>2
      <4> QED
        BY <4>4, <4>6, <4>7, <4>8 DEF PairFits
    <3>4. CASE run'[<<v, b>>] = stopped[<<v, b>>] /\ stopped[<<v, b>>] = run[<<v, b>>]
      <4>1. \A k \in Who : sync'[<<v, b, k>>] = sync[<<v, b, k>>]
        BY <2>8, <3>4
      <4> QED
        BY <1>h, <3>2, <3>4, <4>1, PairKept
    <3>5. CASE run'[<<v, b>>] = stopped[<<v, b>>] /\ stopped[<<v, b>>] # run[<<v, b>>]
      <4> DEFINE r == stopped[<<v, b>>]
      <4>1. /\ run[<<v, b>>].kept /\ r.kept /\ r.delivered = run[<<v, b>>].delivered
            /\ \/ r.phase = run[<<v, b>>].phase /\ r.status = run[<<v, b>>].status
               \/ r.phase = "syncing" /\ r.status = "paused" /\ run[<<v, b>>].phase = "active"
        BY <2>3, <3>5
      <4> HIDE DEF r
      <4>2. \A k \in Who : TaskFits(sync'[<<v, b, k>>], handed')
        BY <1>h, <2>8, <3>1, NoSyncTyped DEF TaskFits
      <4>3. RunFits(r, sync'[<<v, b, "final">>])
        <5>1. sync'[<<v, b, "final">>].pc # "none" => r.phase = "syncing"
          BY <2>8, <3>1, <4>1 DEF RunFits, r
        <5> QED
          BY <3>1, <4>1, <5>1 DEF RunFits, Ended
      <4>4. FinishEnds(v, b)' /\ (Quiet(v, b) => Quiet(v, b)')
        BY <3>1, <3>2, <3>5, <4>1 DEF FinishEnds, Quiet, r
      <4>5. ~Idle(v, b)
        BY <4>1 DEF Idle
      <4> QED
        BY <1>h, <3>1, <3>5, <4>1, <4>2, <4>3, <4>4, <4>5 DEF PairFits, r
    <3> QED
      BY <2>6, <3>3, <3>4, <3>5
  <2> QED
    BY <2>7, <2>9 DEF PairsFit
<1> QED
  BY <1>1, <1>2, <1>3, <1>4 DEF PollStep
(***************************************************************************)
(* The coordinator's rows.                                                 *)
(***************************************************************************)

(* How the status of an assignment may change in a step. *)
RowMoves(a) ==
  \/ asg'[a].status = asg[a].status
  \/ asg[a].status = "none" /\ asg'[a].status = "queued"
  \/ asg[a].status = "queued" /\ asg'[a].status \in {"running", "failed"}
  \/ asg[a].status = "running" /\ asg'[a].status \in {"lease_expired", "failed"}
  \/ /\ asg[a].status = "running" /\ asg'[a].status = "review"
     /\ \A w \in Worker : Quiet(w, a)
  \/ /\ asg[a].status = "review" /\ asg'[a].status = "completed"
     /\ Settles(a) /\ change' = change
  \/ /\ asg[a].status \in Live \cup {"failed", "lease_expired"}
     /\ asg'[a].status = "cancelled"
RowsSound ==
  /\ asg' \in [Asg -> Assignment] /\ lease' \in [Repo -> Asg \cup {None}]
  /\ RowsNamed' /\ LeasesBacked'
  /\ \A a \in Asg : RowMoves(a)

LEMMA RowsKept ==
  ASSUME TypeOK, RowsNamed, LeasesBacked, asg' = asg, lease' = lease
  PROVE  RowsSound
  BY DEF TypeOK, RowsNamed, LeasesBacked, RowsSound, RowMoves

(* One row changes; its repositories are released, or it stays live. *)
LEMMA RowChanges ==
  ASSUME TypeOK, RowsNamed, LeasesBacked, NEW a \in Asg, NEW row \in Assignment,
         asg' = [asg EXCEPT ![a] = row],
         row.thread = asg[a].thread, row.device = asg[a].device, row.write = asg[a].write,
         row.status # "none" => asg[a].status # "none",
         \/ lease' = lease /\ (asg[a].status \in Live => row.status \in Live)
         \/ ReleaseRepoLeases({a}),
         RowMoves(a)
  PROVE  RowsSound
<1>t. asg \in [Asg -> Assignment] /\ lease \in [Repo -> Asg \cup {None}]
  BY DEF TypeOK
<1>1. /\ asg' \in [Asg -> Assignment] /\ asg'[a] = row
      /\ \A b \in Asg : b # a => asg'[b] = asg[b]
  BY <1>t
<1>2. /\ lease' \in [Repo -> Asg \cup {None}]
      /\ \A r \in Repo : lease'[r] # None =>
           lease'[r] = lease[r] /\ (lease[r] = a => (asg[a].status \in Live => row.status \in Live))
  BY <1>t DEF ReleaseRepoLeases
<1>3. RowsNamed'
  BY <1>1 DEF RowsNamed
<1>4. LeasesBacked'
  <2> SUFFICES ASSUME NEW r \in Repo, lease'[r] # None
               PROVE  /\ asg'[lease'[r]].status \in Live /\ asg'[lease'[r]].write
                      /\ r \in Repos[asg'[lease'[r]].thread]
    BY DEF LeasesBacked
  <2>1. lease'[r] = lease[r] /\ lease[r] \in Asg
    BY <1>t, <1>2
  <2>2. /\ asg[lease[r]].status \in Live /\ asg[lease[r]].write
        /\ r \in Repos[asg[lease[r]].thread]
    BY <2>1 DEF LeasesBacked
  <2> QED
    BY <1>1, <1>2, <2>1, <2>2
<1>5. \A b \in Asg : RowMoves(b)
  <2> SUFFICES ASSUME NEW b \in Asg, b # a PROVE RowMoves(b)
    OBVIOUS
  <2>1. asg'[b] = asg[b]
    BY <1>1
  <2> QED
    BY <2>1 DEF RowMoves
<1> QED
  BY <1>1, <1>2, <1>3, <1>4, <1>5 DEF RowsSound

(* The sweep, finish and the end of a review. *)
LEMMA HubRows ==
  ASSUME TypeOK, RowsNamed, LeasesBacked, CallShape, OneOwner, Reported,
         NEW c \in Caller, HubStep(c)
  PROVE  RowsSound
<1>t. /\ asg \in [Asg -> Assignment] /\ call[c] \in Call /\ CallFits(c, call[c], change)
  BY DEF TypeOK, CallShape
<1>1. CASE ExpireOne(c)
  <2>1. PICK a \in call[c].ids :
          /\ asg' = [asg EXCEPT ![a] =
               IF @.status = "running"
               THEN [@ EXCEPT !.status = "lease_expired", !.lapsed = FALSE] ELSE @]
          /\ ReleaseRepoLeases({a})
    BY <1>1 DEF ExpireOne
  <2>2. a \in Asg /\ asg[a] \in Assignment
    BY <1>t, <2>1 DEF Call
  <2> DEFINE row == IF asg[a].status = "running"
                    THEN [asg[a] EXCEPT !.status = "lease_expired", !.lapsed = FALSE] ELSE asg[a]
  <2>3. /\ row \in Assignment /\ row.thread = asg[a].thread /\ row.device = asg[a].device
        /\ row.write = asg[a].write
        /\ row.status = IF asg[a].status = "running" THEN "lease_expired" ELSE asg[a].status
    BY <2>2 DEF Assignment, Status
  <2>4. asg' = [asg EXCEPT ![a] = row]
    BY <2>1
  <2> HIDE DEF row
  <2>5. asg'[a] = row
    BY <1>t, <2>2, <2>4
  <2>6. RowMoves(a)
    BY <2>3, <2>5 DEF RowMoves
  <2> QED
    BY <2>1, <2>2, <2>3, <2>4, <2>6, RowChanges
<1>2. CASE FailOne(c)
  <2>1. PICK a \in call[c].ids :
          /\ asg' = [asg EXCEPT ![a].status = IF @ = "queued" THEN "failed" ELSE @]
          /\ ReleaseRepoLeases({a})
    BY <1>2 DEF FailOne
  <2>2. a \in Asg /\ asg[a] \in Assignment
    BY <1>t, <2>1 DEF Call
  <2> DEFINE s == IF asg[a].status = "queued" THEN "failed" ELSE asg[a].status
             row == [asg[a] EXCEPT !.status = s]
  <2>3. s \in Status \cup {"none"}
    BY <2>2 DEF Assignment, Status
  <2>4. asg' = [asg EXCEPT ![a] = row]
    BY <2>1
  <2> HIDE DEF s
  <2>5. /\ row \in Assignment /\ row.thread = asg[a].thread /\ row.device = asg[a].device
        /\ row.write = asg[a].write /\ row.status = s
    BY <2>2, <2>3 DEF Assignment
  <2> HIDE DEF row
  <2>6. asg'[a] = row
    BY <1>t, <2>2, <2>4
  <2>7. RowMoves(a) /\ (row.status # "none" => asg[a].status # "none")
    BY <2>5, <2>6 DEF RowMoves, s
  <2> QED
    BY <2>1, <2>2, <2>4, <2>5, <2>7, RowChanges
<1>3. CASE FinishAssignment(c)
  <2> DEFINE a == call[c].a
             s == IF call[c].to = "review" THEN "review" ELSE "failed"
             row == [asg[a] EXCEPT !.status = s]
  <2>1. /\ call[c].op = "finish" /\ asg[a].status = "running"
        /\ asg' = [asg EXCEPT ![a] = row]
        /\ (s = "review" /\ lease' = lease) \/ ReleaseRepoLeases({a})
    BY <1>3 DEF FinishAssignment
  <2>2. c \in Worker \X Asg /\ a = c[2]
    BY <1>t, <2>1 DEF CallFits
  <2>3. PICK w \in Worker : c = <<w, a>> /\ a \in Asg
    BY <2>2
  <2>4. s \in {"review", "failed"} /\ asg[a] \in Assignment
    BY <1>t, <2>3
  <2> HIDE DEF a, s
  <2>5. /\ row \in Assignment /\ row.thread = asg[a].thread /\ row.device = asg[a].device
        /\ row.write = asg[a].write /\ row.status = s
    BY <2>4 DEF Assignment, Status
  <2> HIDE DEF row
  <2>6. asg'[a] = row
    BY <1>t, <2>1, <2>3
  <2>7. \A v \in Worker : Quiet(v, a)
    <3> SUFFICES ASSUME NEW v \in Worker PROVE Quiet(v, a)
      OBVIOUS
    <3>1. FinishEnds(w, a) /\ (Idle(v, a) \/ Idle(w, a) \/ v = w)
      BY <2>3 DEF Reported, OneOwner
    <3>2. call[<<w, a>>].op = "finish"
      BY <2>1, <2>3
    <3>3. Quiet(w, a) /\ ~Idle(w, a)
      BY <3>1, <3>2 DEF FinishEnds, Quiet, Idle
    <3>4. Idle(v, a) => Quiet(v, a)
      BY DEF Idle, Quiet
    <3> QED
      BY <3>1, <3>3, <3>4
  <2>8. RowMoves(a)
    BY <2>1, <2>4, <2>5, <2>6, <2>7 DEF RowMoves
  <2>9. row.status \in Live \/ ReleaseRepoLeases({a})
    BY <2>1, <2>5 DEF Live
  <2> QED
    BY <2>1, <2>3, <2>5, <2>8, <2>9, RowChanges
<1>4. CASE CompleteReview(c)
  <2> DEFINE a == call[c].a
             row == [asg[a] EXCEPT !.status = "completed"]
  <2>1. CASE asg' = asg /\ lease' = lease
    BY <2>1, RowsKept
  <2>2. CASE Settles(a) /\ asg' = [asg EXCEPT ![a] = row] /\ ReleaseRepoLeases({a})
    <3>1. call[c].pc = "complete" /\ change' = change
      BY <1>4 DEF CompleteReview
    <3>2. a \in Asg
      <4>1. call[c].op \in {"finish", "apply", "reject"}
        BY <1>t, <3>1 DEF CallFits
      <4> QED
        BY <1>t, <4>1 DEF CallFits
    <3>3. asg[a] \in Assignment /\ asg[a].status = "review"
      BY <1>t, <2>2, <3>2 DEF Settles
    <3> HIDE DEF a
    <3>4. /\ row \in Assignment /\ row.thread = asg[a].thread /\ row.device = asg[a].device
          /\ row.write = asg[a].write /\ row.status = "completed"
      BY <3>3 DEF Assignment, Status
    <3> HIDE DEF row
    <3>5. asg'[a] = row
      BY <1>t, <2>2, <3>2
    <3>6. RowMoves(a)
      BY <2>2, <3>1, <3>3, <3>4, <3>5 DEF RowMoves
    <3> QED
      BY <2>2, <3>2, <3>3, <3>4, <3>6, RowChanges
  <2> QED
    BY <1>4, <2>1, <2>2 DEF CompleteReview
<1>5. CASE OfflineSelect(c) \/ NotifyExpired(c) \/ ReportValidate(c) \/ InsertChangeSet(c)
           \/ SaveThread(c)
  BY <1>5, RowsKept DEF OfflineSelect, NotifyExpired, ReportValidate, InsertChangeSet,
     SaveThread, hub
<1> QED
  BY <1>1, <1>2, <1>3, <1>4, <1>5 DEF HubStep

(* Creating, cancelling and revoking. *)
LEMMA UserRows ==
  ASSUME TypeOK, RowsNamed, LeasesBacked, CallShape, NEW u \in User,
         UserStep(u) \/ UserCall(u) \/ Snapshot(u)
  PROVE  RowsSound
<1>t. /\ asg \in [Asg -> Assignment] /\ lease \in [Repo -> Asg \cup {None}]
      /\ u \in Caller /\ call[u] \in Call /\ CallFits(u, call[u], change)
  BY DEF TypeOK, CallShape, Caller
<1>1. CASE InsertAssignment(u)
  <2> DEFINE new == call[u].new
  <2>1. CASE asg' = asg /\ lease' = lease
    BY <2>1, RowsKept
  <2>2. ASSUME NEW a \in Asg, asg[a].status = "none", asg' = [asg EXCEPT ![a] = new],
               lease' = [r \in Repo |-> IF r \in Wanted(new) THEN a ELSE lease[r]]
        PROVE  RowsSound
    <3>1. /\ new \in Assignment /\ new.status = "queued" /\ new.thread \in Thread
          /\ new.device \in Device
      BY <1>1, <1>t DEF InsertAssignment, CallFits, Call
    <3> HIDE DEF new
    <3>2. /\ asg' \in [Asg -> Assignment] /\ asg'[a] = new
          /\ \A b \in Asg : b # a => asg'[b] = asg[b]
      BY <1>t, <2>2, <3>1
    <3>3. RowsNamed'
      BY <3>1, <3>2 DEF RowsNamed
    <3>4. \A r \in Repo : lease'[r] = IF r \in Wanted(new) THEN a ELSE lease[r]
      BY <2>2
    <3>5. LeasesBacked'
      <4> SUFFICES ASSUME NEW r \in Repo, lease'[r] # None
                   PROVE  /\ asg'[lease'[r]].status \in Live /\ asg'[lease'[r]].write
                          /\ r \in Repos[asg'[lease'[r]].thread]
        BY DEF LeasesBacked
      <4>1. CASE r \in Wanted(new)
        <5>1. lease'[r] = a /\ asg'[a] = new
          BY <3>2, <3>4, <4>1
        <5>2. new.write /\ r \in Repos[new.thread]
          BY <4>1 DEF Wanted
        <5> QED
          BY <3>1, <5>1, <5>2 DEF Live
      <4>2. CASE r \notin Wanted(new)
        <5>1. lease'[r] = lease[r] /\ lease[r] \in Asg
          BY <1>t, <3>4, <4>2
        <5>2. /\ asg[lease[r]].status \in Live /\ asg[lease[r]].write
              /\ r \in Repos[asg[lease[r]].thread]
          BY <5>1 DEF LeasesBacked
        <5>3. lease[r] # a
          BY <2>2, <5>2 DEF Live
        <5> QED
          BY <3>2, <5>1, <5>2, <5>3
      <4> QED
        BY <4>1, <4>2
    <3>6. ASSUME NEW b \in Asg PROVE RowMoves(b)
      BY <2>2, <3>1, <3>2 DEF RowMoves
    <3>7. lease' \in [Repo -> Asg \cup {None}]
      BY <1>t, <2>2
    <3> QED
      BY <3>2, <3>3, <3>5, <3>6, <3>7 DEF RowsSound
  <2> QED
    BY <1>1, <2>1, <2>2 DEF InsertAssignment
<1>2. CASE CancelAssignment(u)
  <2>1. PICK a \in Asg :
          /\ asg[a].status \in Live \cup {"failed", "lease_expired"}
          /\ asg' = [asg EXCEPT ![a].status = "cancelled", ![a].lapsed = FALSE]
          /\ ReleaseRepoLeases({a})
    BY <1>2 DEF CancelAssignment, CancelRow
  <2> DEFINE row == [asg[a] EXCEPT !.status = "cancelled", !.lapsed = FALSE]
  <2>2. /\ row \in Assignment /\ row.thread = asg[a].thread /\ row.device = asg[a].device
        /\ row.write = asg[a].write /\ row.status = "cancelled"
    BY <1>t DEF Assignment, Status
  <2>3. asg' = [asg EXCEPT ![a] = row]
    BY <2>1
  <2> HIDE DEF row
  <2>4. asg'[a] = row
    BY <1>t, <2>3
  <2>5. RowMoves(a) /\ asg[a].status # "none"
    BY <2>1, <2>2, <2>4 DEF RowMoves, Live
  <2> QED
    BY <2>1, <2>2, <2>3, <2>5, RowChanges
<1>3. CASE RevokeDevice(u)
  <2>1. PICK d \in Device :
          /\ asg' = [a \in Asg |-> IF a \in Revoked(d)
                       THEN [asg[a] EXCEPT !.status = "cancelled", !.lapsed = FALSE]
                       ELSE asg[a]]
          /\ RevokeLeases(d)
    BY <1>3 DEF RevokeDevice
  <2>2. ASSUME NEW a \in Asg
        PROVE  /\ asg'[a] \in Assignment
               /\ a \notin Revoked(d) => asg'[a] = asg[a]
               /\ asg'[a].thread = asg[a].thread /\ asg'[a].device = asg[a].device
               /\ RowMoves(a)
               /\ a \in Revoked(d) => asg[a].status \in {"queued", "running"}
    <3>1. asg[a] \in Assignment
      BY <1>t
    <3>2. CASE a \in Revoked(d)
      <4> DEFINE row == [asg[a] EXCEPT !.status = "cancelled", !.lapsed = FALSE]
      <4>1. /\ row \in Assignment /\ row.thread = asg[a].thread /\ row.device = asg[a].device
            /\ row.status = "cancelled"
        BY <3>1 DEF Assignment, Status
      <4>2. asg'[a] = row
        BY <2>1, <3>2
      <4> HIDE DEF row
      <4>3. asg[a].status \in {"queued", "running"}
        BY <3>2 DEF Revoked
      <4> QED
        BY <3>2, <4>1, <4>2, <4>3 DEF RowMoves, Live
    <3>3. CASE a \notin Revoked(d)
      <4>1. asg'[a] = asg[a]
        BY <2>1, <3>3
      <4> QED
        BY <3>1, <3>3, <4>1 DEF RowMoves
    <3> QED
      BY <3>2, <3>3
  <2>3. asg' \in [Asg -> Assignment]
    <3>1. asg' = [a \in Asg |-> asg'[a]]
      BY <2>1
    <3> QED
      BY <2>2, <3>1
  <2>4. RowsNamed'
    BY <2>2 DEF RowsNamed
  <2>5. /\ lease' \in [Repo -> Asg \cup {None}]
        /\ \A r \in Repo : lease'[r] # None => lease'[r] = lease[r] /\ lease[r] \notin Revoked(d)
    BY <1>t, <2>1 DEF RevokeLeases, ReleaseRepoLeases
  <2>6. LeasesBacked'
    <3> SUFFICES ASSUME NEW r \in Repo, lease'[r] # None
                 PROVE  /\ asg'[lease'[r]].status \in Live /\ asg'[lease'[r]].write
                        /\ r \in Repos[asg'[lease'[r]].thread]
      BY DEF LeasesBacked
    <3>1. lease'[r] = lease[r] /\ lease[r] \in Asg /\ lease[r] \notin Revoked(d)
      BY <1>t, <2>5
    <3>2. asg'[lease[r]] = asg[lease[r]]
      BY <2>2, <3>1
    <3> QED
      BY <3>1, <3>2 DEF LeasesBacked
  <2> QED
    BY <2>2, <2>3, <2>4, <2>5, <2>6 DEF RowsSound
<1>4. CASE SnapshotRead(u) \/ CreateCheck(u) \/ ApplyConflict(u) \/ UpdateChangeStatus(u)
           \/ Create(u) \/ Retry(u) \/ Decide(u) \/ QueueInstruction(u) \/ Snapshot(u)
  <2>1. asg' = asg /\ lease' = lease
    BY <1>4 DEF SnapshotRead, CreateCheck, ApplyConflict, UpdateChangeStatus, Create, Retry,
       Decide, QueueInstruction, Snapshot, hub
  <2> QED
    BY <2>1, RowsKept
<1> QED
  BY <1>1, <1>2, <1>3, <1>4 DEF UserStep, UserCall

(* A claim. *)
LEMMA ClaimRow ==
  ASSUME TypeOK, RowsNamed, LeasesBacked, NEW a \in Asg, asg[a].status = "queued",
         asg' = [asg EXCEPT ![a].status = "running", ![a].lapsed = FALSE], lease' = lease
  PROVE  RowsSound /\ asg'[a].status = "running" /\ \A b \in Asg : b # a => asg'[b] = asg[b]
<1>t. asg \in [Asg -> Assignment]
  BY DEF TypeOK
<1> DEFINE row == [asg[a] EXCEPT !.status = "running", !.lapsed = FALSE]
<1>1. /\ row \in Assignment /\ row.thread = asg[a].thread /\ row.device = asg[a].device
      /\ row.write = asg[a].write /\ row.status = "running"
  BY <1>t DEF Assignment, Status
<1>2. asg' = [asg EXCEPT ![a] = row]
  OBVIOUS
<1> HIDE DEF row
<1>3. asg'[a] = row /\ \A b \in Asg : b # a => asg'[b] = asg[b]
  BY <1>t, <1>2
<1>4. RowMoves(a) /\ row.status \in Live
  BY <1>1, <1>3 DEF RowMoves, Live
<1>5. RowsSound
  BY <1>1, <1>2, <1>4, RowChanges
<1> QED
  BY <1>1, <1>3, <1>5

LEMMA LapseRow ==
  ASSUME TypeOK, RowsNamed, LeasesBacked, NEW a \in Asg, Lapse(a)
  PROVE  RowsSound
<1>t. asg \in [Asg -> Assignment]
  BY DEF TypeOK
<1> DEFINE row == [asg[a] EXCEPT !.lapsed = TRUE]
<1>1. /\ row \in Assignment /\ row.thread = asg[a].thread /\ row.device = asg[a].device
      /\ row.write = asg[a].write /\ row.status = asg[a].status
  BY <1>t DEF Assignment
<1>2. asg' = [asg EXCEPT ![a] = row] /\ lease' = lease
  BY DEF Lapse
<1> HIDE DEF row
<1>3. asg'[a] = row
  BY <1>t, <1>2
<1>4. RowMoves(a)
  BY <1>1, <1>3 DEF RowMoves
<1> QED
  BY <1>1, <1>2, <1>4, RowChanges
(* The claim, successful or not. *)
LEMMA ClaimSteps ==
  ASSUME TypeOK, RowsNamed, LeasesBacked, CallShape, RunShape, Unclaimed, Reported, Delivered,
         ChangesStay, NEW w \in Worker, NEW a \in Asg, ClaimAssignment(w, a)
  PROVE  CallsSound /\ PairsFit /\ RowsSound
<1> DEFINE x == <<w, a>>
           old == run[x]
           fin == sync[<<w, a, "final">>]
<1>k. /\ old \in ActiveRemoteRun /\ run \in [Worker \X Asg -> ActiveRemoteRun]
      /\ sync \in [Triple -> SyncTask]
      /\ \A k \in Who : TaskFits(sync[<<w, a, k>>], handed)
      /\ RunFits(old, fin) /\ FinishEnds(w, a) /\ old.delivered \subseteq handed
      /\ x \in Worker \X Asg /\ x \in Caller /\ call \in [Caller -> Call]
      /\ call[x] \in Call /\ CallFits(x, call[x], change)
  BY PairKnown
<1>1. /\ call[x].op = "claim" /\ sync' = sync /\ handed' = handed /\ rival' = rival
      /\ lease' = lease
  BY DEF ClaimAssignment, ghosts
<1>2. ASSUME NEW p \in {"none", "preparing"},
             run' = [run EXCEPT ![x].phase = IF old.phase = "claiming" THEN p ELSE @],
             NEW v \in Call, call' = [call EXCEPT ![x] = v], v.op \in {"none", "claim"},
             p = "preparing" => Takes(w, a)
      PROVE  PairsFit
  <2> DEFINE q == IF old.phase = "claiming" THEN p ELSE old.phase
             r == [old EXCEPT !.phase = q]
  <2>1. q \in Phase
    BY <1>k DEF ActiveRemoteRun, Phase
  <2>2. run' = [run EXCEPT ![x] = r]
    BY <1>2
  <2> HIDE DEF q
  <2>3. /\ r \in ActiveRemoteRun /\ r.phase = q /\ r.kept = old.kept /\ r.local = old.local
        /\ r.delivered = old.delivered /\ r.status = old.status
    BY <1>k, <2>1 DEF ActiveRemoteRun
  <2> HIDE DEF r
  <2>4. run'[x] = r /\ call'[x] = v
    BY <1>2, <1>k, <2>2
  <2>5. RunFits(r, fin)
    BY <1>k, <2>3 DEF RunFits, q
  <2>6. FinishEnds(w, a)'
    BY <1>2, <2>4 DEF FinishEnds
  <2>7. Idle(w, a) => Idle(w, a)' \/ Takes(w, a)
    BY <1>1, <1>2, <2>3, <2>4 DEF Idle, q
  <2>8. Quiet(w, a) => Quiet(w, a)' \/ Takes(w, a)
    BY <1>2, <2>3, <2>4 DEF Quiet, q
  <2>9. PairFits(w, a)
    BY <1>k, <1>1, <2>3, <2>4, <2>5, <2>6, <2>7, <2>8 DEF PairFits
  <2>10. ASSUME NEW u \in Worker, NEW b \in Asg, <<u, b>> # <<w, a>>
        PROVE  /\ call'[<<u, b>>] = call[<<u, b>>]
               /\ \A k \in Who : sync'[<<u, b, k>>] = sync[<<u, b, k>>]
    BY <1>k, <1>1, <1>2, <2>10 DEF Caller
  <2> QED
    BY <1>k, <1>1, <2>2, <2>3, <2>9, <2>10, PairSound
<1>3. CASE /\ Return(x) /\ asg' = asg
           /\ run' = [run EXCEPT ![x].phase = IF old.phase = "claiming" THEN "none" ELSE @]
  <2>1. NoCall \in Call /\ NoCall.op = "none" /\ call' = [call EXCEPT ![x] = NoCall]
    BY <1>3, NoCallTyped DEF Return
  <2>2. PairsFit
    BY <1>2, <1>3, <2>1
  <2>3. CallsSound /\ RowsSound
    BY <1>k, <1>1, <1>3, CallReturns, RowsKept
  <2> QED
    BY <2>2, <2>3
<1>4. CASE /\ ClaimGuard(a, DeviceOf[w])
           /\ asg' = [asg EXCEPT ![a].status = "running", ![a].lapsed = FALSE]
           /\ call' = [call EXCEPT ![x].pc = "save", ![x].to = "running"]
           /\ run' = [run EXCEPT ![x].phase = IF old.phase = "claiming" THEN "preparing" ELSE @]
  <2>1. asg[a].status = "queued"
    BY <1>4 DEF ClaimGuard
  <2>2. RowsSound /\ asg'[a].status = "running"
    BY <1>1, <1>4, <2>1, ClaimRow
  <2> DEFINE v == [call[x] EXCEPT !.pc = "save", !.to = "running"]
  <2>3. v \in Call
    BY <1>k, CallAdvances DEF CallPc, ThreadStatus
  <2>4. v.op = "claim" /\ v.pc = "save"
    BY <1>k, <1>1 DEF Call
  <2>5. call' = [call EXCEPT ![x] = v]
    BY <1>4
  <2> HIDE DEF v
  <2>6. CallFits(x, v, change')
    BY <2>4 DEF CallFits
  <2>7. CallsSound
    BY <1>k, <2>3, <2>5, <2>6, OneCall
  <2>8. a \notin rival'
    BY <1>1, <2>1 DEF Unclaimed
  <2>9. ASSUME NEW u \in Worker, u # w, Idle(u, a) PROVE Idle(u, a)'
    <3>1. <<u, a>> # x /\ <<u, a>> \in Worker \X Asg /\ <<u, a>> \in Caller
      BY <2>9 DEF Caller
    <3>2. run'[<<u, a>>] = run[<<u, a>>] /\ call'[<<u, a>>] = call[<<u, a>>]
      BY <1>k, <1>4, <2>5, <3>1
    <3> QED
      BY <1>1, <2>9, <3>2 DEF Idle
  <2>10. Takes(w, a)
    BY <2>1, <2>2, <2>8, <2>9 DEF Takes
  <2>11. PairsFit
    BY <1>2, <1>4, <2>3, <2>4, <2>5, <2>10
  <2> QED
    BY <2>2, <2>7, <2>11
<1> QED
  BY <1>3, <1>4 DEF ClaimAssignment

(* Who may have claimed what, after a step. *)
RivalStep ==
  /\ rival' \subseteq Asg
  /\ \A a \in rival' :
       a \in rival \/ (asg[a].status = "queued" /\ asg'[a].status = "running")

LEMMA RunsHold ==
  ASSUME PairsFit, RowsSound, RivalStep, Unclaimed, OneOwner, Reported
  PROVE  RunShape' /\ Unclaimed' /\ OneOwner' /\ Reported' /\ Delivered'
<1>1. RunShape' /\ Delivered' /\ \A w \in Worker, a \in Asg : FinishEnds(w, a)'
  BY DEF PairsFit, PairFits, RunShape, Delivered
<1>2. \A w \in Worker, a \in Asg : /\ Idle(w, a) => Idle(w, a)' \/ Takes(w, a)
                                   /\ Quiet(w, a) => Quiet(w, a)' \/ Takes(w, a)
  BY DEF PairsFit, PairFits
<1>3. OneOwner'
  <2> SUFFICES ASSUME NEW a \in Asg, NEW v \in Worker, NEW w \in Worker, v # w,
                      Idle(v, a), ~Idle(v, a)'
               PROVE  Idle(w, a)'
    BY <1>2 DEF OneOwner, Takes, Unclaimed
  <2>1. Takes(v, a)
    BY <1>2
  <2> QED
    BY <2>1 DEF Takes, Unclaimed
<1>4. \A a \in Asg : asg'[a].status \in {"none", "queued"} => asg[a].status \in {"none", "queued"}
  BY DEF RowsSound, RowMoves
<1>5. \A a \in rival' : asg'[a].status \notin {"none", "queued"}
  BY <1>4 DEF RivalStep, Unclaimed
<1>6. Unclaimed'
  <2>1. ASSUME NEW a \in Asg, asg'[a].status \in {"none", "queued"} \/ a \in rival',
               NEW w \in Worker
        PROVE  Idle(w, a)'
    <3>1. Idle(w, a)
      BY <1>4, <2>1 DEF Unclaimed, RivalStep
    <3>2. ~Takes(w, a)
      BY <2>1 DEF Takes
    <3> QED
      BY <1>2, <3>1, <3>2
  <2> QED
    BY <1>5, <2>1 DEF Unclaimed
<1>7. Reported'
  <2>1. ASSUME NEW w \in Worker, NEW a \in Asg, asg'[a].status \in {"review", "completed"}
        PROVE  Quiet(w, a)'
    <3>1. Quiet(w, a)
      BY <2>1 DEF RowsSound, RowMoves, Reported
    <3>2. ~Takes(w, a)
      BY <2>1 DEF Takes
    <3> QED
      BY <1>2, <3>1, <3>2
  <2> QED
    BY <1>1, <2>1 DEF Reported
<1> QED
  BY <1>1, <1>3, <1>6, <1>7

(***************************************************************************)
(* What is left: devices, threads, polls, follow-ups and bounds.           *)
(***************************************************************************)
LEMMA BoundSteps ==
  ASSUME TypeOK, [Next]_vars
  PROVE  calls' \in 0..MaxCalls /\ faults' \in 0..MaxFaults
<1>t. /\ calls \in 0..MaxCalls /\ faults \in 0..MaxFaults
      /\ MaxCalls \in Nat /\ MaxFaults \in Nat
  BY CollaborationAssumption DEF TypeOK
<1>1. calls' = calls \/ (calls < MaxCalls /\ calls' = calls + 1)
  <2>1. ASSUME NEW c \in Caller, HubStep(c) PROVE calls' = calls
    BY <2>1 DEF HubStep, ExpireOne, OfflineSelect, FailOne, NotifyExpired, ReportValidate,
       InsertChangeSet, FinishAssignment, CompleteReview, SaveThread, bounds
  <2>2. ASSUME NEW u \in User, UserStep(u) \/ UserCall(u) \/ Snapshot(u)
        PROVE  calls' = calls \/ (calls < MaxCalls /\ calls' = calls + 1)
    BY <2>2 DEF UserStep, UserCall, SnapshotRead, CreateCheck, InsertAssignment, ApplyConflict,
       UpdateChangeStatus, Create, Retry, CancelAssignment, RevokeDevice, Decide,
       QueueInstruction, Snapshot, Bounded, bounds
  <2>3. ASSUME NEW d \in Device, Heartbeat(d) \/ HeartbeatDevice(d) \/ RegisterDevice(d)
                                 \/ GoOffline(d) \/ OtherWindowClaims(d)
        PROVE  calls' = calls
    BY <2>3 DEF Heartbeat, HeartbeatDevice, RegisterDevice, GoOffline, OtherWindowClaims, bounds
  <2>4. ASSUME NEW w \in Worker, PollStep(w) \/ Dispose(w) PROVE calls' = calls
    BY <2>4 DEF PollStep, Poll, PollList, PollHandle, PollSync, PollDone, Dispose, bounds
  <2>5. ASSUME NEW w \in Worker, NEW a \in Asg, RunStep(w, a) \/ LocalStep(w, a)
        PROVE  calls' = calls
    BY <2>5 DEF RunStep, LocalStep, ClaimAssignment, PrepareMirror, StartLocal, FailedStart,
       FinalRetry, SyncPollDone, FinalDone, Publish, PublishRefused, FinishRefused, Close,
       RenewFails, RenewLease, LocalEnds, LocalContinues, LocalUpdated, bounds
  <2>6. ASSUME NEW x \in DOMAIN sync, SyncStep(x) PROVE calls' = calls
    BY <2>6 DEF SyncStep, SyncList, SyncTake, SyncSend, DeleteQueued, SyncFailed, bounds
  <2>7. (\E a \in Asg : Lapse(a)) \/ UNCHANGED vars => calls' = calls
    BY DEF Lapse, vars
  <2> QED
    BY <2>1, <2>2, <2>3, <2>4, <2>5, <2>6, <2>7 DEF Next
<1>2. faults' = faults \/ (faults < MaxFaults /\ faults' = faults + 1)
  <2>1. ASSUME NEW c \in Caller, HubStep(c) PROVE faults' = faults
    BY <2>1 DEF HubStep, ExpireOne, OfflineSelect, FailOne, NotifyExpired, ReportValidate,
       InsertChangeSet, FinishAssignment, CompleteReview, SaveThread, bounds
  <2>2. ASSUME NEW u \in User, UserStep(u) \/ UserCall(u) \/ Snapshot(u)
        PROVE  faults' = faults
    BY <2>2 DEF UserStep, UserCall, SnapshotRead, CreateCheck, InsertAssignment, ApplyConflict,
       UpdateChangeStatus, Create, Retry, CancelAssignment, RevokeDevice, Decide,
       QueueInstruction, Snapshot, bounds
  <2>3. ASSUME NEW d \in Device, Heartbeat(d) \/ HeartbeatDevice(d) \/ RegisterDevice(d)
                                 \/ GoOffline(d) \/ OtherWindowClaims(d)
        PROVE  faults' = faults \/ (faults < MaxFaults /\ faults' = faults + 1)
    BY <2>3 DEF Heartbeat, HeartbeatDevice, RegisterDevice, GoOffline, OtherWindowClaims,
       Fault, bounds
  <2>4. ASSUME NEW w \in Worker, PollStep(w) \/ Dispose(w)
        PROVE  faults' = faults \/ (faults < MaxFaults /\ faults' = faults + 1)
    BY <2>4 DEF PollStep, Poll, PollList, PollHandle, PollSync, PollDone, Dispose, Fault, bounds
  <2>5. ASSUME NEW w \in Worker, NEW a \in Asg, RunStep(w, a) \/ LocalStep(w, a)
        PROVE  faults' = faults \/ (faults < MaxFaults /\ faults' = faults + 1)
    BY <2>5 DEF RunStep, LocalStep, ClaimAssignment, PrepareMirror, StartLocal, FailedStart,
       FinalRetry, SyncPollDone, FinalDone, Publish, PublishRefused, FinishRefused, Close,
       RenewFails, RenewLease, LocalEnds, LocalContinues, LocalUpdated, Fault, bounds
  <2>6. ASSUME NEW x \in DOMAIN sync, SyncStep(x) PROVE faults' = faults
    BY <2>6 DEF SyncStep, SyncList, SyncTake, SyncSend, DeleteQueued, SyncFailed, bounds
  <2>7. ASSUME NEW a \in Asg, Lapse(a)
        PROVE  faults' = faults \/ (faults < MaxFaults /\ faults' = faults + 1)
    BY <2>7 DEF Lapse, Fault
  <2>8. UNCHANGED vars => faults' = faults
    BY DEF vars
  <2> QED
    BY <2>1, <2>2, <2>3, <2>4, <2>5, <2>6, <2>7, <2>8 DEF Next
<1> QED
  BY <1>t, <1>1, <1>2

(* Devices, threads and polls keep their types. *)
PlacesSound ==
  /\ device' \in [Device -> DeviceRow] /\ thread' \in [Thread -> ThreadStatus]
  /\ poll' \in [Worker -> [pc : {"idle", "listing", "handle", "claiming", "syncing"},
                           seen : SUBSET Asg, queued : SUBSET Asg]]

LEMMA PlaceSteps ==
  ASSUME TypeOK, [Next]_vars
  PROVE  PlacesSound
<1> DEFINE Pass == [pc : {"idle", "listing", "handle", "claiming", "syncing"},
                    seen : SUBSET Asg, queued : SUBSET Asg]
<1>t. /\ device \in [Device -> DeviceRow] /\ thread \in [Thread -> ThreadStatus]
      /\ poll \in [Worker -> Pass] /\ call \in [Caller -> Call]
  BY DEF TypeOK
<1>0. UNCHANGED <<device, thread, poll>> => PlacesSound
  BY <1>t DEF PlacesSound
<1>p. NotPolling \in Pass /\ \A w \in Worker : Listed(w) \in Pass
  BY DEF NotPolling, Listed
<1>1. ASSUME NEW c \in Caller, HubStep(c) PROVE PlacesSound
  <2>1. CASE NotifyExpired(c)
    <3>1. thread' \in [Thread -> ThreadStatus] /\ UNCHANGED <<device, poll>>
      BY <1>t, <2>1 DEF NotifyExpired, ThreadStatus, worker
    <3> QED
      BY <1>t, <3>1 DEF PlacesSound
  <2>2. CASE SaveThread(c)
    <3>1. call[c].to \in ThreadStatus
      BY <1>t DEF Call
    <3>2. thread' \in [Thread -> ThreadStatus] /\ UNCHANGED <<device, poll>>
      BY <1>t, <2>2, <3>1 DEF SaveThread, worker
    <3> QED
      BY <1>t, <3>2 DEF PlacesSound
  <2>3. CASE ~NotifyExpired(c) /\ ~SaveThread(c)
    <3>1. UNCHANGED <<device, thread, poll>>
      BY <1>1, <2>3 DEF HubStep, ExpireOne, OfflineSelect, FailOne, ReportValidate,
         InsertChangeSet, FinishAssignment, CompleteReview, hub, worker
    <3> QED
      BY <1>0, <3>1
  <2> QED
    BY <2>1, <2>2, <2>3
<1>2. ASSUME NEW u \in User, UserStep(u) \/ UserCall(u) \/ Snapshot(u) PROVE PlacesSound
  <2>1. CASE RevokeDevice(u)
    <3>1. PICK d \in Device : device' = [device EXCEPT ![d].revoked = TRUE]
      BY <2>1 DEF RevokeDevice
    <3>2. device' \in [Device -> DeviceRow]
      BY <1>t, <3>1 DEF DeviceRow
    <3>3. UNCHANGED <<thread, poll>>
      BY <2>1 DEF RevokeDevice, worker
    <3> QED
      BY <1>t, <3>2, <3>3 DEF PlacesSound
  <2>2. CASE ~RevokeDevice(u)
    <3>1. UNCHANGED <<device, thread, poll>>
      BY <1>2, <2>2 DEF UserStep, UserCall, SnapshotRead, CreateCheck, InsertAssignment,
         ApplyConflict, UpdateChangeStatus, Create, Retry, CancelAssignment, Decide,
         QueueInstruction, Snapshot, hub, worker
    <3> QED
      BY <1>0, <3>1
  <2> QED
    BY <2>1, <2>2
<1>3. ASSUME NEW d \in Device, Heartbeat(d) \/ HeartbeatDevice(d) \/ RegisterDevice(d)
                               \/ GoOffline(d) \/ OtherWindowClaims(d)
      PROVE  PlacesSound
  <2>1. UNCHANGED <<thread, poll>>
    BY <1>3 DEF Heartbeat, HeartbeatDevice, RegisterDevice, GoOffline, OtherWindowClaims,
       hub, worker
  <2>2. device' \in [Device -> DeviceRow]
    <3>1. \/ device' = device \/ device' = [device EXCEPT ![d].online = TRUE]
          \/ device' = [device EXCEPT ![d].online = FALSE] \/ device' = [device EXCEPT ![d] = Paired]
      BY <1>3 DEF Heartbeat, HeartbeatDevice, RegisterDevice, GoOffline, OtherWindowClaims, hub
    <3>2. Paired \in DeviceRow
      BY DEF DeviceRow, Paired
    <3>3. \A o \in BOOLEAN : [device[d] EXCEPT !.online = o] \in DeviceRow
      BY <1>t DEF DeviceRow
    <3>4. \A o \in BOOLEAN : [device EXCEPT ![d].online = o] \in [Device -> DeviceRow]
      BY <1>t, <3>3
    <3> QED
      BY <1>t, <3>1, <3>2, <3>4
  <2> QED
    BY <1>t, <2>1, <2>2 DEF PlacesSound
<1>4. ASSUME NEW w \in Worker, PollStep(w) \/ Dispose(w) PROVE PlacesSound
  <2>1. thread' = thread
    BY <1>4 DEF PollStep, Poll, PollList, PollHandle, PollSync, PollDone, Dispose, hub
  <2>2. device' \in [Device -> DeviceRow]
    <3>1. CASE Dispose(w)
      <4>1. PICK late \in BOOLEAN :
              device' = [device EXCEPT ![DeviceOf[w]].online = @ /\ ~late]
        BY <3>1 DEF Dispose
      <4> DEFINE o == device[DeviceOf[w]].online /\ ~late
      <4>2. o \in BOOLEAN /\ device' = [device EXCEPT ![DeviceOf[w]].online = o]
        BY <4>1
      <4>3. DeviceOf[w] \in Device
        BY CollaborationAssumption
      <4> HIDE DEF o
      <4> QED
        BY <1>t, <4>2, <4>3 DEF DeviceRow
    <3>2. CASE PollStep(w)
      BY <1>t, <3>2 DEF PollStep, Poll, PollList, PollHandle, PollSync, PollDone, hub
    <3> QED
      BY <1>4, <3>1, <3>2
  <2>3. poll' \in [Worker -> Pass]
    <3>1. PICK p \in {"listing", "syncing"} :
            \/ poll' = poll
            \/ poll' = [poll EXCEPT ![w] = Listed(w)]
            \/ poll' = [poll EXCEPT ![w].pc = p]
            \/ poll' = [poll EXCEPT ![w] = [NotPolling EXCEPT !.pc = "claiming"]]
            \/ poll' = [poll EXCEPT ![w] = NotPolling]
      BY <1>4 DEF PollStep, Poll, PollList, PollHandle, PollSync, PollDone, Dispose
    <3>2. [NotPolling EXCEPT !.pc = "claiming"] \in Pass /\ [poll[w] EXCEPT !.pc = p] \in Pass
      BY <1>t, <1>p
    <3>3. poll' = [poll EXCEPT ![w].pc = p] => poll' = [poll EXCEPT ![w] = [poll[w] EXCEPT !.pc = p]]
      OBVIOUS
    <3> HIDE DEF Pass
    <3> QED
      BY <1>t, <1>p, <3>1, <3>2, <3>3
  <2> QED
    BY <1>t, <2>1, <2>2, <2>3 DEF PlacesSound
<1>5. ASSUME NEW w \in Worker, NEW a \in Asg, RunStep(w, a) \/ LocalStep(w, a)
      PROVE  UNCHANGED <<device, thread, poll>>
  BY <1>5 DEF RunStep, LocalStep, ClaimAssignment, PrepareMirror, StartLocal, FailedStart,
     FinalRetry, SyncPollDone, FinalDone, Publish, PublishRefused, FinishRefused, Close,
     RenewFails, RenewLease, LocalEnds, LocalContinues, LocalUpdated, hub, worker
<1>6. ASSUME NEW x \in DOMAIN sync, SyncStep(x) PROVE UNCHANGED <<device, thread, poll>>
  BY <1>6 DEF SyncStep, SyncList, SyncTake, SyncSend, DeleteQueued, SyncFailed, hub
<1>7. (\E a \in Asg : Lapse(a)) \/ UNCHANGED vars => UNCHANGED <<device, thread, poll>>
  BY DEF Lapse, worker, vars
<1> QED
  BY <1>0, <1>1, <1>2, <1>3, <1>4, <1>5, <1>6, <1>7 DEF Next

(* Follow-ups: nothing leaves the queue that no mirror has. *)
FollowUpsSound ==
  /\ queue' \in [Thread -> SUBSET Instr] /\ sent' \subseteq Instr /\ handed' \subseteq Instr
  /\ HandedOver'

LEMMA FollowUpSteps ==
  ASSUME TypeOK, Delivered, HandedOver, [Next]_vars
  PROVE  FollowUpsSound
<1>t. /\ queue \in [Thread -> SUBSET Instr] /\ sent \subseteq Instr /\ handed \subseteq Instr
      /\ sync \in [Triple -> SyncTask]
  BY DEF TypeOK, Triple
<1>0. UNCHANGED <<queue, sent, handed>> => FollowUpsSound
  BY <1>t DEF FollowUpsSound, HandedOver
<1>1. ASSUME NEW c \in Caller, HubStep(c) PROVE UNCHANGED <<queue, sent, handed>>
  BY <1>1 DEF HubStep, ExpireOne, OfflineSelect, FailOne, NotifyExpired, ReportValidate,
     InsertChangeSet, FinishAssignment, CompleteReview, SaveThread, ghosts
<1>2. ASSUME NEW u \in User, UserStep(u) \/ UserCall(u) \/ Snapshot(u) PROVE FollowUpsSound
  <2>1. CASE QueueInstruction(u)
    <3>1. PICK t \in Thread, i \in Instr :
            sent' = sent \cup {i} /\ queue' = [queue EXCEPT ![t] = @ \cup {i}]
      BY <2>1 DEF QueueInstruction
    <3>2. handed' = handed
      BY <2>1 DEF QueueInstruction
    <3>3. queue' \in [Thread -> SUBSET Instr] /\ sent' \subseteq Instr
      BY <1>t, <3>1
    <3>4. \A s \in Thread : queue[s] \subseteq queue'[s]
      BY <1>t, <3>1
    <3>5. i \in queue'[t]
      BY <1>t, <3>1
    <3>6. HandedOver'
      BY <3>1, <3>2, <3>4, <3>5 DEF HandedOver
    <3> QED
      BY <1>t, <3>2, <3>3, <3>6 DEF FollowUpsSound
  <2>2. CASE ~QueueInstruction(u)
    <3>1. UNCHANGED <<queue, sent, handed>>
      BY <1>2, <2>2 DEF UserStep, UserCall, SnapshotRead, CreateCheck, InsertAssignment,
         ApplyConflict, UpdateChangeStatus, Create, Retry, CancelAssignment, RevokeDevice, Decide,
         Snapshot, ghosts
    <3> QED
      BY <1>0, <3>1
  <2> QED
    BY <2>1, <2>2
<1>3. ASSUME NEW d \in Device, Heartbeat(d) \/ HeartbeatDevice(d) \/ RegisterDevice(d)
                               \/ GoOffline(d) \/ OtherWindowClaims(d)
      PROVE  UNCHANGED <<queue, sent, handed>>
  BY <1>3 DEF Heartbeat, HeartbeatDevice, RegisterDevice, GoOffline, OtherWindowClaims, ghosts
<1>4. ASSUME NEW w \in Worker, PollStep(w) \/ Dispose(w) PROVE UNCHANGED <<queue, sent, handed>>
  BY <1>4 DEF PollStep, Poll, PollList, PollHandle, PollSync, PollDone, Dispose, ghosts
<1>5. ASSUME NEW w \in Worker, NEW a \in Asg, RunStep(w, a) \/ LocalStep(w, a)
      PROVE  UNCHANGED <<queue, sent, handed>>
  BY <1>5 DEF RunStep, LocalStep, ClaimAssignment, PrepareMirror, StartLocal, FailedStart,
     FinalRetry, SyncPollDone, FinalDone, Publish, PublishRefused, FinishRefused, Close,
     RenewFails, RenewLease, LocalEnds, LocalContinues, LocalUpdated, ghosts
<1>6. ASSUME NEW x \in DOMAIN sync, SyncStep(x) PROVE FollowUpsSound
  <2>0. PICK w \in Worker, a \in Asg, k \in Who : x = <<w, a, k>>
    BY <1>t DEF Triple
  <2>1. TaskFits(sync[x], handed)
    BY <2>0 DEF Delivered
  <2>2. CASE SyncSend(x)
    <3>1. sync[x].i \in Instr /\ handed' = handed \cup {sync[x].i} /\ UNCHANGED <<queue, sent>>
      BY <2>1, <2>2 DEF SyncSend, TaskFits
    <3> QED
      BY <1>t, <3>1 DEF FollowUpsSound, HandedOver
  <2>3. CASE DeleteQueued(x)
    <3>1. /\ sync[x].i \in handed /\ UNCHANGED <<sent, handed>>
          /\ queue' = [t \in Thread |-> queue[t] \ {sync[x].i}]
      BY <2>1, <2>3 DEF DeleteQueued, TaskFits, ghosts
    <3>2. queue' \in [Thread -> SUBSET Instr]
      BY <1>t, <3>1
    <3>3. \A t \in Thread : \A i \in queue[t] : i \in queue'[t] \/ i \in handed
      BY <3>1
    <3>4. HandedOver'
      BY <3>1, <3>3 DEF HandedOver
    <3> QED
      BY <1>t, <3>1, <3>2, <3>4 DEF FollowUpsSound
  <2>4. CASE SyncList(x) \/ SyncTake(x) \/ SyncFailed(x)
    <3>1. UNCHANGED <<queue, sent, handed>>
      BY <2>4 DEF SyncList, SyncTake, SyncFailed, ghosts
    <3> QED
      BY <1>0, <3>1
  <2> QED
    BY <1>6, <2>2, <2>3, <2>4 DEF SyncStep
<1>7. (\E a \in Asg : Lapse(a)) \/ UNCHANGED vars => UNCHANGED <<queue, sent, handed>>
  BY DEF Lapse, ghosts, vars
<1> QED
  BY <1>0, <1>1, <1>2, <1>3, <1>4, <1>5, <1>6, <1>7 DEF Next
(***************************************************************************)
(* The theorems.                                                           *)
(***************************************************************************)
IInv ==
  /\ TypeOK /\ LeasesBacked /\ RowsNamed /\ CallShape /\ RunShape /\ Unclaimed
  /\ OneOwner /\ Reported /\ Settled /\ Delivered /\ DecidedBeforeDone /\ HandedOver

(* Only the workers' reports make change sets appear. *)
LEMMA ReportsOnly ==
  ASSUME TypeOK, CallShape, [Next]_vars, NEW a \in Asg, NEW r \in Repo,
         change[a][r] = "none", change'[a][r] # "none"
  PROVE  \E w \in Worker : call[<<w, a>>].op = "report"
<1>t. change \in ChangeSet /\ \A c \in Caller : CallFits(c, call[c], change)
  BY DEF TypeOK, CallShape
<1>1. ASSUME NEW c \in Caller, HubStep(c) PROVE InsertChangeSet(c) \/ change' = change
  BY <1>1 DEF HubStep, ExpireOne, OfflineSelect, FailOne, NotifyExpired, ReportValidate,
     FinishAssignment, CompleteReview, SaveThread, hub
<1>2. ASSUME NEW c \in Caller, InsertChangeSet(c)
      PROVE  \E w \in Worker : call[<<w, a>>].op = "report"
  <2>1. call[c].op = "report" /\ change' = [change EXCEPT ![call[c].a][call[c].r] = "pending"]
    BY <1>2 DEF InsertChangeSet
  <2>2. call[c].a = a
    BY <1>t, <2>1 DEF ChangeSet
  <2>3. c \in Worker \X Asg /\ c[2] = a
    BY <1>t, <2>1, <2>2 DEF CallFits
  <2>4. PICK w \in Worker : c = <<w, a>>
    BY <2>3
  <2> QED
    BY <2>1, <2>4
<1>3. ASSUME NEW u \in User, UserStep(u) \/ UserCall(u) \/ Snapshot(u) PROVE FALSE
  <2>1. CASE ApplyConflict(u) \/ UpdateChangeStatus(u)
    <3>1. PICK s : /\ change' = [change EXCEPT ![call[u].a][call[u].r] = s]
                   /\ call[u].op \in {"apply", "reject"}
      BY <2>1 DEF ApplyConflict, UpdateChangeStatus, SetChangeStatus
    <3>2. call[u].a \in Asg /\ call[u].r \in Repo /\ change[call[u].a][call[u].r] # "none"
      BY <1>t, <3>1 DEF CallFits, Caller
    <3> QED
      BY <1>t, <3>1, <3>2 DEF ChangeSet
  <2>2. CASE ~(ApplyConflict(u) \/ UpdateChangeStatus(u))
    <3>1. change' = change
      BY <1>3, <2>2 DEF UserStep, UserCall, SnapshotRead, CreateCheck, InsertAssignment, Create,
         Retry, CancelAssignment, RevokeDevice, Decide, QueueInstruction, Snapshot, hub
    <3> QED
      BY <3>1
  <2> QED
    BY <2>1, <2>2
<1>4. ASSUME NEW d \in Device, Heartbeat(d) \/ HeartbeatDevice(d) \/ RegisterDevice(d)
                               \/ GoOffline(d) \/ OtherWindowClaims(d)
      PROVE  change' = change
  BY <1>4 DEF Heartbeat, HeartbeatDevice, RegisterDevice, GoOffline, OtherWindowClaims, hub
<1>5. ASSUME NEW w \in Worker, PollStep(w) \/ Dispose(w) PROVE change' = change
  BY <1>5 DEF PollStep, Poll, PollList, PollHandle, PollSync, PollDone, Dispose, hub
<1>6. ASSUME NEW w \in Worker, NEW b \in Asg, RunStep(w, b) \/ LocalStep(w, b)
      PROVE  change' = change
  BY <1>6 DEF RunStep, LocalStep, ClaimAssignment, PrepareMirror, StartLocal, FailedStart,
     FinalRetry, SyncPollDone, FinalDone, Publish, PublishRefused, FinishRefused, Close,
     RenewFails, RenewLease, LocalEnds, LocalContinues, LocalUpdated, hub
<1>7. ASSUME NEW x \in DOMAIN sync, SyncStep(x) PROVE change' = change
  BY <1>7 DEF SyncStep, SyncList, SyncTake, SyncSend, DeleteQueued, SyncFailed, hub
<1>8. (\E b \in Asg : Lapse(b)) \/ UNCHANGED vars => change' = change
  BY DEF Lapse, vars
<1> QED
  BY <1>1, <1>2, <1>3, <1>4, <1>5, <1>6, <1>7, <1>8 DEF Next

(* Every step keeps calls, pairs and rows sound. *)
LEMMA StepSound ==
  ASSUME IInv, [Next]_vars
  PROVE  CallsSound /\ PairsFit /\ RowsSound /\ RivalStep
<1>i. /\ TypeOK /\ LeasesBacked /\ RowsNamed /\ CallShape /\ RunShape /\ Unclaimed
      /\ OneOwner /\ Reported /\ Settled /\ Delivered
  BY DEF IInv
<1>c. ChangesStay
  BY <1>i, ChangeSteps DEF Decisions
<1>t. /\ call \in [Caller -> Call] /\ rival \subseteq Asg /\ sync \in [Triple -> SyncTask]
  BY <1>i DEF TypeOK, Triple
<1>r. rival' = rival => RivalStep
  BY <1>t DEF RivalStep
<1>1. ASSUME NEW c \in Caller, HubStep(c) PROVE CallsSound /\ PairsFit /\ RowsSound /\ RivalStep
  <2>1. UNCHANGED <<run, sync, handed, rival>>
    BY <1>1 DEF HubStep, ExpireOne, OfflineSelect, FailOne, NotifyExpired, ReportValidate,
       InsertChangeSet, FinishAssignment, CompleteReview, SaveThread, worker, ghosts
  <2>2. CallsSound /\ NoNewReport
    BY <1>1, <1>c, <1>i, HubCalls
  <2> QED
    BY <1>1, <1>i, <1>r, <2>1, <2>2, WorkersKept, HubRows
<1>2. ASSUME NEW u \in User, UserStep(u) \/ UserCall(u) \/ Snapshot(u)
      PROVE  CallsSound /\ PairsFit /\ RowsSound /\ RivalStep
  <2>1. UNCHANGED <<run, sync, handed, rival>>
    BY <1>2 DEF UserStep, UserCall, SnapshotRead, CreateCheck, InsertAssignment, ApplyConflict,
       UpdateChangeStatus, Create, Retry, CancelAssignment, RevokeDevice, Decide,
       QueueInstruction, Snapshot, worker, ghosts
  <2>2. CallsSound /\ NoNewReport
    BY <1>2, <1>c, <1>i, UserCalls
  <2> QED
    BY <1>2, <1>i, <1>r, <2>1, <2>2, WorkersKept, UserRows
<1>3. ASSUME NEW d \in Device, Heartbeat(d) \/ HeartbeatDevice(d) \/ RegisterDevice(d)
                               \/ GoOffline(d) \/ OtherWindowClaims(d)
      PROVE  CallsSound /\ PairsFit /\ RowsSound /\ RivalStep
  <2>1. UNCHANGED <<run, sync, handed, lease>>
    BY <1>3 DEF Heartbeat, HeartbeatDevice, RegisterDevice, GoOffline, OtherWindowClaims,
       hub, worker, ghosts
  <2>2. CallsSound /\ NoNewReport
    BY <1>3, <1>c, <1>i, DeviceCalls
  <2>3. PairsFit
    BY <1>i, <2>1, <2>2, WorkersKept
  <2>4. CASE OtherWindowClaims(d)
    <3>1. PICK a \in Asg :
            /\ asg[a].status = "queued" /\ rival' = rival \cup {a}
            /\ asg' = [asg EXCEPT ![a].status = "running", ![a].lapsed = FALSE]
      BY <2>4 DEF OtherWindowClaims, ClaimGuard
    <3>2. RowsSound /\ asg'[a].status = "running"
      BY <1>i, <2>1, <3>1, ClaimRow
    <3>3. RivalStep
      BY <1>t, <3>1, <3>2 DEF RivalStep
    <3> QED
      BY <2>2, <2>3, <3>2, <3>3
  <2>5. CASE ~OtherWindowClaims(d)
    <3>1. UNCHANGED <<asg, rival>>
      BY <1>3, <2>5 DEF Heartbeat, HeartbeatDevice, RegisterDevice, GoOffline, hub, ghosts
    <3> QED
      BY <1>i, <1>r, <2>1, <2>2, <2>3, <3>1, RowsKept
  <2> QED
    BY <2>4, <2>5
<1>4. ASSUME NEW w \in Worker, PollStep(w) \/ Dispose(w)
      PROVE  CallsSound /\ PairsFit /\ RowsSound /\ RivalStep
  <2>1. UNCHANGED <<asg, lease, rival>>
    BY <1>4 DEF PollStep, Poll, PollList, PollHandle, PollSync, PollDone, Dispose, hub, ghosts
  <2>2. RowsSound
    BY <1>i, <2>1, RowsKept
  <2>3. CallsSound /\ PairsFit
    BY <1>4, <1>c, <1>i, PollCalls, PollPairs
  <2> QED
    BY <1>r, <2>1, <2>2, <2>3
<1>5. ASSUME NEW w \in Worker, NEW a \in Asg, RunStep(w, a)
      PROVE  CallsSound /\ PairsFit /\ RowsSound /\ RivalStep
  <2>1. rival' = rival
    BY <1>5 DEF RunStep, ClaimAssignment, PrepareMirror, StartLocal, FailedStart,
       FinalRetry, SyncPollDone, FinalDone, Publish, PublishRefused, FinishRefused, Close,
       RenewFails, RenewLease, ghosts
  <2>2. CASE ClaimAssignment(w, a)
    <3>1. CallsSound /\ PairsFit /\ RowsSound
      BY <1>c, <1>i, <2>2, ClaimSteps
    <3> QED
      BY <1>r, <2>1, <3>1
  <2>3. CASE ~ClaimAssignment(w, a)
    <3>1. UNCHANGED <<asg, lease>>
      BY <1>5, <2>3 DEF RunStep, PrepareMirror, StartLocal, FailedStart,
         FinalRetry, SyncPollDone, FinalDone, Publish, PublishRefused, FinishRefused, Close,
         RenewFails, RenewLease, hub
    <3>2. RowsSound
      BY <1>i, <3>1, RowsKept
    <3>3. CallsSound /\ PairsFit
      BY <1>5, <1>c, <1>i, <2>3, RunSteps
    <3> QED
      BY <1>r, <2>1, <3>2, <3>3
  <2> QED
    BY <2>2, <2>3
<1>6. ASSUME NEW w \in Worker, NEW a \in Asg, LocalStep(w, a)
      PROVE  CallsSound /\ PairsFit /\ RowsSound /\ RivalStep
  <2>1. UNCHANGED <<asg, lease, rival>>
    BY <1>6 DEF LocalStep, LocalEnds, LocalContinues, LocalUpdated, hub, ghosts
  <2>2. RowsSound
    BY <1>i, <2>1, RowsKept
  <2>3. CallsSound /\ PairsFit
    BY <1>6, <1>c, <1>i, LocalSteps
  <2> QED
    BY <1>r, <2>1, <2>2, <2>3
<1>7. ASSUME NEW x \in DOMAIN sync, SyncStep(x)
      PROVE  CallsSound /\ PairsFit /\ RowsSound /\ RivalStep
  <2>1. UNCHANGED <<asg, lease, rival>>
    BY <1>7 DEF SyncStep, SyncList, SyncTake, SyncSend, DeleteQueued, SyncFailed, hub, ghosts
  <2>2. RowsSound
    BY <1>i, <2>1, RowsKept
  <2>3. x \in Triple
    BY <1>t
  <2>4. CallsSound /\ PairsFit
    BY <1>7, <1>c, <1>i, <2>3, SyncSteps
  <2> QED
    BY <1>r, <2>1, <2>2, <2>4
<1>8. ASSUME NEW a \in Asg, Lapse(a) PROVE CallsSound /\ PairsFit /\ RowsSound /\ RivalStep
  <2>1. UNCHANGED <<call, run, sync, handed, rival>>
    BY <1>8 DEF Lapse, worker, ghosts
  <2>2. CallsSound /\ NoNewReport
    BY <1>c, <1>i, <1>t, <2>1, SameCalls
  <2> QED
    BY <1>8, <1>i, <1>r, <2>1, <2>2, WorkersKept, LapseRow
<1>9. CASE UNCHANGED vars
  <2>1. UNCHANGED <<asg, lease, call, run, sync, handed, rival>>
    BY <1>9 DEF vars
  <2>2. CallsSound /\ NoNewReport
    BY <1>c, <1>i, <1>t, <2>1, SameCalls
  <2> QED
    BY <1>i, <1>r, <2>1, <2>2, WorkersKept, RowsKept
<1> QED
  BY <1>1, <1>2, <1>3, <1>4, <1>5, <1>6, <1>7, <1>8, <1>9 DEF Next

LEMMA Initially == Init => IInv
<1> SUFFICES ASSUME Init PROVE IInv
  OBVIOUS
<1>1. PICK t \in Thread, d \in Device, w \in BOOLEAN :
        /\ asg = [a \in Asg |-> IF a = First THEN NewAssignment(t, d, w) ELSE NoAssignment]
        /\ lease = [r \in Repo |-> IF w /\ r \in Repos[t] THEN First ELSE None]
        /\ thread = [x \in Thread |-> IF x = t THEN "queued" ELSE "idle"]
  BY DEF Init
<1> DEFINE n == NewAssignment(t, d, w)
<1>2. /\ n \in Assignment /\ NoAssignment \in Assignment /\ NoAssignment.status = "none"
      /\ n.status = "queued" /\ n.thread = t /\ n.device = d /\ n.write = w
  BY DEF NewAssignment, NoAssignment, Assignment, Status
<1>3. asg = [a \in Asg |-> IF a = First THEN n ELSE NoAssignment]
  BY <1>1
<1> HIDE DEF n
<1>4. asg \in [Asg -> Assignment] /\ asg[First] = n
      /\ \A a \in Asg : a # First => asg[a] = NoAssignment
  BY <1>2, <1>3, CollaborationAssumption
<1>5. /\ lease \in [Repo -> Asg \cup {None}]
      /\ \A r \in Repo : lease[r] # None => lease[r] = First /\ w /\ r \in Repos[t]
      /\ thread \in [Thread -> ThreadStatus]
  BY <1>1, CollaborationAssumption DEF ThreadStatus
<1>6. /\ device \in [Device -> DeviceRow] /\ change \in ChangeSet
      /\ queue \in [Thread -> SUBSET Instr]
      /\ decided \subseteq Asg \X Repo
      /\ sent \subseteq Instr /\ handed \subseteq Instr /\ rival \subseteq Asg
      /\ calls \in 0..MaxCalls /\ faults \in 0..MaxFaults
  BY CollaborationAssumption DEF Init, DeviceRow, Paired, ChangeSet, ChangeStatus
<1>7. call \in [Caller -> Call] /\ \A c \in Caller : call[c] = NoCall
  BY NoCallTyped DEF Init
<1>8. poll \in [Worker -> [pc : {"idle", "listing", "handle", "claiming", "syncing"},
                           seen : SUBSET Asg, queued : SUBSET Asg]]
  BY DEF Init, NotPolling
<1>9. /\ run \in [Worker \X Asg -> ActiveRemoteRun]
      /\ \A v \in Worker, a \in Asg : run[<<v, a>>] = NoRun
  BY NoRunTyped DEF Init
<1>10. /\ sync \in [Worker \X Asg \X Who -> SyncTask]
       /\ \A v \in Worker, a \in Asg, k \in Who : sync[<<v, a, k>>] = NoSync
  BY NoSyncTyped DEF Init
<1>11. TypeOK
  BY <1>4, <1>5, <1>6, <1>7, <1>8, <1>9, <1>10 DEF TypeOK
<1>12. LeasesBacked
  BY <1>2, <1>4, <1>5 DEF LeasesBacked, Live
<1>13. RowsNamed
  BY <1>2, <1>4 DEF RowsNamed
<1>14. CallShape
  BY <1>7, NoCallTyped DEF CallShape, CallFits
<1>15. RunShape /\ Delivered
  BY <1>9, <1>10, NoRunTyped, NoSyncTyped DEF RunShape, RunFits, Delivered, TaskFits, Who
<1>16. \A v \in Worker, a \in Asg : <<v, a>> \in Caller
  BY DEF Caller
<1>17. \A v \in Worker, a \in Asg : Idle(v, a) /\ FinishEnds(v, a) /\ Quiet(v, a)
  BY <1>7, <1>9, <1>10, <1>16, NoRunTyped, NoSyncTyped, NoCallTyped DEF Idle, FinishEnds, Quiet
<1>18. rival = {} /\ sent = {} /\ \A a \in Asg, r \in Repo : change[a][r] = "none"
  BY DEF Init
<1>19. Unclaimed /\ OneOwner /\ Reported
  BY <1>17, <1>18 DEF Unclaimed, OneOwner, Reported
<1>20. Settled /\ DecidedBeforeDone /\ HandedOver
  BY <1>18 DEF Settled, DecidedBeforeDone, HandedOver
<1> QED
  BY <1>11, <1>12, <1>13, <1>14, <1>15, <1>19, <1>20 DEF IInv

LEMMA Inductive == IInv /\ [Next]_vars => IInv'
<1> SUFFICES ASSUME IInv, [Next]_vars PROVE IInv'
  OBVIOUS
<1>i. /\ TypeOK /\ LeasesBacked /\ RowsNamed /\ CallShape /\ RunShape /\ Unclaimed
      /\ OneOwner /\ Reported /\ Settled /\ Delivered /\ DecidedBeforeDone /\ HandedOver
  BY DEF IInv
<1>1. CallsSound /\ PairsFit /\ RowsSound /\ RivalStep
  BY StepSound
<1>2. ChangesStay /\ Settled' /\ decided' \subseteq Asg \X Repo /\ decided \subseteq decided'
  BY <1>i, ChangeSteps DEF Decisions
<1>3. RunShape' /\ Unclaimed' /\ OneOwner' /\ Reported' /\ Delivered'
  BY <1>1, <1>i, RunsHold
<1>4. calls' \in 0..MaxCalls /\ faults' \in 0..MaxFaults /\ PlacesSound /\ FollowUpsSound
  BY <1>i, BoundSteps, PlaceSteps, FollowUpSteps
<1>5. TypeOK'
  BY <1>1, <1>2, <1>4 DEF TypeOK, CallsSound, PairsFit, RunTypes, RowsSound, RivalStep,
     ChangesStay, PlacesSound, FollowUpsSound, Triple
<1>6. DecidedBeforeDone'
  <2> SUFFICES ASSUME NEW a \in Asg, NEW r \in Repo, asg'[a].status = "completed",
                      change'[a][r] # "none"
               PROVE  <<a, r>> \in decided'
    BY DEF DecidedBeforeDone
  <2>1. decided \subseteq decided'
    BY <1>2
  <2>2. CASE asg[a].status = "completed"
    <3>1. change[a][r] # "none"
      <4>1. \A w \in Worker : call[<<w, a>>].op # "report"
        BY <1>i, <2>2 DEF Reported, Quiet
      <4> QED
        BY <1>i, <4>1, ReportsOnly
    <3> QED
      BY <1>i, <2>1, <2>2, <3>1 DEF DecidedBeforeDone
  <2>3. CASE asg[a].status # "completed"
    <3>1. Settles(a) /\ change' = change
      BY <1>1, <2>3 DEF RowsSound, RowMoves
    <3>2. change[a][r] \in {"applied", "rejected"}
      BY <1>i, <3>1 DEF Settles, Open, TypeOK, ChangeSet, ChangeStatus
    <3> QED
      BY <1>i, <2>1, <3>2 DEF Settled
  <2> QED
    BY <2>2, <2>3
<1> QED
  BY <1>1, <1>2, <1>3, <1>4, <1>5, <1>6 DEF IInv, RowsSound, CallsSound, FollowUpsSound

(* Every state keeps the inductive invariant. *)
LEMMA Always == Spec => []IInv
  BY Initially, Inductive, PTL DEF Spec

(* Rows and runs are well typed, only live assignments keep repositories
   (whatever ends one releases them: finish, review, cancel, the sweep, an
   offline or a revoked device), and what another window claimed is never
   mirrored here (claim_assignment is one guarded update), for every number
   of threads, repositories, devices, workers and assignments. *)
THEOREM ClaimsAreSound == Spec => []ClaimsSound
<1>1. IInv => ClaimsSound
  <2>1. ASSUME IInv PROVE OneRun
    BY <2>1 DEF IInv, TypeOK, Unclaimed, Idle, OneRun
  <2> QED
    BY <2>1 DEF IInv, ClaimsSound
<1> QED
  BY <1>1, Always, PTL

(* No change set of a completed assignment is undecided, and no follow-up
   leaves the queue before a mirror has it, although finish, the worker's
   reports, the people's decisions and two synchronisations interleave. *)
THEOREM NothingIsDropped == Spec => []NothingDropped
<1>1. IInv => NothingDropped
  BY DEF IInv, NothingDropped
<1> QED
  BY <1>1, Always, PTL

(* An assignment that ended stays ended: every update of a row looks at its
   status again (am-db/repos/collaboration.rs). *)
THEOREM EndedIsFinal == Spec => EndedStaysEnded
<1>1. ASSUME IInv, [Next]_vars, NEW a \in Asg, asg[a].status \in Status \ Live
      PROVE  \/ asg'[a].status = asg[a].status
             \/ asg[a].status \in {"failed", "lease_expired"} /\ asg'[a].status = "cancelled"
  <2>1. RowMoves(a)
    BY <1>1, StepSound DEF RowsSound
  <2> QED
    BY <1>1, <2>1 DEF RowMoves, Live, Status
<1>2. IInv /\ [Next]_vars =>
        [\A a \in Asg :
           asg[a].status \in Status \ Live =>
             \/ asg'[a].status = asg[a].status
             \/ asg[a].status \in {"failed", "lease_expired"} /\ asg'[a].status = "cancelled"]_vars
  BY <1>1
<1> QED
  BY <1>2, Always, PTL DEF Spec, EndedStaysEnded
=============================================================================
