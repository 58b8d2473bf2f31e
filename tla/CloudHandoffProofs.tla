------------------------ MODULE CloudHandoffProofs -------------------------
(***************************************************************************)
(* Proofs about CloudHandoff for every set of threads and providers, every *)
(* policy and every number of cloud runs and events.                       *)
(***************************************************************************)
EXTENDS CloudHandoff, FiniteSetTheorems, WellFoundedInduction, TLAPS

(***************************************************************************)
(* The inductive invariant, part by part.                                  *)
(***************************************************************************)

Statuses == {None} \cup ActiveStatus \cup ClosedStatus
Ended == {"completed", "failed", "expired"}
Reasons == Ended \cup {None, "stalled", "manual"}
HandPc == {"idle", "choose", "lock", "approval", "stop", "settle", "push", "launch", "record", "save"}

RunRow == [t : Threads \cup {None}, ag : Agents \cup {None}, st : Statuses,
           prov : {None, "working"} \cup Ended, unseen : BOOLEAN, why : Reasons, closed : BOOLEAN]
HandRow == [pc : HandPc, t : Threads \cup {None}, trigger : {"manual", "sleep", "shutdown"},
            ag : Agents \cup {None}, left : Seq(Threads), ready : SUBSET Agents, count : Nat,
            ses : BOOLEAN, r : Runs \cup {0}]
MonRow == [pc : {"idle", "observe", "act", "reclaim"}, left : SUBSET Runs, r : Runs \cup {0},
           copy : Statuses, progress : BOOLEAN, poll : PollStatus]
RecRow == [pc : {"idle", "fetch", "close", "finish"}, r : Runs \cup {0}, why : Reasons,
           conflict : BOOLEAN, review : BOOLEAN]

(* The shapes TypeOK leaves open, and no more messages than events. *)
Shape ==
  /\ local \in [Threads -> {"off", "starting", "live", "stopping"}]
  /\ queue \in [Threads -> Nat] /\ sending \in [Threads -> Nat]
  /\ events \in 0..MaxEvents
  /\ \A t \in Threads : queue[t] + sending[t] <= events
  /\ run \in [Runs -> RunRow]
  /\ hand \in [Requesters -> HandRow]
  /\ mon \in MonRow
  /\ rec \in [Reclaimers -> RecRow]

(* A row belongs to a task the provider was given, and to its thread; the
   terminal statuses are written by `close' alone. *)
RowFits(v) ==
  /\ v.prov = None => v.st = None
  /\ v.prov # None => v.t \in Threads
  /\ v.st \in ClosedStatus => v.closed
RowsFit == \A r \in Runs : RowFits(run[r])

(* Completed work has arrived, and the provider adds nothing to it. *)
HasArrived(v, r, ah) ==
  v.st = "reclaimed" /\ v.why = "completed" => v.prov \in Ended /\ r \notin ah
Arrived == \A r \in Runs : HasArrived(run[r], r, ahead)

(* The runs that were recorded and never closed. *)
Open(rn) == {r \in Runs : rn[r].st \in ActiveStatus /\ ~rn[r].closed}
OpenFits(rn, cap) ==
  /\ Cardinality(Open(rn)) <= cap
  /\ \A r, q \in Open(rn) : rn[r].t = rn[q].t => r = q

(* What a requester may rely on between the checks behind the gate and the
   record of its run: it has the gate, and the run it is about to record fits
   under the cap and is the only one of its thread. *)
Holding == {"approval", "stop", "settle", "push", "launch", "record", "save"}
HandFits(h, v, lk, rn, loc, cap) ==
  /\ v.pc \in Holding => lk = h
  /\ v.pc \notin {"idle", "choose"} => v.t \in Threads /\ v.ag \in Agents
  /\ v.pc = "choose" => v.left # <<>>
  /\ v.pc \in Holding \ {"save"} =>
       /\ Cardinality(Open(rn)) < cap
       /\ \A r \in Open(rn) : rn[r].t # v.t
  /\ v.pc = "record" =>
       v.r \in Runs /\ rn[v.r].t = v.t /\ rn[v.r].st = None /\ rn[v.r].prov # None
  /\ v.pc = "settle" /\ v.ses => loc[v.t] \in {"live", "stopping"}
  /\ v.pc \in {"push", "launch", "record", "save"} => ~v.ses
HandsFit == \A h \in Requesters : HandFits(h, hand[h], lock, run, local, policy.cap)

(* The monitor and the reclaimers work on recorded runs; who reclaims for the
   reason "completed" does so after the provider ended the task, and behind the
   fetch either reports a conflict or has its commits. *)
Started(r, rn) == r \in Runs /\ rn[r].st # None
MonFits(v, rn) ==
  /\ \A r \in v.left : Started(r, rn)
  /\ v.pc # "idle" => Started(v.r, rn)
  /\ v.pc = "act" /\ v.poll = "completed" => rn[v.r].prov \in Ended
RecFits(v, rn, ah) ==
  /\ v.pc # "idle" => Started(v.r, rn)
  /\ v.pc # "idle" /\ v.why = "completed" => rn[v.r].prov \in Ended
  /\ v.pc \in {"close", "finish"} /\ v.why = "completed" /\ ~v.conflict => v.r \notin ah
RecsFit == \A p \in Reclaimers : RecFits(rec[p], run, ahead)

IInv ==
  /\ TypeOK /\ Shape
  /\ RowsFit /\ Arrived
  /\ OpenFits(run, policy.cap)
  /\ HandsFit /\ MonFits(mon, run) /\ RecsFit


(***************************************************************************)
(* Numbers: the least element of a set of run numbers.                     *)
(***************************************************************************)

LEMMA MinIsLeast ==
  ASSUME NEW R, NEW S, S \subseteq Nat, \A x, y \in Nat : x < y => <<x, y>> \in R,
         \E x \in S : \A y \in S : ~(<<y, x>> \in R)
  PROVE  \E x \in S : \A y \in S : x <= y
<1>1. PICK x \in S : \A y \in S : ~(<<y, x>> \in R)
  OBVIOUS
<1>2. ASSUME NEW y \in S PROVE x <= y
  <2>1. x \in Nat /\ y \in Nat /\ ~(y < x)
    BY <1>1
  <2> QED
    BY <2>1
<1> QED
  BY <1>2

LEMMA LeastRun ==
  ASSUME NEW S, S \subseteq Nat, S # {}
  PROVE  \E x \in S : \A y \in S : x <= y
<1> DEFINE R == OpToRel(<, Nat)
<1>1. IsWellFoundedOn(R, Nat)
  BY NatLessThanWellFounded
<1>2. \A x, y \in Nat : x < y => <<x, y>> \in R
  BY DEF OpToRel
<1> HIDE DEF R
<1>3. \E x \in S : \A y \in S : ~(<<y, x>> \in R)
  BY <1>1, WFMin
<1> QED
  BY <1>2, <1>3, MinIsLeast

(***************************************************************************)
(* Types.                                                                  *)
(***************************************************************************)

(* The plain part of TypeOK; the rest of it follows from Shape. *)
Plain ==
  /\ policy \in Stored /\ limited \subseteq Agents
  /\ status \in [Threads -> {"running", "paused", "queued", "review", "running_in_cloud"}]
  /\ agent \in [Threads -> Agents]
  /\ ahead \subseteq Runs /\ diverged \subseteq Threads
  /\ lock \in Requesters \cup {None}

(* Every part of the state has the type the code gives it. *)
LEMMA TypesSuffice ==
  Plain /\ Shape => TypeOK
<1> SUFFICES ASSUME Plain, Shape PROVE TypeOK
  OBVIOUS
<1>1. \A t \in Threads : /\ local[t] \in {"off", "starting", "live", "stopping"}
                         /\ queue[t] \in 0..MaxEvents /\ sending[t] \in 0..MaxEvents
  BY BoundAssumption DEF Shape
<1>2. \A r \in Runs : /\ run[r].st \in {None} \cup ActiveStatus \cup ClosedStatus
                      /\ run[r].t \in Threads \cup {None} /\ run[r].ag \in Agents \cup {None}
  BY DEF Shape, RunRow, Statuses
<1>3. \A h \in Requesters : hand[h].pc \in HandPc
  BY DEF Shape, HandRow
<1>4. mon.pc \in {"idle", "observe", "act", "reclaim"}
  BY DEF Shape, MonRow
<1>5. \A p \in Reclaimers : rec[p].pc \in {"idle", "fetch", "close", "finish"}
  BY DEF Shape, RecRow
<1> QED
  BY <1>1, <1>2, <1>3, <1>4, <1>5 DEF Plain, TypeOK, HandPc

(* The constant rows have the shapes of their variables. *)
LEMMA NullTypes ==
  /\ NoRun \in RunRow /\ NoHand \in HandRow /\ NoMon \in MonRow /\ NoRec \in RecRow
<1>1. NoRun \in RunRow
  BY DEF NoRun, RunRow, Statuses, Reasons
<1>2. NoHand \in HandRow
  BY DEF NoHand, HandRow, HandPc
<1>3. NoMon \in MonRow
  BY DEF NoMon, MonRow, Statuses, PollStatus
<1>4. NoRec \in RecRow
  BY DEF NoRec, RecRow, Reasons
<1> QED
  BY <1>1, <1>2, <1>3, <1>4

(* The stored policy has a cap. *)
LEMMA CapIsNumber ==
  ASSUME policy \in Stored
  PROVE  policy.cap \in Nat
<1>1. PICK p \in Policies : policy = Normalize(p)
  BY DEF Stored
<1>2. p \in [enabled : BOOLEAN, sleep : BOOLEAN, shutdown : BOOLEAN, cross : BOOLEAN,
             approval : BOOLEAN, cap : Nat, priority : Seq(Agents)]
  BY PolicyAssumption
<1>3. policy.cap = Clamp(p.cap)
  BY <1>1, <1>2 DEF Normalize
<1> QED
  BY <1>2, <1>3 DEF Clamp, MaxCap

(* The requester goes on or gives up. *)
LEMMA ReleaseTypes ==
  ASSUME NEW h \in Requesters, hand \in [Requesters -> HandRow], lock \in Requesters \cup {None},
         Release(h)
  PROVE  /\ hand' \in [Requesters -> HandRow] /\ lock' \in Requesters \cup {None}
         /\ hand'[h] = NoHand \/ (hand'[h] = [hand[h] EXCEPT !.pc = "choose"] /\ hand[h].left # <<>>)
         /\ \A g \in Requesters \ {h} : hand'[g] = hand[g] /\ (lock = g => lock' = g)
<1> DEFINE v == IF h \in PowerRequesters /\ hand[h].left # <<>> THEN [hand[h] EXCEPT !.pc = "choose"]
                ELSE NoHand
<1>1. hand' = [hand EXCEPT ![h] = v]
  BY DEF Release, Next1
<1>2. hand[h] \in HandRow
  OBVIOUS
<1>3. [hand[h] EXCEPT !.pc = "choose"] \in HandRow
  BY <1>2 DEF HandRow, HandPc
<1>4. v \in HandRow
  BY <1>3, NullTypes
<1>5. v = NoHand \/ (v = [hand[h] EXCEPT !.pc = "choose"] /\ hand[h].left # <<>>)
  <2>1. CASE h \in PowerRequesters /\ hand[h].left # <<>>
    BY <2>1
  <2>2. CASE ~(h \in PowerRequesters /\ hand[h].left # <<>>)
    BY <2>2
  <2> QED
    BY <2>1, <2>2
<1>6. lock' = IF lock = h THEN None ELSE lock
  BY DEF Release
<1> HIDE DEF v
<1>7. /\ hand' \in [Requesters -> HandRow] /\ hand'[h] = v
      /\ \A g \in Requesters \ {h} : hand'[g] = hand[g]
  BY <1>1, <1>4
<1>8. lock' \in Requesters \cup {None} /\ \A g \in Requesters \ {h} : lock = g => lock' = g
  BY <1>6
<1> QED
  BY <1>5, <1>7, <1>8

LEMMA GotoTypes ==
  ASSUME NEW h \in Requesters, hand \in [Requesters -> HandRow], NEW pc \in HandPc, Goto(h, pc)
  PROVE  /\ hand' \in [Requesters -> HandRow]
         /\ hand'[h] = [hand[h] EXCEPT !.pc = pc]
         /\ \A g \in Requesters \ {h} : hand'[g] = hand[g]
<1> DEFINE v == [hand[h] EXCEPT !.pc = pc]
<1>1. hand' = [hand EXCEPT ![h] = v]
  BY DEF Goto
<1>2. v \in HandRow
  <2>1. hand[h] \in HandRow
    OBVIOUS
  <2> QED
    BY <2>1 DEF HandRow
<1> HIDE DEF v
<1>3. /\ hand' \in [Requesters -> HandRow]
      /\ hand'[h] = v
      /\ \A g \in Requesters \ {h} : hand'[g] = hand[g]
  BY <1>1, <1>2
<1> QED
  BY <1>3 DEF v

(* The first unused run is a run. *)
LEMMA NewRunIsUnused ==
  ASSUME Unused # {}
  PROVE  NewRun \in Runs /\ run[NewRun].prov = None
<1>1. Unused \subseteq Nat
  BY BoundAssumption DEF Unused, Runs
<1>2. \E r \in Unused : \A q \in Unused : r <= q
  BY <1>1, LeastRun
<1>3. NewRun \in Unused
  BY <1>2 DEF NewRun
<1> QED
  BY <1>3 DEF Unused

(* The next run of a tick is one of those left. *)
LEMMA NextRunTypes ==
  ASSUME NEW left, left \subseteq Runs, NEW m \in [Runs -> Statuses]
  PROVE  /\ NextRun(m, left) \in MonRow
         /\ NextRun(m, left).left \subseteq left
         /\ NextRun(m, left).pc # "idle" => NextRun(m, left).r \in left
         /\ NextRun(m, left).pc # "act"
<1>1. CASE left = {}
  <2>1. NextRun(m, left) = NoMon
    BY <1>1 DEF NextRun
  <2>2. NoMon.left = {} /\ NoMon.pc = "idle"
    BY DEF NoMon
  <2> QED
    BY <2>1, <2>2, NullTypes
<1>2. CASE left # {}
  <2> DEFINE r == CHOOSE x \in left : \A y \in left : x <= y
             v == [NoMon EXCEPT !.pc = "observe", !.left = left, !.r = r, !.copy = m[r]]
  <2>1. left \subseteq Nat
    BY BoundAssumption DEF Runs
  <2>2. r \in left
    BY <1>2, <2>1, LeastRun
  <2>3. NextRun(m, left) = v
    BY <1>2 DEF NextRun
  <2> HIDE DEF r
  <2>4. v \in MonRow /\ v.left = left /\ v.r = r /\ v.pc = "observe"
    BY <2>2 DEF NoMon, MonRow, PollStatus, Statuses
  <2> QED
    BY <2>2, <2>3, <2>4
<1> QED
  BY <1>1, <1>2

(* A run number and the new value of its row. *)
LEMMA RunTypes ==
  ASSUME NEW r \in Runs, NEW v \in RunRow, run \in [Runs -> RunRow], run' = [run EXCEPT ![r] = v]
  PROVE  /\ run' \in [Runs -> RunRow] /\ run'[r] = v
         /\ \A q \in Runs \ {r} : run'[q] = run[q]
OBVIOUS

(***************************************************************************)
(* What every step but the record of a new run keeps of the rows, and what *)
(* the parts of the invariant need no more than.                           *)
(***************************************************************************)

RowKeeps(v, w) ==
  /\ RowFits(w)
  /\ v.prov # None => w.prov # None /\ w.t = v.t
  /\ v.prov \in Ended => w.prov \in Ended
  /\ v.st # None <=> w.st # None
  /\ w.st \in ActiveStatus /\ ~w.closed => v.st \in ActiveStatus /\ ~v.closed
RunKeeps(rn, rn2) == \A r \in Runs : RowKeeps(rn[r], rn2[r])

(* Commits arrive on the branch of a working task only. *)
AheadKeeps(rn, ah, ah2) == \A r \in Runs : r \in ah2 => r \in ah \/ rn[r].prov \notin Ended

(* A session that is registered stays so. *)
LocalKeeps(loc, loc2) ==
  \A t \in Threads : loc[t] \in {"live", "stopping"} => loc2[t] \in {"live", "stopping"}

LEMMA Distinct ==
  /\ None \notin ActiveStatus /\ None \notin ClosedStatus /\ None \notin Ended
  /\ ActiveStatus \cap ClosedStatus = {} /\ "working" \notin Ended
BY DEF None, ActiveStatus, ClosedStatus, Ended

(* Rows that stay the same keep everything. *)
LEMMA SameRows ==
  ASSUME NEW rn, \A r \in Runs : RowFits(rn[r])
  PROVE  RunKeeps(rn, rn)
BY DEF RunKeeps, RowKeeps

(* One row changes. *)
LEMMA OneRow ==
  ASSUME NEW r \in Runs, NEW rn, NEW rn2, \A q \in Runs : RowFits(rn[q]),
         \A q \in Runs \ {r} : rn2[q] = rn[q], RowKeeps(rn[r], rn2[r])
  PROVE  RunKeeps(rn, rn2)
<1>1. \A q \in Runs \ {r} : RowKeeps(rn[q], rn2[q])
  BY DEF RowKeeps
<1> QED
  BY <1>1 DEF RunKeeps

LEMMA OpenIsFinite ==
  ASSUME NEW rn
  PROVE  IsFiniteSet(Open(rn)) /\ Cardinality(Open(rn)) \in Nat
<1>1. IsFiniteSet(Runs)
  BY BoundAssumption, FS_Interval DEF Runs
<1>2. Open(rn) \subseteq Runs
  BY DEF Open
<1> QED
  BY <1>1, <1>2, FS_Subset, FS_CardinalityType

LEMMA OpenShrinks ==
  ASSUME NEW rn, NEW rn2, \A r \in Runs : RowFits(rn[r]), RunKeeps(rn, rn2)
  PROVE  /\ Open(rn2) \subseteq Open(rn)
         /\ Cardinality(Open(rn2)) <= Cardinality(Open(rn))
         /\ \A r \in Open(rn2) : rn2[r].t = rn[r].t
<1>1. \A r \in Open(rn2) : r \in Open(rn) /\ rn2[r].t = rn[r].t
  <2> SUFFICES ASSUME NEW r \in Open(rn2) PROVE r \in Open(rn) /\ rn2[r].t = rn[r].t
    OBVIOUS
  <2>1. r \in Runs /\ RowKeeps(rn[r], rn2[r]) /\ RowFits(rn[r])
    BY DEF Open, RunKeeps
  <2>2. r \in Open(rn) /\ rn[r].st \in ActiveStatus
    BY <2>1 DEF Open, RowKeeps
  <2>3. rn[r].prov # None
    BY <2>1, <2>2, Distinct DEF RowFits
  <2> QED
    BY <2>1, <2>2, <2>3 DEF RowKeeps
<1>2. Open(rn2) \subseteq Open(rn)
  BY <1>1
<1>3. Cardinality(Open(rn2)) <= Cardinality(Open(rn))
  BY <1>2, OpenIsFinite, FS_Subset
<1> QED
  BY <1>1, <1>2, <1>3

LEMMA OpenKept ==
  ASSUME NEW rn, NEW rn2, NEW cap \in Nat, \A r \in Runs : RowFits(rn[r]), RunKeeps(rn, rn2),
         OpenFits(rn, cap)
  PROVE  OpenFits(rn2, cap)
<1>1. /\ Open(rn2) \subseteq Open(rn)
      /\ Cardinality(Open(rn2)) <= Cardinality(Open(rn))
      /\ \A r \in Open(rn2) : rn2[r].t = rn[r].t
  BY OpenShrinks
<1>2. Cardinality(Open(rn2)) \in Nat /\ Cardinality(Open(rn)) \in Nat
  BY OpenIsFinite
<1>3. Cardinality(Open(rn2)) <= cap
  BY <1>1, <1>2 DEF OpenFits
<1> QED
  BY <1>1, <1>3 DEF OpenFits

(* A requester that does not move keeps what it relies on. *)
LEMMA HandKept ==
  ASSUME NEW h \in Requesters, NEW v \in HandRow, NEW lk, NEW lk2, NEW rn, NEW rn2, NEW loc, NEW loc2,
         NEW cap \in Nat, \A r \in Runs : RowFits(rn[r]), RunKeeps(rn, rn2),
         HandFits(h, v, lk, rn, loc, cap), lk = h => lk2 = h,
         v.pc = "settle" /\ v.ses /\ loc[v.t] \in {"live", "stopping"} => loc2[v.t] \in {"live", "stopping"}
  PROVE  HandFits(h, v, lk2, rn2, loc2, cap)
<1>1. /\ Open(rn2) \subseteq Open(rn)
      /\ Cardinality(Open(rn2)) <= Cardinality(Open(rn))
      /\ \A r \in Open(rn2) : rn2[r].t = rn[r].t
  BY OpenShrinks
<1>2. Cardinality(Open(rn2)) \in Nat /\ Cardinality(Open(rn)) \in Nat
  BY OpenIsFinite
<1>3. v.pc \in Holding \ {"save"} =>
        /\ Cardinality(Open(rn2)) < cap
        /\ \A r \in Open(rn2) : rn2[r].t # v.t
  BY <1>1, <1>2 DEF HandFits
<1>4. ASSUME v.pc = "record"
      PROVE  v.r \in Runs /\ rn2[v.r].t = v.t /\ rn2[v.r].st = None /\ rn2[v.r].prov # None
  <2>1. v.r \in Runs /\ rn[v.r].t = v.t /\ rn[v.r].st = None /\ rn[v.r].prov # None
    BY <1>4 DEF HandFits
  <2>2. RowKeeps(rn[v.r], rn2[v.r])
    BY <2>1 DEF RunKeeps
  <2> QED
    BY <2>1, <2>2 DEF RowKeeps
<1>5. v.pc = "settle" /\ v.ses => loc2[v.t] \in {"live", "stopping"}
  BY DEF HandFits
<1> QED
  BY <1>3, <1>4, <1>5 DEF HandFits

LEMMA StartedKept ==
  ASSUME NEW rn, NEW rn2, RunKeeps(rn, rn2), NEW r, Started(r, rn)
  PROVE  Started(r, rn2) /\ (rn[r].prov \in Ended => rn2[r].prov \in Ended)
<1>1. RowKeeps(rn[r], rn2[r])
  BY DEF Started, RunKeeps
<1> QED
  BY <1>1 DEF Started, RowKeeps

LEMMA MonKept ==
  ASSUME NEW v, NEW rn, NEW rn2, RunKeeps(rn, rn2), MonFits(v, rn)
  PROVE  MonFits(v, rn2)
<1>1. \A r \in v.left : Started(r, rn2)
  BY StartedKept DEF MonFits
<1>2. v.pc # "idle" => Started(v.r, rn2)
  BY StartedKept DEF MonFits
<1>3. v.pc = "act" /\ v.poll = "completed" => rn2[v.r].prov \in Ended
  BY StartedKept DEF MonFits
<1> QED
  BY <1>1, <1>2, <1>3 DEF MonFits

LEMMA RecKept ==
  ASSUME NEW v, NEW rn, NEW rn2, NEW ah, NEW ah2, RunKeeps(rn, rn2), AheadKeeps(rn, ah, ah2),
         RecFits(v, rn, ah)
  PROVE  RecFits(v, rn2, ah2)
<1>1. v.pc # "idle" => Started(v.r, rn2)
  BY StartedKept DEF RecFits
<1>2. v.pc # "idle" /\ v.why = "completed" => rn2[v.r].prov \in Ended
  BY StartedKept DEF RecFits
<1>3. ASSUME v.pc \in {"close", "finish"}, v.why = "completed", ~v.conflict
      PROVE  v.r \notin ah2
  <2>1. v.r \in Runs /\ rn[v.r].prov \in Ended /\ v.r \notin ah
    BY <1>3 DEF RecFits, Started
  <2> QED
    BY <2>1 DEF AheadKeeps
<1> QED
  BY <1>1, <1>2, <1>3 DEF RecFits

LEMMA ArrivedKept ==
  ASSUME NEW rn, NEW rn2, NEW ah, NEW ah2, NEW r \in Runs, RunKeeps(rn, rn2), AheadKeeps(rn, ah, ah2),
         HasArrived(rn[r], r, ah),
         rn2[r].st = "reclaimed" /\ rn2[r].why = "completed" =>
           rn[r].st = "reclaimed" /\ rn[r].why = "completed"
  PROVE  HasArrived(rn2[r], r, ah2)
<1>1. SUFFICES ASSUME rn2[r].st = "reclaimed", rn2[r].why = "completed"
               PROVE  rn2[r].prov \in Ended /\ r \notin ah2
  BY DEF HasArrived
<1>2. rn[r].prov \in Ended /\ r \notin ah
  BY <1>1 DEF HasArrived
<1>3. RowKeeps(rn[r], rn2[r])
  BY DEF RunKeeps
<1> QED
  BY <1>2, <1>3 DEF RowKeeps, AheadKeeps

(***************************************************************************)
(* The parts of the invariant over a step.                                 *)
(***************************************************************************)

LEMMA Parts ==
  ASSUME IInv
  PROVE  /\ Plain /\ Shape /\ policy.cap \in Nat
         /\ \A r \in Runs : RowFits(run[r])
         /\ RunKeeps(run, run) /\ AheadKeeps(run, ahead, ahead) /\ LocalKeeps(local, local)
         /\ \A h \in Requesters : hand[h] \in HandRow /\ HandFits(h, hand[h], lock, run, local, policy.cap)
<1>1. Plain
  BY DEF IInv, TypeOK, Plain
<1>2. policy.cap \in Nat
  BY <1>1, CapIsNumber DEF Plain
<1>3. \A r \in Runs : RowFits(run[r])
  BY DEF IInv, RowsFit
<1>4. RunKeeps(run, run)
  BY <1>3, SameRows
<1>5. AheadKeeps(run, ahead, ahead) /\ LocalKeeps(local, local)
  BY DEF AheadKeeps, LocalKeeps
<1>6. Shape /\ \A h \in Requesters : HandFits(h, hand[h], lock, run, local, policy.cap)
  BY DEF IInv, HandsFit
<1> QED
  BY <1>1, <1>2, <1>3, <1>4, <1>5, <1>6 DEF Shape

LEMMA Step ==
  ASSUME IInv, Plain', Shape', policy' = policy, RunKeeps(run, run'),
         Arrived', HandsFit', MonFits(mon', run'), RecsFit'
  PROVE  IInv'
<1>1. RowsFit'
  BY DEF RunKeeps, RowKeeps, RowsFit
<1>2. OpenFits(run', policy'.cap)
  BY Parts, OpenKept DEF IInv
<1>3. TypeOK'
  BY TypesSuffice, PTL
<1> QED
  BY <1>1, <1>2, <1>3 DEF IInv

(* One requester moves. *)
LEMMA OneHand ==
  ASSUME IInv, NEW h \in Requesters, policy' = policy, RunKeeps(run, run'), LocalKeeps(local, local'),
         \A g \in Requesters \ {h} : hand'[g] = hand[g] /\ (lock = g => lock' = g),
         HandFits(h, hand'[h], lock', run', local', policy.cap)
  PROVE  HandsFit'
<1> SUFFICES ASSUME NEW g \in Requesters
             PROVE  HandFits(g, hand'[g], lock', run', local', policy'.cap)
  BY DEF HandsFit
<1>1. CASE g = h
  BY <1>1
<1>2. CASE g # h
  <2>1. hand'[g] = hand[g] /\ (lock = g => lock' = g)
    BY <1>2
  <2>2. /\ hand[g] \in HandRow /\ HandFits(g, hand[g], lock, run, local, policy.cap)
        /\ policy.cap \in Nat /\ \A r \in Runs : RowFits(run[r])
    BY Parts
  <2>3. hand[g].pc = "settle" => hand[g].t \in Threads
    BY <2>2 DEF HandFits
  <2>4. hand[g].pc = "settle" /\ hand[g].ses /\ local[hand[g].t] \in {"live", "stopping"}
          => local'[hand[g].t] \in {"live", "stopping"}
    BY <2>3 DEF LocalKeeps
  <2>5. HandFits(g, hand[g], lock', run', local', policy.cap)
    BY <2>1, <2>2, <2>4, HandKept
  <2> QED
    BY <2>1, <2>5
<1> QED
  BY <1>1, <1>2

LEMMA SameHands ==
  ASSUME IInv, policy' = policy, RunKeeps(run, run'), LocalKeeps(local, local'),
         hand' = hand, lock' = lock
  PROVE  HandsFit'
<1>1. "manual" \in Requesters
  BY DEF Requesters
<1>2. /\ hand["manual"] \in HandRow /\ HandFits("manual", hand["manual"], lock, run, local, policy.cap)
      /\ policy.cap \in Nat /\ \A r \in Runs : RowFits(run[r])
  BY <1>1, Parts
<1>3. hand["manual"].pc = "settle" => hand["manual"].t \in Threads
  BY <1>2 DEF HandFits
<1>4. LET v == hand["manual"] IN
      v.pc = "settle" /\ v.ses /\ local[v.t] \in {"live", "stopping"} => local'[v.t] \in {"live", "stopping"}
  BY <1>3 DEF LocalKeeps
<1>5. HandFits("manual", hand["manual"], lock', run', local', policy.cap)
  BY <1>1, <1>2, <1>4, HandKept
<1> QED
  BY <1>1, <1>5, OneHand

LEMMA SameMon ==
  ASSUME IInv, RunKeeps(run, run'), mon' = mon
  PROVE  MonFits(mon', run')
BY MonKept DEF IInv

LEMMA SameRecs ==
  ASSUME IInv, RunKeeps(run, run'), AheadKeeps(run, ahead, ahead'), rec' = rec
  PROVE  RecsFit'
BY RecKept DEF IInv, RecsFit

LEMMA OneRec ==
  ASSUME IInv, NEW p \in Reclaimers, RunKeeps(run, run'), AheadKeeps(run, ahead, ahead'),
         \A q \in Reclaimers \ {p} : rec'[q] = rec[q], RecFits(rec'[p], run', ahead')
  PROVE  RecsFit'
<1> SUFFICES ASSUME NEW q \in Reclaimers PROVE RecFits(rec'[q], run', ahead')
  BY DEF RecsFit
<1>1. RecFits(rec[q], run', ahead')
  BY RecKept DEF IInv, RecsFit
<1> QED
  BY <1>1

LEMMA SameArrived ==
  ASSUME IInv, RunKeeps(run, run'), AheadKeeps(run, ahead, ahead'),
         \A r \in Runs : run'[r].st = "reclaimed" /\ run'[r].why = "completed" =>
                           run[r].st = "reclaimed" /\ run[r].why = "completed"
  PROVE  Arrived'
BY ArrivedKept DEF IInv, Arrived

(* A step that leaves the rows, the requesters, the monitor and the reclaimers
   alone. *)
LEMMA QuietStep ==
  ASSUME IInv, Plain', Shape', UNCHANGED <<policy, run, lock, hand, mon, rec, ahead>>,
         LocalKeeps(local, local')
  PROVE  IInv'
<1>1. RunKeeps(run, run') /\ AheadKeeps(run, ahead, ahead')
  BY Parts
<1>2. Arrived'
  BY <1>1, SameArrived
<1>3. HandsFit' /\ MonFits(mon', run') /\ RecsFit'
  BY <1>1, SameHands, SameMon, SameRecs
<1> QED
  BY <1>1, <1>2, <1>3, Step

(* A step of one requester that leaves the rows alone. *)
LEMMA HandStep ==
  ASSUME IInv, Plain', Shape', UNCHANGED <<policy, run, mon, rec, ahead>>,
         NEW h \in Requesters, LocalKeeps(local, local'),
         \A g \in Requesters \ {h} : hand'[g] = hand[g] /\ (lock = g => lock' = g),
         HandFits(h, hand'[h], lock', run, local', policy.cap)
  PROVE  IInv'
<1>1. RunKeeps(run, run') /\ AheadKeeps(run, ahead, ahead')
  BY Parts
<1>2. Arrived'
  BY <1>1, SameArrived
<1>3. HandsFit'
  BY <1>1, OneHand
<1>4. MonFits(mon', run') /\ RecsFit'
  BY <1>1, SameMon, SameRecs
<1> QED
  BY <1>1, <1>2, <1>3, <1>4, Step

(* A requester that lost its gate has nothing to rely on. *)
LEMMA ReleaseFits ==
  ASSUME IInv, NEW h \in Requesters, Release(h), NEW rn, NEW loc, NEW cap
  PROVE  /\ HandFits(h, hand'[h], lock', rn, loc, cap)
         /\ \A g \in Requesters \ {h} : hand'[g] = hand[g] /\ (lock = g => lock' = g)
         /\ hand' \in [Requesters -> HandRow] /\ lock' \in Requesters \cup {None}
<1>1. /\ hand' \in [Requesters -> HandRow] /\ lock' \in Requesters \cup {None}
      /\ hand'[h] = NoHand \/ (hand'[h] = [hand[h] EXCEPT !.pc = "choose"] /\ hand[h].left # <<>>)
      /\ \A g \in Requesters \ {h} : hand'[g] = hand[g] /\ (lock = g => lock' = g)
  BY ReleaseTypes DEF IInv, TypeOK, Shape
<1>2. hand[h] \in HandRow
  BY Parts
<1>3. hand'[h].pc = "idle" \/ (hand'[h].pc = "choose" /\ hand'[h].left # <<>>)
  BY <1>1, <1>2 DEF NoHand, HandRow
<1>4. HandFits(h, hand'[h], lock', rn, loc, cap)
  BY <1>3 DEF HandFits, Holding
<1> QED
  BY <1>1, <1>4

(***************************************************************************)
(* Local sessions and messages.                                            *)
(***************************************************************************)

LEMMA SendMessageKeeps ==
  ASSUME IInv, NEW t \in Threads, SendMessage(t)
  PROVE  IInv'
<1>1. UNCHANGED <<policy, limited, status, agent, queue, run, ahead, diverged, lock, hand, mon, rec>>
  BY DEF SendMessage, db, git, procs
<1>2. events < MaxEvents /\ events' = events + 1
  BY DEF SendMessage
<1>3. \/ sending' = [sending EXCEPT ![t] = @ + 1] /\ local' = local
      \/ local[t] = "off" /\ local' = [local EXCEPT ![t] = "starting"] /\ sending' = sending
  BY DEF SendMessage
<1>4. Plain /\ Shape
  BY Parts
<1>5. Plain'
  BY <1>1, <1>4 DEF Plain
<1>6. events' \in 0..MaxEvents /\ \A s \in Threads : queue'[s] + sending'[s] <= events'
  BY <1>1, <1>2, <1>3, <1>4, BoundAssumption DEF Shape
<1>7. /\ local' \in [Threads -> {"off", "starting", "live", "stopping"}]
      /\ queue' \in [Threads -> Nat] /\ sending' \in [Threads -> Nat]
  BY <1>1, <1>3, <1>4 DEF Shape
<1>8. Shape'
  BY <1>1, <1>4, <1>6, <1>7 DEF Shape
<1>9. LocalKeeps(local, local')
  BY <1>3, <1>4 DEF LocalKeeps, Shape
<1> QED
  BY <1>1, <1>5, <1>8, <1>9, QuietStep

LEMMA EnqueueKeeps ==
  ASSUME IInv, NEW t \in Threads, Enqueue(t)
  PROVE  IInv'
<1>1. UNCHANGED <<policy, limited, status, agent, local, run, ahead, diverged, lock, hand, mon, rec, events>>
  BY DEF Enqueue, git, procs
<1>2. sending[t] > 0 /\ sending' = [sending EXCEPT ![t] = @ - 1] /\ queue' = [queue EXCEPT ![t] = @ + 1]
  BY DEF Enqueue
<1>3. Plain /\ Shape /\ LocalKeeps(local, local)
  BY Parts
<1>4. Plain'
  BY <1>1, <1>3 DEF Plain
<1>5. /\ queue' \in [Threads -> Nat] /\ sending' \in [Threads -> Nat]
      /\ \A s \in Threads : queue'[s] + sending'[s] <= events'
  BY <1>1, <1>2, <1>3 DEF Shape
<1>6. Shape'
  BY <1>1, <1>3, <1>5 DEF Shape
<1> QED
  BY <1>1, <1>3, <1>4, <1>6, QuietStep

LEMMA ContinueQueuedKeeps ==
  ASSUME IInv, NEW t \in Threads, ContinueQueued(t)
  PROVE  IInv'
<1>1. UNCHANGED <<policy, limited, status, agent, queue, run, sending, ahead, diverged, lock, hand, mon,
                  rec, events>>
  BY DEF ContinueQueued, db, git, procs
<1>2. local[t] = "off" /\ local' = [local EXCEPT ![t] = "starting"]
  BY DEF ContinueQueued, MayStart
<1>3. Plain /\ Shape
  BY Parts
<1>4. Plain'
  BY <1>1, <1>3 DEF Plain
<1>5. local' \in [Threads -> {"off", "starting", "live", "stopping"}] /\ LocalKeeps(local, local')
  BY <1>2, <1>3 DEF LocalKeeps, Shape
<1>6. Shape'
  BY <1>1, <1>3, <1>5 DEF Shape
<1> QED
  BY <1>1, <1>4, <1>5, <1>6, QuietStep

LEMMA SessionStartsKeeps ==
  ASSUME IInv, NEW t \in Threads, SessionStarts(t)
  PROVE  IInv'
<1>1. UNCHANGED <<policy, limited, agent, run, sending, ahead, diverged, lock, hand, mon, rec, events>>
  BY DEF SessionStarts, git, procs
<1>2. local' = [local EXCEPT ![t] = "live"] /\ status' = [status EXCEPT ![t] = "running"]
  BY DEF SessionStarts
<1>3. queue' = [queue EXCEPT ![t] = IF @ > 0 THEN @ - 1 ELSE 0]
  BY DEF SessionStarts
<1>4. Plain /\ Shape
  BY Parts
<1>5. Plain'
  BY <1>1, <1>2, <1>4 DEF Plain
<1>6. local' \in [Threads -> {"off", "starting", "live", "stopping"}] /\ LocalKeeps(local, local')
  BY <1>2, <1>4 DEF LocalKeeps, Shape
<1>7. queue' \in [Threads -> Nat] /\ \A s \in Threads : queue'[s] + sending'[s] <= events'
  BY <1>1, <1>3, <1>4 DEF Shape
<1>8. Shape'
  BY <1>1, <1>4, <1>6, <1>7 DEF Shape
<1> QED
  BY <1>1, <1>5, <1>6, <1>8, QuietStep

LEMMA CommitKeeps ==
  ASSUME IInv, NEW t \in Threads, LocalCommit(t) \/ CloudCheckpoint(t)
  PROVE  IInv'
<1>1. UNCHANGED <<policy, limited, status, agent, queue, local, run, sending, ahead, lock, hand, mon,
                  rec, events>>
  BY DEF LocalCommit, CloudCheckpoint, db, procs
<1>2. diverged' = diverged \cup {t} \/ diverged' = diverged \ {t}
  BY DEF LocalCommit, CloudCheckpoint, PushBranch
<1>3. Plain /\ Shape /\ LocalKeeps(local, local)
  BY Parts
<1>4. Plain'
  BY <1>1, <1>2, <1>3 DEF Plain
<1>5. Shape'
  BY <1>1, <1>3 DEF Shape
<1> QED
  BY <1>1, <1>3, <1>4, <1>5, QuietStep

(* The session that ends is no longer waited for. *)
LEMMA SessionEndsKeeps ==
  ASSUME IInv, NEW t \in Threads, SessionEnds(t)
  PROVE  IInv'
<1>1. UNCHANGED <<policy, limited, agent, queue, run, sending, ahead, diverged, lock, mon, rec, events>>
  BY DEF SessionEnds, git
<1>2. local' = [local EXCEPT ![t] = "off"]
  BY DEF SessionEnds
<1>3. status' = [status EXCEPT ![t] = IF local[t] = "stopping" THEN "paused"
                                      ELSE IF queue[t] > 0 THEN "queued" ELSE "review"]
  BY DEF SessionEnds
<1>4. hand' = [h \in Requesters |-> IF hand[h].t = t THEN [hand[h] EXCEPT !.ses = FALSE] ELSE hand[h]]
  BY DEF SessionEnds
<1>5. Plain /\ Shape
  BY Parts
<1>6. status' \in [Threads -> {"running", "paused", "queued", "review", "running_in_cloud"}]
  BY <1>3, <1>5 DEF Plain
<1>7. Plain'
  BY <1>1, <1>5, <1>6 DEF Plain
<1>8. local' \in [Threads -> {"off", "starting", "live", "stopping"}]
  BY <1>2, <1>5 DEF Shape
<1>9. RunKeeps(run, run') /\ AheadKeeps(run, ahead, ahead')
  BY <1>1, Parts
<1>10. ASSUME NEW h \in Requesters
       PROVE  hand'[h] \in HandRow /\ HandFits(h, hand'[h], lock', run', local', policy'.cap)
  <2>1. /\ hand[h] \in HandRow /\ HandFits(h, hand[h], lock, run, local, policy.cap)
        /\ policy.cap \in Nat /\ \A r \in Runs : RowFits(run[r])
    BY Parts
  <2>2. CASE hand[h].t = t
    <3> DEFINE v == [hand[h] EXCEPT !.ses = FALSE]
    <3>1. hand'[h] = v
      BY <1>4, <2>2
    <3>2. v \in HandRow
      BY <2>1 DEF HandRow
    <3>3. v.pc = hand[h].pc /\ v.t = hand[h].t /\ v.ag = hand[h].ag /\ v.left = hand[h].left /\ v.r = hand[h].r
      BY <2>1 DEF HandRow
    <3>4. v.ses = FALSE
      BY <2>1 DEF HandRow
    <3> HIDE DEF v
    <3>5. HandFits(h, v, lock, run, local', policy.cap)
      BY <2>1, <3>3, <3>4 DEF HandFits
    <3> QED
      BY <1>1, <3>1, <3>2, <3>5
  <2>3. CASE hand[h].t # t
    <3>1. hand'[h] = hand[h]
      BY <1>4, <2>3
    <3>2. local'[hand[h].t] = local[hand[h].t] \/ hand[h].t \notin Threads
      BY <1>2, <1>5, <2>3 DEF Shape
    <3>3. HandFits(h, hand[h], lock, run, local', policy.cap)
      BY <2>1, <3>2 DEF HandFits
    <3> QED
      BY <1>1, <2>1, <3>1, <3>3
  <2> QED
    BY <2>2, <2>3
<1>11. HandsFit'
  BY <1>10 DEF HandsFit
<1>12. hand' \in [Requesters -> HandRow]
  BY <1>4, <1>10
<1>13. Shape'
  BY <1>1, <1>5, <1>8, <1>12 DEF Shape
<1>14. Arrived' /\ MonFits(mon', run') /\ RecsFit'
  BY <1>1, <1>9, SameArrived, SameMon, SameRecs
<1> QED
  BY <1>1, <1>7, <1>9, <1>11, <1>13, <1>14, Step

(***************************************************************************)
(* The handoff of a thread.                                                *)
(***************************************************************************)

(* A request or a power event gives a requester its first state. *)
LEMMA NewHandKeeps ==
  ASSUME IInv, NEW h \in Requesters, NEW v \in HandRow,
         UNCHANGED <<policy, limited, status, agent, queue, run, local, sending, ahead, diverged, lock,
                     mon, rec>>,
         hand' = [hand EXCEPT ![h] = v], events' \in 0..MaxEvents, events <= events',
         v.pc \in {"idle", "choose", "lock"}, v.pc = "choose" => v.left # <<>>,
         v.pc = "lock" => v.t \in Threads /\ v.ag \in Agents
  PROVE  IInv'
<1>1. Plain /\ Shape /\ LocalKeeps(local, local)
  BY Parts
<1>2. Plain'
  BY <1>1 DEF Plain
<1>3. /\ hand' \in [Requesters -> HandRow] /\ hand'[h] = v
      /\ \A g \in Requesters \ {h} : hand'[g] = hand[g]
  BY <1>1 DEF Shape
<1>4. \A t \in Threads : queue'[t] + sending'[t] <= events'
  BY <1>1 DEF Shape
<1>5. Shape'
  BY <1>1, <1>3, <1>4 DEF Shape
<1>6. HandFits(h, v, lock', run, local', policy.cap)
  BY DEF HandFits, Holding
<1> QED
  BY <1>1, <1>2, <1>3, <1>5, <1>6, HandStep

LEMMA RequestHandoffKeeps ==
  ASSUME IInv, NEW t \in Threads, NEW ag \in Agents, RequestHandoff(t, ag)
  PROVE  IInv'
<1> DEFINE v == [NoHand EXCEPT !.pc = "lock", !.t = t, !.ag = ag]
<1>1. UNCHANGED <<policy, limited, status, agent, queue, run, local, sending, ahead, diverged, lock,
                  mon, rec>>
  BY DEF RequestHandoff, db, git
<1>2. hand' = [hand EXCEPT !["manual"] = v] /\ events < MaxEvents /\ events' = events + 1
  BY DEF RequestHandoff
<1>3. v \in HandRow /\ v.pc = "lock" /\ v.t = t /\ v.ag = ag
  BY NullTypes DEF HandRow, HandPc
<1>4. events' \in 0..MaxEvents /\ events <= events'
  BY <1>2, BoundAssumption, Parts DEF Shape
<1>5. "manual" \in Requesters
  BY DEF Requesters
<1> HIDE DEF v
<1> QED
  BY <1>1, <1>2, <1>3, <1>4, <1>5, NewHandKeeps

LEMMA OrdersAreSequences ==
  \A order \in Orders : order \in Seq(Threads)
<1> SUFFICES ASSUME NEW n \in 1..Cardinality(Threads), NEW order \in [1..n -> Threads]
             PROVE  order \in Seq(Threads)
  BY DEF Orders
<1>1. n \in Nat
  OBVIOUS
<1> QED
  BY <1>1

LEMMA ActiveIsFinite == Cardinality(ActiveRuns) \in Nat /\ IsFiniteSet(ActiveRuns)
<1>1. IsFiniteSet(Runs)
  BY BoundAssumption, FS_Interval DEF Runs
<1>2. ActiveRuns \subseteq Runs
  BY DEF ActiveRuns
<1> QED
  BY <1>1, <1>2, FS_Subset, FS_CardinalityType

LEMMA PowerEventKeeps ==
  ASSUME IInv, NEW h \in PowerRequesters, NEW order \in Orders, NEW found \in Probes,
         NEW trigger \in PowerSignals(h), PowerEvent(h, trigger, order, found)
  PROVE  IInv'
<1> DEFINE v == [NoHand EXCEPT !.pc = "choose", !.trigger = trigger, !.left = order,
                               !.ready = CloudAvailability(found), !.count = Cardinality(ActiveRuns)]
<1>1. UNCHANGED <<policy, limited, status, agent, queue, run, local, sending, ahead, diverged, lock,
                  mon, rec>>
  BY DEF PowerEvent, db, git
<1>2. hand' = [hand EXCEPT ![h] = v] /\ events < MaxEvents /\ events' = events + 1 /\ order # <<>>
  BY DEF PowerEvent
<1>3. trigger \in {"manual", "sleep", "shutdown"} /\ h \in Requesters
  BY DEF PowerSignals, Requesters
<1>4. CloudAvailability(found) \subseteq Agents
  BY DEF CloudAvailability
<1>5. order \in Seq(Threads)
  BY OrdersAreSequences
<1>6. v \in HandRow /\ v.pc = "choose" /\ v.left = order
  BY <1>3, <1>4, <1>5, ActiveIsFinite DEF NoHand, HandRow, HandPc
<1>7. events' \in 0..MaxEvents /\ events <= events'
  BY <1>2, BoundAssumption, Parts DEF Shape
<1> HIDE DEF v
<1> QED
  BY <1>1, <1>2, <1>3, <1>6, <1>7, NewHandKeeps

(* Whatever cloud_decision launches is the thread's agent or was ready. *)
LEMMA DecisionIsAgent ==
  ASSUME NEW trigger, NEW ag \in Agents, NEW ready, ready \subseteq Agents, NEW active,
         CloudDecision(trigger, ag, ready, active) # None
  PROVE  CloudDecision(trigger, ag, ready, active) \in Agents
<1> DEFINE d == CloudDecision(trigger, ag, ready, active)
           i == CHOOSE j \in Preferred(ready) : TRUE
           other == CHOOSE a \in ready : TRUE
<1>1. \/ d = None \/ d = ag
      \/ ready # {} /\ Preferred(ready) = {} /\ d = other
      \/ Preferred(ready) # {} /\ d = policy.priority[i]
  BY DEF CloudDecision
<1>2. ready # {} => other \in ready
  OBVIOUS
<1>3. Preferred(ready) # {} => i \in Preferred(ready)
  OBVIOUS
<1>4. Preferred(ready) # {} => policy.priority[i] \in ready
  BY <1>3 DEF Preferred
<1> HIDE DEF d, i, other
<1>5. d # None => d \in Agents
  BY <1>1, <1>2, <1>4
<1> QED
  BY <1>5 DEF d

LEMMA ChooseThreadKeeps ==
  ASSUME IInv, NEW h \in PowerRequesters, ChooseThread(h)
  PROVE  IInv'
<1> DEFINE p == hand[h]
           t == Head(p.left)
           target == CloudDecision(p.trigger, agent[t], p.ready, p.count)
           n == IF Tail(p.left) = <<>> THEN 0 ELSE p.count + 1
           rest == [p EXCEPT !.left = Tail(p.left), !.count = n]
           ready == IF rest.left = <<>> THEN {} ELSE rest.ready
           w == [rest EXCEPT !.pc = "lock", !.t = t, !.ag = target, !.ready = ready]
           v == IF target # None THEN w ELSE IF rest.left # <<>> THEN rest ELSE NoHand
<1>1. UNCHANGED <<policy, limited, status, agent, queue, run, local, sending, ahead, diverged, lock,
                  mon, rec, events>>
  BY DEF ChooseThread, db, git
<1>2. hand' = [hand EXCEPT ![h] = v] /\ p.pc = "choose"
  BY DEF ChooseThread
<1>3. h \in Requesters
  BY DEF Requesters
<1>4. p \in HandRow /\ HandFits(h, p, lock, run, local, policy.cap)
  BY <1>3, Parts
<1>5. p.left \in Seq(Threads) /\ p.left # <<>> /\ p.ready \subseteq Agents /\ p.count \in Nat
  BY <1>2, <1>4 DEF HandRow, HandFits
<1>6. t \in Threads /\ Tail(p.left) \in Seq(Threads)
  BY <1>5
<1>7. agent[t] \in Agents
  BY <1>6, Parts DEF Plain
<1>8. target # None => target \in Agents
  BY <1>5, <1>7, DecisionIsAgent
<1>9. n \in Nat
  BY <1>5
<1>10. events \in 0..MaxEvents /\ events <= events
  BY Parts DEF Shape
<1> HIDE DEF target, n, t
<1>11. rest \in HandRow /\ rest.pc = "choose" /\ rest.left = Tail(p.left)
  BY <1>2, <1>4, <1>6, <1>9 DEF HandRow
<1> HIDE DEF p, rest
<1>12. ready \subseteq Agents
  BY <1>11 DEF HandRow
<1> HIDE DEF ready
<1>13. target # None => w \in HandRow /\ w.pc = "lock" /\ w.t = t /\ w.ag = target
  BY <1>6, <1>8, <1>11, <1>12 DEF HandRow, HandPc
<1> HIDE DEF w
<1>14. v \in HandRow
  BY <1>11, <1>13, NullTypes
<1>15. /\ v.pc \in {"idle", "choose", "lock"}
       /\ v.pc = "choose" => v.left # <<>>
       /\ v.pc = "lock" => v.t \in Threads /\ v.ag \in Agents
  <2>1. NoHand.pc = "idle"
    BY DEF NoHand
  <2> QED
    BY <1>6, <1>8, <1>11, <1>13, <2>1
<1> HIDE DEF v
<1> QED
  BY <1>1, <1>2, <1>3, <1>10, <1>14, <1>15, NewHandKeeps

(* A step of the requester to another point of the handoff. *)
LEMMA GotoKeeps ==
  ASSUME IInv, NEW h \in Requesters, NEW pc \in HandPc, Goto(h, pc),
         UNCHANGED <<policy, limited, status, agent, queue, run, local, sending, ahead, mon, rec, events>>,
         lock' \in Requesters \cup {None}, \A g \in Requesters \ {h} : lock = g => lock' = g,
         diverged' \subseteq Threads,
         HandFits(h, [hand[h] EXCEPT !.pc = pc], lock', run, local, policy.cap)
  PROVE  IInv'
<1>1. Plain /\ Shape /\ LocalKeeps(local, local)
  BY Parts
<1>2. /\ hand' \in [Requesters -> HandRow]
      /\ hand'[h] = [hand[h] EXCEPT !.pc = pc]
      /\ \A g \in Requesters \ {h} : hand'[g] = hand[g]
  BY <1>1, GotoTypes DEF Shape
<1>3. Plain'
  BY <1>1 DEF Plain
<1>4. Shape'
  BY <1>1, <1>2 DEF Shape
<1> QED
  BY <1>1, <1>2, <1>3, <1>4, HandStep

(* A step that ends the requester's handoff. *)
LEMMA ReleaseKeeps ==
  ASSUME IInv, NEW h \in Requesters, Release(h),
         UNCHANGED <<policy, queue, run, local, sending, ahead, mon, rec, events>>,
         limited' \subseteq Agents, diverged' \subseteq Threads,
         status' \in [Threads -> {"running", "paused", "queued", "review", "running_in_cloud"}],
         agent' \in [Threads -> Agents]
  PROVE  IInv'
<1>1. Plain /\ Shape /\ LocalKeeps(local, local)
  BY Parts
<1>2. /\ HandFits(h, hand'[h], lock', run, local', policy.cap)
      /\ \A g \in Requesters \ {h} : hand'[g] = hand[g] /\ (lock = g => lock' = g)
      /\ hand' \in [Requesters -> HandRow] /\ lock' \in Requesters \cup {None}
  BY ReleaseFits
<1>3. Plain'
  BY <1>1, <1>2 DEF Plain
<1>4. Shape'
  BY <1>1, <1>2 DEF Shape
<1> QED
  BY <1>1, <1>2, <1>3, <1>4, HandStep

LEMMA Pcs ==
  ASSUME NEW v \in HandRow, NEW pc
  PROVE  LET w == [v EXCEPT !.pc = pc] IN
         w.pc = pc /\ w.t = v.t /\ w.ag = v.ag /\ w.left = v.left /\ w.ses = v.ses /\ w.r = v.r
BY DEF HandRow

(* Behind the gate no row is open that was not counted. *)
LEMMA CheckKeeps ==
  ASSUME IInv, NEW h \in Requesters, Check(h)
  PROVE  IInv'
<1>1. UNCHANGED <<policy, limited, status, agent, queue, run, local, sending, ahead, diverged, mon,
                  rec, events>>
  BY DEF Check, db, git
<1>2. hand[h].pc = "lock" /\ lock = None
  BY DEF Check
<1>3. /\ Plain /\ Shape /\ policy.cap \in Nat
      /\ hand[h] \in HandRow /\ HandFits(h, hand[h], lock, run, local, policy.cap)
  BY Parts
<1>4. CASE Release(h)
  BY <1>1, <1>3, <1>4, ReleaseKeeps DEF Plain
<1>5. ASSUME ActiveFor(hand[h].t) = {}, Cardinality(ActiveRuns) < policy.cap, lock' = h,
             NEW pc \in {"approval", "stop"}, Goto(h, pc)
      PROVE  IInv'
  <2>1. Open(run) \subseteq ActiveRuns
    BY DEF Open, ActiveRuns, Active
  <2>2. Cardinality(Open(run)) <= Cardinality(ActiveRuns)
    BY <2>1, ActiveIsFinite, FS_Subset
  <2>3. Cardinality(Open(run)) < policy.cap
    BY <1>3, <1>5, <2>2, ActiveIsFinite, OpenIsFinite
  <2>4. \A r \in Open(run) : run[r].t # hand[h].t
    BY <1>5, <2>1 DEF ActiveFor
  <2>5. hand[h].t \in Threads /\ hand[h].ag \in Agents
    BY <1>2, <1>3 DEF HandFits
  <2> DEFINE w == [hand[h] EXCEPT !.pc = pc]
  <2>6. w.pc = pc /\ w.t = hand[h].t /\ w.ag = hand[h].ag
    BY <1>3, Pcs
  <2> HIDE DEF w
  <2>7. HandFits(h, w, lock', run, local, policy.cap)
    BY <1>5, <2>3, <2>4, <2>5, <2>6 DEF HandFits, Holding
  <2>8. pc \in HandPc /\ \A g \in Requesters \ {h} : lock = g => lock' = g
    BY <1>2, <1>5 DEF HandPc, None, Requesters, PowerRequesters
  <2> QED
    BY <1>1, <1>3, <1>5, <2>7, <2>8, GotoKeeps DEF Plain, w
<1>6. Release(h) \/ (/\ ActiveFor(hand[h].t) = {} /\ Cardinality(ActiveRuns) < policy.cap /\ lock' = h
                     /\ \E pc \in {"approval", "stop"} : Goto(h, pc))
  BY DEF Check
<1> QED
  BY <1>4, <1>5, <1>6

LEMMA ApprovalKeeps ==
  ASSUME IInv, NEW h \in Requesters, Approval(h)
  PROVE  IInv'
<1>1. UNCHANGED <<policy, limited, status, agent, queue, run, local, sending, ahead, diverged, mon,
                  rec, events>>
  BY DEF Approval, db, git
<1>2. hand[h].pc = "approval"
  BY DEF Approval
<1>3. /\ Plain /\ Shape
      /\ hand[h] \in HandRow /\ HandFits(h, hand[h], lock, run, local, policy.cap)
  BY Parts
<1>4. CASE Release(h)
  BY <1>1, <1>3, <1>4, ReleaseKeeps DEF Plain
<1>5. CASE Goto(h, "stop") /\ lock' = lock
  <2> DEFINE w == [hand[h] EXCEPT !.pc = "stop"]
  <2>1. w.pc = "stop" /\ w.t = hand[h].t /\ w.ag = hand[h].ag
    BY <1>3, Pcs
  <2> HIDE DEF w
  <2>2. HandFits(h, w, lock, run, local, policy.cap)
    BY <1>2, <1>3, <2>1 DEF HandFits, Holding
  <2> QED
    BY <1>1, <1>3, <1>5, <2>2, GotoKeeps DEF Plain, w, HandPc
<1> QED
  BY <1>4, <1>5 DEF Approval

(* The session is asked to stop, and waited for if there is one. *)
LEMMA StopLocalKeeps ==
  ASSUME IInv, NEW h \in Requesters, StopLocal(h)
  PROVE  IInv'
<1> DEFINE t == hand[h].t
           pc == IF IsActive(t) THEN "settle" ELSE "push"
           b == IsActive(t)
           v == [hand[h] EXCEPT !.pc = pc, !.ses = b]
<1>1. UNCHANGED <<policy, limited, status, agent, queue, run, sending, ahead, diverged, lock, mon,
                  rec, events>>
  BY DEF StopLocal, db, git
<1>2. hand[h].pc = "stop" /\ local' = [local EXCEPT ![t] = IF @ = "live" THEN "stopping" ELSE @]
  BY DEF StopLocal
<1>3. /\ Plain /\ Shape
      /\ hand[h] \in HandRow /\ HandFits(h, hand[h], lock, run, local, policy.cap)
  BY Parts
<1>4. hand' = [hand EXCEPT ![h] = v]
  BY <1>3 DEF StopLocal, Shape
<1>5. /\ v \in HandRow /\ v.pc = pc /\ v.t = t /\ v.ag = hand[h].ag
      /\ v.ses = b
  <2>1. b \in BOOLEAN /\ pc \in HandPc
    BY DEF IsActive, HandPc
  <2> HIDE DEF b, pc
  <2> QED
    BY <1>3, <2>1 DEF HandRow
<1>6. t \in Threads
  BY <1>2, <1>3 DEF HandFits
<1>7. local' \in [Threads -> {"off", "starting", "live", "stopping"}] /\ LocalKeeps(local, local')
  BY <1>2, <1>3 DEF Shape, LocalKeeps
<1>8. IsActive(t) => local'[t] \in {"live", "stopping"}
  BY <1>6, <1>7 DEF LocalKeeps, IsActive
<1>9. pc = "settle" \/ (pc = "push" /\ ~IsActive(t))
  OBVIOUS
<1> HIDE DEF v, pc
<1>10. /\ hand' \in [Requesters -> HandRow] /\ hand'[h] = v
       /\ \A g \in Requesters \ {h} : hand'[g] = hand[g]
  BY <1>3, <1>4, <1>5 DEF Shape
<1>11. HandFits(h, v, lock', run, local', policy.cap)
  BY <1>1, <1>2, <1>3, <1>5, <1>8, <1>9 DEF HandFits, Holding
<1>12. Plain'
  BY <1>1, <1>3 DEF Plain
<1>13. Shape'
  BY <1>1, <1>3, <1>7, <1>10 DEF Shape
<1> QED
  BY <1>1, <1>7, <1>10, <1>11, <1>12, <1>13, HandStep

LEMMA SettleKeeps ==
  ASSUME IInv, NEW h \in Requesters, Settle(h)
  PROVE  IInv'
<1>1. UNCHANGED <<policy, limited, status, agent, queue, run, local, sending, ahead, diverged, mon,
                  rec, events>>
  BY DEF Settle, db, git
<1>2. hand[h].pc = "settle"
  BY DEF Settle
<1>3. /\ Plain /\ Shape
      /\ hand[h] \in HandRow /\ HandFits(h, hand[h], lock, run, local, policy.cap)
  BY Parts
<1>4. CASE Release(h)
  BY <1>1, <1>3, <1>4, ReleaseKeeps DEF Plain
<1>5. CASE ~IsActive(hand[h].t) /\ Goto(h, "push") /\ lock' = lock
  <2> DEFINE w == [hand[h] EXCEPT !.pc = "push"]
  <2>1. w.pc = "push" /\ w.t = hand[h].t /\ w.ag = hand[h].ag /\ w.ses = hand[h].ses
    BY <1>3, Pcs
  <2>2. ~hand[h].ses
    BY <1>2, <1>3, <1>5 DEF HandFits, IsActive
  <2> HIDE DEF w
  <2>3. HandFits(h, w, lock, run, local, policy.cap)
    BY <1>2, <1>3, <2>1, <2>2 DEF HandFits, Holding
  <2> QED
    BY <1>1, <1>3, <1>5, <2>3, GotoKeeps DEF Plain, w, HandPc
<1> QED
  BY <1>4, <1>5 DEF Settle

LEMMA CheckpointKeeps ==
  ASSUME IInv, NEW h \in Requesters, Checkpoint(h)
  PROVE  IInv'
<1>1. UNCHANGED <<policy, limited, status, agent, queue, run, local, sending, ahead, mon, rec, events>>
  BY DEF Checkpoint, db
<1>2. hand[h].pc = "push"
  BY DEF Checkpoint
<1>3. /\ Plain /\ Shape
      /\ hand[h] \in HandRow /\ HandFits(h, hand[h], lock, run, local, policy.cap)
  BY Parts
<1>4. hand[h].t \in Threads
  BY <1>2, <1>3 DEF HandFits
<1>5. diverged' \subseteq Threads
  BY <1>3, <1>4 DEF Checkpoint, CommitAll, PushBranch, Plain
<1>6. CASE Release(h)
  BY <1>1, <1>3, <1>5, <1>6, ReleaseKeeps DEF Plain
<1>7. CASE Goto(h, "launch") /\ lock' = lock
  <2> DEFINE w == [hand[h] EXCEPT !.pc = "launch"]
  <2>1. w.pc = "launch" /\ w.t = hand[h].t /\ w.ag = hand[h].ag /\ w.ses = hand[h].ses
    BY <1>3, Pcs
  <2> HIDE DEF w
  <2>2. HandFits(h, w, lock, run, local, policy.cap)
    BY <1>2, <1>3, <2>1 DEF HandFits, Holding
  <2> QED
    BY <1>1, <1>3, <1>5, <1>7, <2>2, GotoKeeps DEF Plain, w, HandPc
<1> QED
  BY <1>6, <1>7 DEF Checkpoint

(* A task that was launched takes the first unused row; nothing open changes. *)
LEMMA LaunchRow ==
  ASSUME IInv, NEW h \in Requesters, hand[h].pc = "launch", Unused # {},
         run' = [run EXCEPT ![NewRun] =
                   [NoRun EXCEPT !.t = hand[h].t, !.ag = hand[h].ag, !.prov = "working"]]
  PROVE  /\ run' \in [Runs -> RunRow] /\ NewRun \in Runs
         /\ run'[NewRun].t = hand[h].t /\ run'[NewRun].st = None /\ run'[NewRun].prov = "working"
         /\ RunKeeps(run, run')
         /\ \A r \in Runs : run'[r].st = "reclaimed" => run'[r] = run[r]
<1> DEFINE v == [NoRun EXCEPT !.t = hand[h].t, !.ag = hand[h].ag, !.prov = "working"]
<1>1. hand[h] \in HandRow /\ HandFits(h, hand[h], lock, run, local, policy.cap)
  BY Parts
<1>2. hand[h].t \in Threads /\ hand[h].ag \in Agents
  BY <1>1 DEF HandFits
<1>3. v \in RunRow /\ v.t = hand[h].t /\ v.st = None /\ v.prov = "working" /\ ~v.closed
  BY <1>2 DEF NoRun, RunRow, Statuses, Reasons
<1>4. NewRun \in Runs /\ run[NewRun].prov = None
  BY NewRunIsUnused
<1> HIDE DEF v
<1>5. run' = [run EXCEPT ![NewRun] = v] /\ run \in [Runs -> RunRow]
  BY Parts DEF v, Shape
<1>6. /\ run' \in [Runs -> RunRow] /\ run'[NewRun] = v
      /\ \A q \in Runs \ {NewRun} : run'[q] = run[q]
  BY <1>3, <1>4, <1>5, RunTypes
<1>7. RowFits(run[NewRun]) /\ run[NewRun].st = None
  BY <1>4, Parts DEF RowFits
<1>8. RowFits(v)
  BY <1>2, <1>3 DEF RowFits, None, ClosedStatus
<1>9. RowKeeps(run[NewRun], v)
  BY <1>3, <1>4, <1>7, <1>8, Distinct DEF RowKeeps
<1>10. RunKeeps(run, run')
  BY <1>4, <1>6, <1>9, OneRow, Parts
<1>11. \A r \in Runs : run'[r].st = "reclaimed" => run'[r] = run[r]
  BY <1>3, <1>6 DEF None
<1> QED
  BY <1>3, <1>4, <1>6, <1>10, <1>11

LEMMA LaunchKeeps ==
  ASSUME IInv, NEW h \in Requesters, Launch(h)
  PROVE  IInv'
<1> DEFINE v == [hand[h] EXCEPT !.pc = "record", !.r = NewRun]
<1>1. UNCHANGED <<policy, limited, status, agent, queue, local, sending, ahead, diverged, lock, mon,
                  rec, events>>
  BY DEF Launch, git
<1>2. hand[h].pc = "launch" /\ Unused # {}
  BY DEF Launch
<1>3. run' = [run EXCEPT ![NewRun] =
                [NoRun EXCEPT !.t = hand[h].t, !.ag = hand[h].ag, !.prov = "working"]]
  BY DEF Launch
<1>4. /\ run' \in [Runs -> RunRow] /\ NewRun \in Runs
      /\ run'[NewRun].t = hand[h].t /\ run'[NewRun].st = None /\ run'[NewRun].prov = "working"
      /\ RunKeeps(run, run')
      /\ \A r \in Runs : run'[r].st = "reclaimed" => run'[r] = run[r]
  BY <1>2, <1>3, LaunchRow
<1>5. /\ Plain /\ Shape /\ LocalKeeps(local, local) /\ policy.cap \in Nat
      /\ AheadKeeps(run, ahead, ahead) /\ \A r \in Runs : RowFits(run[r])
      /\ hand[h] \in HandRow /\ HandFits(h, hand[h], lock, run, local, policy.cap)
  BY Parts
<1>6. hand' = [hand EXCEPT ![h] = v]
  BY <1>5 DEF Launch, Shape
<1>7. /\ v \in HandRow /\ v.pc = "record" /\ v.r = NewRun /\ v.t = hand[h].t /\ v.ag = hand[h].ag
      /\ v.ses = hand[h].ses
  BY <1>4, <1>5 DEF HandRow, HandPc
<1> HIDE DEF v
<1>8. /\ hand' \in [Requesters -> HandRow] /\ hand'[h] = v
      /\ \A g \in Requesters \ {h} : hand'[g] = hand[g]
  BY <1>5, <1>6, <1>7 DEF Shape
<1>9. HandFits(h, hand[h], lock, run', local, policy.cap)
  BY <1>2, <1>4, <1>5, HandKept
<1>10. HandFits(h, v, lock', run', local', policy.cap)
  <2>1. run'[v.r].t = v.t /\ run'[v.r].st = None /\ run'[v.r].prov # None /\ v.r \in Runs
    BY <1>4, <1>7 DEF None
  <2> QED
    BY <1>1, <1>2, <1>7, <1>9, <2>1 DEF HandFits, Holding
<1>11. HandsFit'
  BY <1>1, <1>4, <1>5, <1>8, <1>10, OneHand
<1>12. Arrived' /\ MonFits(mon', run') /\ RecsFit'
  BY <1>1, <1>4, <1>5, SameArrived, SameMon, SameRecs
<1>13. Plain'
  BY <1>1, <1>5 DEF Plain
<1>14. Shape'
  BY <1>1, <1>4, <1>5, <1>8 DEF Shape
<1> QED
  BY <1>1, <1>4, <1>11, <1>12, <1>13, <1>14, Step

LEMMA LaunchUnseenKeeps ==
  ASSUME IInv, NEW h \in Requesters, LaunchUnseen(h)
  PROVE  IInv'
<1>1. UNCHANGED <<policy, limited, status, agent, queue, local, sending, ahead, diverged, mon, rec, events>>
  BY DEF LaunchUnseen, git
<1>2. hand[h].pc = "launch" /\ Unused # {} /\ Release(h)
  BY DEF LaunchUnseen
<1>3. run' = [run EXCEPT ![NewRun] =
                [NoRun EXCEPT !.t = hand[h].t, !.ag = hand[h].ag, !.prov = "working"]]
  BY DEF LaunchUnseen
<1>4. /\ run' \in [Runs -> RunRow] /\ RunKeeps(run, run')
      /\ \A r \in Runs : run'[r].st = "reclaimed" => run'[r] = run[r]
  BY <1>2, <1>3, LaunchRow
<1>5. Plain /\ Shape /\ LocalKeeps(local, local) /\ AheadKeeps(run, ahead, ahead)
  BY Parts
<1>6. /\ HandFits(h, hand'[h], lock', run', local', policy.cap)
      /\ \A g \in Requesters \ {h} : hand'[g] = hand[g] /\ (lock = g => lock' = g)
      /\ hand' \in [Requesters -> HandRow] /\ lock' \in Requesters \cup {None}
  BY <1>2, ReleaseFits
<1>7. HandsFit'
  BY <1>1, <1>4, <1>5, <1>6, OneHand
<1>8. Arrived' /\ MonFits(mon', run') /\ RecsFit'
  BY <1>1, <1>4, <1>5, SameArrived, SameMon, SameRecs
<1>9. Plain'
  BY <1>1, <1>5, <1>6 DEF Plain
<1>10. Shape'
  BY <1>1, <1>4, <1>5, <1>6 DEF Shape
<1> QED
  BY <1>1, <1>4, <1>7, <1>8, <1>9, <1>10, Step

LEMMA LaunchFailsKeeps ==
  ASSUME IInv, NEW h \in Requesters, LaunchFails(h)
  PROVE  IInv'
<1>1. UNCHANGED <<policy, status, agent, queue, run, local, sending, ahead, diverged, mon, rec, events>>
  BY DEF LaunchFails, git
<1>2. hand[h].pc = "launch" /\ Release(h) /\ limited' \in {limited, limited \cup {hand[h].ag}}
  BY DEF LaunchFails
<1>3. Plain /\ HandFits(h, hand[h], lock, run, local, policy.cap)
  BY Parts
<1>4. hand[h].ag \in Agents
  BY <1>2, <1>3 DEF HandFits
<1> QED
  BY <1>1, <1>2, <1>3, <1>4, ReleaseKeeps DEF Plain

LEMMA SaveThreadKeeps ==
  ASSUME IInv, NEW h \in Requesters, SaveThread(h)
  PROVE  IInv'
<1>1. UNCHANGED <<policy, limited, queue, run, local, sending, ahead, diverged, mon, rec, events>>
  BY DEF SaveThread, git
<1>2. /\ hand[h].pc = "save" /\ Release(h)
      /\ status' = [status EXCEPT ![hand[h].t] = "running_in_cloud"]
      /\ agent' = [agent EXCEPT ![hand[h].t] = hand[h].ag]
  BY DEF SaveThread
<1>3. Plain /\ HandFits(h, hand[h], lock, run, local, policy.cap)
  BY Parts
<1>4. hand[h].ag \in Agents
  BY <1>2, <1>3 DEF HandFits
<1> QED
  BY <1>1, <1>2, <1>3, <1>4, ReleaseKeeps DEF Plain

(* The record of a run: the one step that opens a row. *)
LEMMA RecordKeeps ==
  ASSUME IInv, NEW h \in Requesters, Record(h)
  PROVE  IInv'
<1> DEFINE r == hand[h].r
           v == [run[r] EXCEPT !.st = "provisioning"]
           w == [hand[h] EXCEPT !.pc = "save"]
<1>1. UNCHANGED <<policy, limited, status, agent, queue, local, sending, ahead, diverged, lock, mon,
                  rec, events>>
  BY DEF Record, git
<1>2. hand[h].pc = "record" /\ Goto(h, "save")
  BY DEF Record
<1>3. /\ Plain /\ Shape /\ policy.cap \in Nat
      /\ \A q \in Runs : RowFits(run[q])
      /\ \A g \in Requesters : hand[g] \in HandRow /\ HandFits(g, hand[g], lock, run, local, policy.cap)
  BY Parts
<1>4. /\ r \in Runs /\ run[r].t = hand[h].t /\ run[r].st = None /\ run[r].prov # None
      /\ lock = h /\ hand[h].t \in Threads /\ hand[h].ag \in Agents /\ ~hand[h].ses
      /\ Cardinality(Open(run)) < policy.cap /\ \A q \in Open(run) : run[q].t # hand[h].t
  BY <1>2, <1>3 DEF HandFits, Holding
<1>5. run[r] \in RunRow
  BY <1>3, <1>4 DEF Shape
<1>6. run' = [run EXCEPT ![r] = v]
  BY <1>3, <1>4 DEF Record, Shape
<1>7. /\ v \in RunRow /\ v.st = "provisioning" /\ v.t = run[r].t /\ v.prov = run[r].prov
      /\ v.closed = run[r].closed /\ v.why = run[r].why
  BY <1>5 DEF RunRow, Statuses, ActiveStatus
<1> HIDE DEF v, r
<1>8. /\ run' \in [Runs -> RunRow] /\ run'[r] = v
      /\ \A q \in Runs \ {r} : run'[q] = run[q]
  BY <1>3, <1>4, <1>6, <1>7, RunTypes DEF Shape
<1>9. RowsFit'
  <2>1. RowFits(v)
    BY <1>3, <1>4, <1>7 DEF RowFits, ClosedStatus
  <2> QED
    BY <1>3, <1>8, <2>1 DEF RowsFit
<1>10. Arrived'
  <2>1. \A q \in Runs : HasArrived(run[q], q, ahead)
    BY DEF IInv, Arrived
  <2>2. HasArrived(v, r, ahead)
    BY <1>7 DEF HasArrived
  <2> QED
    BY <1>1, <1>8, <2>1, <2>2 DEF Arrived
<1>11. OpenFits(run', policy'.cap)
  <2>1. Open(run') \subseteq Open(run) \cup {r}
    BY <1>8 DEF Open
  <2>2. r \notin Open(run)
    BY <1>4, Distinct DEF Open
  <2>3. IsFiniteSet(Open(run)) /\ Cardinality(Open(run)) \in Nat
    BY OpenIsFinite
  <2>4. IsFiniteSet(Open(run) \cup {r}) /\ Cardinality(Open(run) \cup {r}) = Cardinality(Open(run)) + 1
    BY <2>2, <2>3, FS_AddElement
  <2>5. Cardinality(Open(run')) <= Cardinality(Open(run) \cup {r})
    BY <2>1, <2>4, FS_Subset
  <2>6. Cardinality(Open(run')) \in Nat
    BY OpenIsFinite
  <2>7. Cardinality(Open(run')) <= policy.cap
    BY <1>3, <1>4, <2>3, <2>4, <2>5, <2>6
  <2>8. ASSUME NEW p \in Open(run'), NEW q \in Open(run'), run'[p].t = run'[q].t PROVE p = q
    <3>1. p \in Runs /\ q \in Runs
      BY DEF Open
    <3>2. \A x \in Runs : run'[x].t = run[x].t
      BY <1>7, <1>8
    <3>3. \A x, y \in Open(run) : run[x].t = run[y].t => x = y
      BY DEF IInv, OpenFits
    <3>4. (p \in Open(run) \/ p = r) /\ (q \in Open(run) \/ q = r)
      BY <2>1
    <3>5. run[p].t = run[q].t
      BY <2>8, <3>1, <3>2
    <3> QED
      BY <1>4, <3>3, <3>4, <3>5
  <2> QED
    BY <1>1, <2>7, <2>8 DEF OpenFits
<1>12. /\ hand' \in [Requesters -> HandRow] /\ hand'[h] = w
       /\ \A g \in Requesters \ {h} : hand'[g] = hand[g]
  BY <1>2, <1>3, GotoTypes DEF Shape, HandPc
<1>13. HandsFit'
  <2> SUFFICES ASSUME NEW g \in Requesters
               PROVE  HandFits(g, hand'[g], lock', run', local', policy'.cap)
    BY DEF HandsFit
  <2>1. CASE g = h
    <3>1. w.pc = "save" /\ w.t = hand[h].t /\ w.ag = hand[h].ag /\ w.ses = hand[h].ses
      BY <1>3, Pcs
    <3> HIDE DEF w
    <3> QED
      BY <1>1, <1>4, <1>12, <2>1, <3>1 DEF HandFits, Holding
  <2>2. CASE g # h
    <3>1. HandFits(g, hand[g], lock, run, local, policy.cap)
      BY <1>3
    <3>2. hand[g].pc \notin Holding
      BY <1>4, <2>2, <3>1 DEF HandFits
    <3>3. HandFits(g, hand[g], lock, run', local, policy.cap)
      BY <3>1, <3>2 DEF HandFits, Holding
    <3> QED
      BY <1>1, <1>12, <2>2, <3>3
  <2> QED
    BY <2>1, <2>2
<1>14. \A q \in Runs : Started(q, run) => Started(q, run') /\ run'[q].prov = run[q].prov
  BY <1>7, <1>8 DEF Started, None
<1>15. MonFits(mon', run')
  <2>1. MonFits(mon, run)
    BY DEF IInv
  <2> QED
    BY <1>1, <1>14, <2>1 DEF MonFits, Started
<1>16. RecsFit'
  <2> SUFFICES ASSUME NEW p \in Reclaimers PROVE RecFits(rec[p], run', ahead)
    BY <1>1 DEF RecsFit
  <2>1. RecFits(rec[p], run, ahead)
    BY DEF IInv, RecsFit
  <2> QED
    BY <1>14, <2>1 DEF RecFits, Started
<1>17. Plain'
  BY <1>1, <1>3 DEF Plain
<1>18. Shape'
  BY <1>1, <1>3, <1>8, <1>12 DEF Shape
<1>19. TypeOK'
  BY <1>17, <1>18, TypesSuffice, PTL
<1> QED
  BY <1>9, <1>10, <1>11, <1>13, <1>15, <1>16, <1>18, <1>19 DEF IInv

(***************************************************************************)
(* The provider, the monitor and the reclaimers.                           *)
(***************************************************************************)

(* A step that writes one row and leaves the requesters alone. *)
LEMMA RowStep ==
  ASSUME IInv, NEW r \in Runs, NEW v \in RunRow, run' = [run EXCEPT ![r] = v],
         UNCHANGED <<policy, limited, status, agent, queue, local, sending, diverged, lock, hand, events>>,
         ahead' \subseteq Runs, mon' \in MonRow, rec' \in [Reclaimers -> RecRow],
         RowKeeps(run[r], v), AheadKeeps(run, ahead, ahead'), HasArrived(v, r, ahead'),
         MonFits(mon', run'), RunKeeps(run, run') => RecsFit'
  PROVE  IInv'
<1>1. Plain /\ Shape /\ LocalKeeps(local, local) /\ \A q \in Runs : RowFits(run[q])
  BY Parts
<1>2. /\ run' \in [Runs -> RunRow] /\ run'[r] = v
      /\ \A q \in Runs \ {r} : run'[q] = run[q]
  BY <1>1, RunTypes DEF Shape
<1>3. RunKeeps(run, run')
  BY <1>1, <1>2, OneRow
<1>4. HandsFit'
  BY <1>1, <1>3, SameHands
<1>5. Arrived'
  <2> SUFFICES ASSUME NEW q \in Runs PROVE HasArrived(run'[q], q, ahead')
    BY DEF Arrived
  <2>1. CASE q = r
    BY <1>2, <2>1
  <2>2. CASE q # r
    <3>1. run'[q] = run[q] /\ HasArrived(run[q], q, ahead)
      BY <1>2, <2>2 DEF IInv, Arrived
    <3> QED
      BY <1>3, <3>1, ArrivedKept
  <2> QED
    BY <2>1, <2>2
<1>6. Plain'
  BY <1>1 DEF Plain
<1>7. Shape'
  BY <1>1, <1>2 DEF Shape
<1> QED
  BY <1>3, <1>4, <1>5, <1>6, <1>7, Step

(* The fields of a row that a step does not write. *)
LEMMA ProviderKeeps ==
  ASSUME IInv, NEW r \in Runs, CloudPushes(r) \/ \E how \in Endings : CloudEnds(r, how)
  PROVE  IInv'
<1>1. UNCHANGED <<policy, limited, status, agent, queue, local, sending, diverged, lock, hand, mon, rec,
                  events>>
  BY DEF CloudPushes, CloudEnds, git, procs
<1>2. /\ Plain /\ Shape /\ run[r] \in RunRow /\ RowFits(run[r]) /\ AheadKeeps(run, ahead, ahead)
      /\ HasArrived(run[r], r, ahead)
  BY Parts DEF Shape, IInv, Arrived
<1>3. run[r].prov = "working"
  BY DEF CloudPushes, CloudEnds
<1>4. run[r].st # "reclaimed" \/ run[r].why # "completed"
  BY <1>2, <1>3, Distinct DEF HasArrived
<1>5. CASE CloudPushes(r)
  <2> DEFINE v == [run[r] EXCEPT !.unseen = TRUE]
  <2>1. run' = [run EXCEPT ![r] = v] /\ ahead' = ahead \cup {r}
    BY <1>2, <1>5 DEF CloudPushes, Shape
  <2>2. /\ v \in RunRow /\ v.st = run[r].st /\ v.prov = run[r].prov /\ v.t = run[r].t
        /\ v.closed = run[r].closed /\ v.why = run[r].why
    BY <1>2 DEF RunRow
  <2> HIDE DEF v
  <2>3. RowKeeps(run[r], v) /\ HasArrived(v, r, ahead')
    BY <1>2, <1>4, <2>2 DEF RowKeeps, RowFits, HasArrived
  <2>4. AheadKeeps(run, ahead, ahead')
    BY <1>3, <2>1, Distinct DEF AheadKeeps
  <2>5. /\ \A q \in Runs \ {r} : run'[q] = run[q]
        /\ run'[r] = v /\ ahead' \subseteq Runs
    BY <1>2, <2>1 DEF Shape, Plain
  <2>6. RunKeeps(run, run')
    BY <2>3, <2>5, OneRow, Parts
  <2>7. MonFits(mon', run') /\ RecsFit'
    BY <1>1, <2>4, <2>6, SameMon, SameRecs
  <2> QED
    BY <1>1, <1>2, <2>1, <2>2, <2>3, <2>4, <2>5, <2>7, RowStep DEF Shape
<1>6. ASSUME NEW how \in Endings, CloudEnds(r, how) PROVE IInv'
  <2> DEFINE v == [run[r] EXCEPT !.prov = how]
  <2>1. run' = [run EXCEPT ![r] = v] /\ ahead' = ahead
    BY <1>2, <1>6 DEF CloudEnds, Shape, git
  <2>2. how \in Ended
    BY EndingsAssumption DEF Ended
  <2>3. /\ v \in RunRow /\ v.st = run[r].st /\ v.prov = how /\ v.t = run[r].t
        /\ v.closed = run[r].closed /\ v.why = run[r].why
    BY <1>2, <2>2 DEF RunRow
  <2> HIDE DEF v
  <2>4. how # None /\ run[r].prov # None
    BY <1>3, <2>2, Distinct DEF None
  <2>5. RowKeeps(run[r], v) /\ HasArrived(v, r, ahead')
    BY <1>2, <1>4, <2>2, <2>3, <2>4 DEF RowKeeps, RowFits, HasArrived
  <2>6. /\ \A q \in Runs \ {r} : run'[q] = run[q]
        /\ run'[r] = v /\ ahead' \subseteq Runs /\ AheadKeeps(run, ahead, ahead')
    BY <1>2, <2>1 DEF Shape, Plain
  <2>7. RunKeeps(run, run')
    BY <2>5, <2>6, OneRow, Parts
  <2>8. MonFits(mon', run') /\ RecsFit'
    BY <1>1, <2>6, <2>7, SameMon, SameRecs
  <2> QED
    BY <1>1, <1>2, <2>1, <2>3, <2>5, <2>6, <2>8, RowStep DEF Shape
<1> QED
  BY <1>5, <1>6

(* A step of the monitor or of a reclaimer that leaves the rows alone. *)
LEMMA WatchStep ==
  ASSUME IInv, UNCHANGED <<policy, limited, agent, queue, run, local, sending, diverged, lock, hand>>,
         status' \in [Threads -> {"running", "paused", "queued", "review", "running_in_cloud"}],
         events' \in 0..MaxEvents, events <= events',
         ahead' \subseteq Runs, AheadKeeps(run, ahead, ahead'),
         mon' \in MonRow, MonFits(mon', run'), rec' \in [Reclaimers -> RecRow], RecsFit'
  PROVE  IInv'
<1>1. Plain /\ Shape /\ LocalKeeps(local, local) /\ RunKeeps(run, run)
  BY Parts
<1>2. HandsFit' /\ Arrived'
  BY <1>1, SameHands, SameArrived
<1>3. Plain'
  BY <1>1 DEF Plain
<1>4. \A t \in Threads : queue'[t] + sending'[t] <= events'
  BY <1>1 DEF Shape
<1>5. Shape'
  BY <1>1, <1>4 DEF Shape
<1> QED
  BY <1>1, <1>2, <1>3, <1>5, Step

(* The row of the tick that comes next. *)
LEMMA NextRunFits ==
  ASSUME run \in [Runs -> RunRow], NEW left, left \subseteq Runs, NEW rn, \A r \in left : Started(r, rn)
  PROVE  LET m == NextRun([r \in Runs |-> run[r].st], left) IN m \in MonRow /\ MonFits(m, rn)
<1> DEFINE f == [r \in Runs |-> run[r].st]
           m == NextRun(f, left)
<1>1. f \in [Runs -> Statuses]
  BY DEF RunRow
<1> HIDE DEF f
<1>2. m \in MonRow /\ m.left \subseteq left /\ (m.pc # "idle" => m.r \in left) /\ m.pc # "act"
  BY <1>1, NextRunTypes
<1> HIDE DEF m
<1>3. MonFits(m, rn)
  BY <1>2 DEF MonFits
<1> QED
  BY <1>2, <1>3 DEF m, f

LEMMA SkipFits ==
  ASSUME IInv, Skip, RunKeeps(run, run')
  PROVE  mon' \in MonRow /\ MonFits(mon', run')
<1>1. mon \in MonRow /\ run \in [Runs -> RunRow] /\ MonFits(mon, run)
  BY Parts DEF Shape, IInv
<1>2. mon.left \ {mon.r} \subseteq Runs
  BY <1>1 DEF MonRow
<1>3. \A r \in mon.left \ {mon.r} : Started(r, run')
  BY <1>1, StartedKept DEF MonFits
<1> QED
  BY <1>1, <1>2, <1>3, NextRunFits DEF Skip

LEMMA MonitorTickKeeps ==
  ASSUME IInv, MonitorTick
  PROVE  IInv'
<1>1. UNCHANGED <<policy, limited, status, agent, queue, run, local, sending, ahead, diverged, lock, hand,
                  rec, events>>
  BY DEF MonitorTick, db, git
<1>2. Plain /\ Shape /\ RunKeeps(run, run) /\ AheadKeeps(run, ahead, ahead)
  BY Parts
<1>3. ActiveRuns \subseteq Runs /\ \A r \in ActiveRuns : Started(r, run)
  BY Distinct DEF ActiveRuns, Active, Started
<1>4. mon' = NextRun([r \in Runs |-> run[r].st], ActiveRuns)
  BY DEF MonitorTick
<1>5. mon' \in MonRow /\ MonFits(mon', run)
  BY <1>2, <1>3, <1>4, NextRunFits DEF Shape
<1>6. RecsFit'
  BY <1>1, <1>2, SameRecs
<1>7. events <= events
  BY <1>2 DEF Shape
<1> QED
  BY <1>1, <1>2, <1>5, <1>6, <1>7, WatchStep DEF Plain, Shape

(* The answer of the provider is the end of its task, or no end at all. *)
LEMMA ObserveKeeps ==
  ASSUME IInv, NEW seen \in BOOLEAN, NEW answer \in PollStatus, Observe(seen, answer)
  PROVE  IInv'
<1> DEFINE r == mon.r
           u == run[r].unseen /\ ~seen
           v == [run[r] EXCEPT !.unseen = u]
           w == [mon EXCEPT !.pc = "act", !.progress = seen, !.poll = answer]
<1>1. UNCHANGED <<policy, limited, status, agent, queue, local, sending, ahead, diverged, lock, hand,
                  rec, events>>
  BY DEF Observe, git
<1>2. mon.pc = "observe" /\ answer \in Poll(r) /\ mon' = w /\ RecordActivity(r, seen)
  BY DEF Observe
<1>3. /\ Plain /\ Shape /\ mon \in MonRow /\ MonFits(mon, run) /\ AheadKeeps(run, ahead, ahead)
  BY Parts DEF Shape, IInv
<1>4. r \in Runs /\ run[r].st # None
  BY <1>2, <1>3 DEF MonFits, Started
<1>5. run[r] \in RunRow /\ RowFits(run[r]) /\ HasArrived(run[r], r, ahead)
  BY <1>4, Parts DEF Shape, IInv, Arrived
<1>6. run' = [run EXCEPT ![r] = v]
  BY <1>2, <1>3, <1>4 DEF RecordActivity, Shape
<1>7. u \in BOOLEAN
  OBVIOUS
<1>8. answer = "completed" => run[r].prov \in Ended
  BY <1>2 DEF Poll, MapStatus, Ended
<1> HIDE DEF r, u
<1>9. /\ v \in RunRow /\ v.st = run[r].st /\ v.prov = run[r].prov /\ v.t = run[r].t
      /\ v.closed = run[r].closed /\ v.why = run[r].why
  BY <1>5, <1>7 DEF RunRow
<1>10. /\ w \in MonRow /\ w.pc = "act" /\ w.poll = answer /\ w.left = mon.left /\ w.r = r
  BY <1>3 DEF MonRow, r
<1> HIDE DEF v, w
<1>11. RowKeeps(run[r], v) /\ HasArrived(v, r, ahead)
  BY <1>5, <1>9 DEF RowKeeps, RowFits, HasArrived
<1>12. run'[r] = v /\ \A q \in Runs \ {r} : run'[q] = run[q]
  BY <1>3, <1>4, <1>6 DEF Shape
<1>13. RunKeeps(run, run')
  BY <1>4, <1>11, <1>12, OneRow, Parts
<1>14. MonFits(w, run')
  <2>1. \A q \in mon.left : Started(q, run')
    BY <1>3, <1>13, StartedKept DEF MonFits
  <2>2. Started(r, run') /\ (answer = "completed" => run'[r].prov \in Ended)
    BY <1>4, <1>8, <1>9, <1>12 DEF Started
  <2> QED
    BY <1>10, <2>1, <2>2 DEF MonFits
<1>15. RecsFit'
  BY <1>1, <1>3, <1>13, SameRecs
<1> QED
  BY <1>1, <1>2, <1>3, <1>4, <1>6, <1>9, <1>10, <1>11, <1>14, <1>15, RowStep DEF Plain, Shape

(* A reclaimer begins. *)
LEMMA NewRec ==
  ASSUME NEW r \in Runs, NEW why \in Reasons, NEW rn, NEW ah, rn[r].st # None,
         why = "completed" => rn[r].prov \in Ended
  PROVE  LET v == [NoRec EXCEPT !.pc = "fetch", !.r = r, !.why = why] IN v \in RecRow /\ RecFits(v, rn, ah)
<1> DEFINE v == [NoRec EXCEPT !.pc = "fetch", !.r = r, !.why = why]
<1>1. v \in RecRow /\ v.pc = "fetch" /\ v.r = r /\ v.why = why
  BY DEF NoRec, RecRow
<1> HIDE DEF v
<1>2. RecFits(v, rn, ah)
  BY <1>1 DEF RecFits, Started
<1> QED
  BY <1>1, <1>2 DEF v

LEMMA MonitorReclaimsKeeps ==
  ASSUME IInv, MonitorReclaims
  PROVE  IInv'
<1> DEFINE v == [NoRec EXCEPT !.pc = "fetch", !.r = mon.r, !.why = mon.poll]
           w == [mon EXCEPT !.pc = "reclaim"]
<1>1. UNCHANGED <<policy, limited, status, agent, queue, run, local, sending, ahead, diverged, lock, hand,
                  events>>
  BY DEF MonitorReclaims, db, git
<1>2. /\ mon.pc = "act" /\ mon.poll \in Ended /\ rec' = [rec EXCEPT !["monitor"] = v] /\ mon' = w
  BY DEF MonitorReclaims, Ended
<1>3. /\ Plain /\ Shape /\ mon \in MonRow /\ MonFits(mon, run)
      /\ RunKeeps(run, run) /\ AheadKeeps(run, ahead, ahead)
  BY Parts DEF Shape, IInv
<1>4. mon.r \in Runs /\ run[mon.r].st # None /\ (mon.poll = "completed" => run[mon.r].prov \in Ended)
  BY <1>2, <1>3 DEF MonFits, Started
<1>5. v \in RecRow /\ RecFits(v, run, ahead)
  BY <1>2, <1>4, NewRec DEF Reasons
<1>6. w \in MonRow /\ w.pc = "reclaim" /\ w.r = mon.r /\ w.left = mon.left
  BY <1>3 DEF MonRow
<1> HIDE DEF v, w
<1>7. MonFits(w, run)
  BY <1>2, <1>3, <1>6 DEF MonFits
<1>8. "monitor" \in Reclaimers
  BY DEF Reclaimers
<1>9. /\ rec' \in [Reclaimers -> RecRow] /\ rec'["monitor"] = v
      /\ \A q \in Reclaimers \ {"monitor"} : rec'[q] = rec[q]
  BY <1>2, <1>3, <1>5, <1>8 DEF Shape
<1>10. RecsFit'
  BY <1>1, <1>3, <1>5, <1>8, <1>9, OneRec
<1>11. events <= events
  BY <1>3 DEF Shape
<1> QED
  BY <1>1, <1>2, <1>3, <1>6, <1>7, <1>9, <1>10, <1>11, WatchStep DEF Plain, Shape

LEMMA RequestReclaimKeeps ==
  ASSUME IInv, NEW r \in Runs, RequestReclaim(r)
  PROVE  IInv'
<1> DEFINE v == [NoRec EXCEPT !.pc = "fetch", !.r = r, !.why = "manual"]
<1>1. UNCHANGED <<policy, limited, status, agent, queue, run, local, sending, ahead, diverged, lock, hand, mon>>
  BY DEF RequestReclaim, db, git
<1>2. /\ Active(r) /\ events < MaxEvents /\ events' = events + 1
      /\ rec' = [rec EXCEPT !["user"] = v]
  BY DEF RequestReclaim
<1>3. Plain /\ Shape /\ RunKeeps(run, run) /\ AheadKeeps(run, ahead, ahead) /\ MonFits(mon, run)
  BY Parts DEF IInv
<1>4. run[r].st # None
  BY <1>2, Distinct DEF Active
<1>5. v \in RecRow /\ RecFits(v, run, ahead)
  BY <1>4, NewRec DEF Reasons
<1> HIDE DEF v
<1>6. "user" \in Reclaimers
  BY DEF Reclaimers
<1>7. /\ rec' \in [Reclaimers -> RecRow] /\ rec'["user"] = v
      /\ \A q \in Reclaimers \ {"user"} : rec'[q] = rec[q]
  BY <1>2, <1>3, <1>5, <1>6 DEF Shape
<1>8. RecsFit'
  BY <1>1, <1>3, <1>5, <1>6, <1>7, OneRec
<1>9. events' \in 0..MaxEvents /\ events <= events'
  BY <1>2, <1>3, BoundAssumption DEF Shape
<1> QED
  BY <1>1, <1>3, <1>7, <1>8, <1>9, WatchStep DEF Plain, Shape

LEMMA MonitorWaitsKeeps ==
  ASSUME IInv, MonitorWaits
  PROVE  IInv'
<1>1. UNCHANGED <<policy, limited, status, agent, queue, run, local, sending, ahead, diverged, lock, hand,
                  rec, events>>
  BY DEF MonitorWaits, db, git
<1>2. Plain /\ Shape /\ RunKeeps(run, run) /\ AheadKeeps(run, ahead, ahead)
  BY Parts
<1>3. mon' \in MonRow /\ MonFits(mon', run')
  BY <1>1, <1>2, SkipFits DEF MonitorWaits
<1>4. RecsFit' /\ events <= events
  BY <1>1, <1>2, SameRecs DEF Shape
<1> QED
  BY <1>1, <1>2, <1>3, <1>4, WatchStep DEF Plain, Shape

(* The monitor's writes to a row: they never open one that was closed. *)
LEMMA StatusRow ==
  ASSUME IInv, NEW r \in Runs, run[r].st # None, NEW st \in ActiveStatus \cup {run[r].st},
         run' = [run EXCEPT ![r].st = st]
  PROVE  \E v \in RunRow : /\ run' = [run EXCEPT ![r] = v] /\ RowKeeps(run[r], v) /\ v.prov = run[r].prov
                           /\ HasArrived(v, r, ahead) /\ RunKeeps(run, run')
<1> DEFINE v == [run[r] EXCEPT !.st = st]
<1>1. /\ run \in [Runs -> RunRow] /\ run[r] \in RunRow /\ RowFits(run[r]) /\ HasArrived(run[r], r, ahead)
      /\ \A q \in Runs : RowFits(run[q])
  BY Parts DEF Shape, IInv, Arrived
<1>2. run' = [run EXCEPT ![r] = v]
  BY <1>1
<1>3. /\ v \in RunRow /\ v.st = st /\ v.prov = run[r].prov /\ v.t = run[r].t
      /\ v.closed = run[r].closed /\ v.why = run[r].why
  BY <1>1 DEF RunRow, Statuses
<1>4. run[r].st \in ActiveStatus \cup ClosedStatus
  BY <1>1 DEF RunRow, Statuses
<1> HIDE DEF v
<1>5. v.st # None /\ (v.st \in ClosedStatus => run[r].st = v.st)
  BY <1>3, Distinct
<1>6. RowKeeps(run[r], v)
  BY <1>1, <1>3, <1>4, <1>5, Distinct DEF RowKeeps, RowFits
<1>7. HasArrived(v, r, ahead)
  BY <1>1, <1>3, <1>5 DEF HasArrived, ClosedStatus
<1>8. run'[r] = v /\ \A q \in Runs \ {r} : run'[q] = run[q]
  BY <1>1, <1>2
<1>9. RunKeeps(run, run')
  BY <1>1, <1>6, <1>8, OneRow
<1> QED
  BY <1>2, <1>3, <1>6, <1>7, <1>9

LEMMA MonitorRunningKeeps ==
  ASSUME IInv, MonitorRunning
  PROVE  IInv'
<1> DEFINE st == IF mon.copy # "running" THEN "running" ELSE run[mon.r].st
<1>1. UNCHANGED <<policy, limited, status, agent, queue, local, sending, ahead, diverged, lock, hand,
                  rec, events>>
  BY DEF MonitorRunning, git
<1>2. mon.pc = "act" /\ Skip /\ run' = [run EXCEPT ![mon.r].st = st]
  BY DEF MonitorRunning, SetStatus
<1>3. Plain /\ Shape /\ MonFits(mon, run) /\ AheadKeeps(run, ahead, ahead)
  BY Parts DEF IInv
<1>4. mon.r \in Runs /\ run[mon.r].st # None
  BY <1>2, <1>3 DEF MonFits, Started
<1>5. st \in ActiveStatus \cup {run[mon.r].st}
  BY DEF ActiveStatus
<1> HIDE DEF st
<1>6. PICK v \in RunRow : /\ run' = [run EXCEPT ![mon.r] = v] /\ RowKeeps(run[mon.r], v)
                          /\ HasArrived(v, mon.r, ahead) /\ RunKeeps(run, run')
  BY <1>2, <1>4, <1>5, StatusRow
<1>7. mon' \in MonRow /\ MonFits(mon', run')
  BY <1>2, <1>6, SkipFits
<1>8. RecsFit'
  BY <1>1, <1>3, <1>6, SameRecs
<1> QED
  BY <1>1, <1>3, <1>4, <1>6, <1>7, <1>8, RowStep DEF Plain, Shape

LEMMA MonitorStallsKeeps ==
  ASSUME IInv, MonitorStalls
  PROVE  IInv'
<1> DEFINE u == [NoRec EXCEPT !.pc = "fetch", !.r = mon.r, !.why = "stalled"]
           w == [mon EXCEPT !.pc = "reclaim"]
<1>1. UNCHANGED <<policy, limited, status, agent, queue, local, sending, ahead, diverged, lock, hand, events>>
  BY DEF MonitorStalls, git
<1>2. /\ mon.pc = "act" /\ run' = [run EXCEPT ![mon.r].st = "stalled"]
      /\ rec' = [rec EXCEPT !["monitor"] = u] /\ mon' = w
  BY DEF MonitorStalls, SetStatus
<1>3. Plain /\ Shape /\ MonFits(mon, run) /\ AheadKeeps(run, ahead, ahead) /\ mon \in MonRow
  BY Parts DEF IInv, Shape
<1>4. mon.r \in Runs /\ run[mon.r].st # None
  BY <1>2, <1>3 DEF MonFits, Started
<1>5. "stalled" \in ActiveStatus \cup {run[mon.r].st}
  BY DEF ActiveStatus
<1>6. PICK v \in RunRow : /\ run' = [run EXCEPT ![mon.r] = v] /\ RowKeeps(run[mon.r], v)
                          /\ HasArrived(v, mon.r, ahead) /\ RunKeeps(run, run')
  BY <1>2, <1>4, <1>5, StatusRow
<1>7. Started(mon.r, run')
  BY <1>4, <1>6, StartedKept DEF Started
<1>8. u \in RecRow /\ RecFits(u, run', ahead)
  BY <1>4, <1>7, NewRec DEF Reasons, Started
<1>9. w \in MonRow /\ w.pc = "reclaim" /\ w.r = mon.r /\ w.left = mon.left
  BY <1>3 DEF MonRow
<1> HIDE DEF u, w
<1>10. MonFits(w, run')
  <2>1. \A r \in mon.left : Started(r, run')
    BY <1>3, <1>6, StartedKept DEF MonFits
  <2> QED
    BY <1>7, <1>9, <2>1 DEF MonFits
<1>11. "monitor" \in Reclaimers
  BY DEF Reclaimers
<1>12. /\ rec' \in [Reclaimers -> RecRow] /\ rec'["monitor"] = u
       /\ \A q \in Reclaimers \ {"monitor"} : rec'[q] = rec[q]
  BY <1>2, <1>3, <1>8, <1>11 DEF Shape
<1>13. RecsFit'
  BY <1>1, <1>3, <1>6, <1>8, <1>11, <1>12, OneRec
<1> QED
  BY <1>1, <1>2, <1>3, <1>4, <1>6, <1>9, <1>10, <1>12, <1>13, RowStep DEF Plain, Shape

LEMMA FetchKeeps ==
  ASSUME IInv, NEW p \in Reclaimers, Fetch(p)
  PROVE  IInv'
<1> DEFINE r == rec[p].r
           v == rec'[p]
<1>1. UNCHANGED <<policy, limited, status, agent, queue, run, local, sending, diverged, lock, hand, mon,
                  events>>
  BY DEF Fetch, db
<1>2. rec[p].pc = "fetch"
  BY DEF Fetch
<1>3. /\ Plain /\ Shape /\ RunKeeps(run, run) /\ MonFits(mon, run) /\ RecFits(rec[p], run, ahead)
      /\ rec[p] \in RecRow
  BY Parts DEF IInv, Shape, RecsFit
<1>4. \/ ahead' = ahead \ {r} /\ rec' = [rec EXCEPT ![p].pc = "close"]
      \/ ahead' = ahead /\ rec' = [rec EXCEPT ![p].pc = "close", ![p].conflict = TRUE]
  BY DEF Fetch
<1>5. ahead' \subseteq Runs /\ AheadKeeps(run, ahead, ahead')
  BY <1>3, <1>4 DEF Plain, AheadKeeps
<1>6. /\ v \in RecRow /\ v.pc = "close" /\ v.r = r /\ v.why = rec[p].why
      /\ v.conflict \/ r \notin ahead'
  BY <1>3, <1>4 DEF RecRow, Shape
<1>7. /\ rec' \in [Reclaimers -> RecRow]
      /\ \A q \in Reclaimers \ {p} : rec'[q] = rec[q]
  BY <1>3, <1>4 DEF RecRow, Shape
<1> HIDE DEF v
<1>8. RecFits(v, run', ahead')
  BY <1>1, <1>2, <1>3, <1>6 DEF RecFits
<1>9. RecsFit'
  BY <1>1, <1>3, <1>5, <1>7, <1>8, OneRec DEF v
<1>10. events <= events
  BY <1>3 DEF Shape
<1> QED
  BY <1>1, <1>3, <1>5, <1>7, <1>9, <1>10, WatchStep DEF Plain, Shape

LEMMA CloseStatusType ==
  ASSUME NEW why, NEW conflict
  PROVE  /\ CloseStatus(why, conflict) \in ClosedStatus
         /\ CloseStatus(why, conflict) = "reclaimed" => ~conflict
BY DEF CloseStatus, ClosedStatus

(* A run is closed as reclaimed and completed when its commits have arrived. *)
LEMMA CloseKeeps ==
  ASSUME IInv, NEW p \in Reclaimers, Close(p)
  PROVE  IInv'
<1> DEFINE r == rec[p].r
           st == CloseStatus(rec[p].why, rec[p].conflict)
           b == \/ rec[p].conflict
                \/ rec[p].why = "completed" /\ queue[run[r].t] = 0
           v == [run[r] EXCEPT !.st = st, !.why = rec[p].why, !.closed = TRUE]
           w == [rec[p] EXCEPT !.pc = "finish", !.review = b]
<1>1. UNCHANGED <<policy, limited, status, agent, queue, local, sending, ahead, diverged, lock, hand, mon,
                  events>>
  BY DEF Close, git
<1>2. rec[p].pc = "close"
  BY DEF Close
<1>3. /\ Plain /\ Shape /\ AheadKeeps(run, ahead, ahead) /\ MonFits(mon, run)
      /\ RecFits(rec[p], run, ahead) /\ rec[p] \in RecRow
  BY Parts DEF IInv, Shape, RecsFit
<1>4. r \in Runs /\ run[r].st # None
  BY <1>2, <1>3 DEF RecFits, Started
<1>5. run[r] \in RunRow /\ RowFits(run[r])
  BY <1>4, Parts DEF Shape
<1>6. run' = [run EXCEPT ![r] = v] /\ rec' = [rec EXCEPT ![p] = w]
  BY <1>3, <1>4 DEF Close, Shape
<1>7. st \in ClosedStatus /\ (st = "reclaimed" => ~rec[p].conflict)
  BY CloseStatusType
<1>8. b \in BOOLEAN /\ rec[p].why \in Reasons
  BY <1>3 DEF RecRow
<1> HIDE DEF r, st, b
<1>9. /\ v \in RunRow /\ v.st = st /\ v.why = rec[p].why /\ v.closed /\ v.prov = run[r].prov
      /\ v.t = run[r].t
  BY <1>5, <1>7, <1>8 DEF RunRow, Statuses
<1>10. /\ w \in RecRow /\ w.pc = "finish" /\ w.r = r /\ w.why = rec[p].why
       /\ w.conflict = rec[p].conflict
  BY <1>3, <1>8 DEF RecRow, r
<1> HIDE DEF v, w
<1>11. st # None
  BY <1>7, Distinct
<1>12. RowKeeps(run[r], v)
  BY <1>4, <1>5, <1>7, <1>9, <1>11, Distinct DEF RowKeeps, RowFits
<1>13. HasArrived(v, r, ahead)
  BY <1>2, <1>3, <1>7, <1>9 DEF HasArrived, RecFits, r
<1>14. run'[r] = v /\ \A q \in Runs \ {r} : run'[q] = run[q]
  BY <1>3, <1>4, <1>6 DEF Shape
<1>15. RunKeeps(run, run')
  BY <1>4, <1>12, <1>14, OneRow, Parts
<1>16. MonFits(mon', run')
  BY <1>1, <1>15, SameMon
<1>17. RecFits(w, run', ahead)
  <2>1. RecFits(rec[p], run', ahead)
    BY <1>3, <1>15, RecKept
  <2> QED
    BY <1>2, <1>10, <2>1 DEF RecFits, r
<1>18. /\ rec' \in [Reclaimers -> RecRow] /\ rec'[p] = w
       /\ \A q \in Reclaimers \ {p} : rec'[q] = rec[q]
  BY <1>3, <1>6, <1>10 DEF Shape
<1>19. RecsFit'
  BY <1>1, <1>3, <1>15, <1>17, <1>18, OneRec
<1> QED
  BY <1>1, <1>3, <1>4, <1>6, <1>9, <1>12, <1>13, <1>16, <1>18, <1>19, RowStep DEF Plain, Shape

LEMMA FinishReclaimKeeps ==
  ASSUME IInv, NEW p \in Reclaimers, FinishReclaim(p)
  PROVE  IInv'
<1>1. UNCHANGED <<policy, limited, agent, queue, run, local, sending, ahead, diverged, lock, hand, events>>
  BY DEF FinishReclaim, git
<1>2. /\ Plain /\ Shape /\ RunKeeps(run, run) /\ AheadKeeps(run, ahead, ahead)
  BY Parts
<1>3. status' = [status EXCEPT ![run[rec[p].r].t] = IF rec[p].review THEN "review" ELSE "queued"]
  BY DEF FinishReclaim
<1>4. status' \in [Threads -> {"running", "paused", "queued", "review", "running_in_cloud"}]
  BY <1>2, <1>3 DEF Plain
<1>5. rec' = [rec EXCEPT ![p] = NoRec]
  BY DEF FinishReclaim
<1>6. /\ rec' \in [Reclaimers -> RecRow] /\ rec'[p] = NoRec
      /\ \A q \in Reclaimers \ {p} : rec'[q] = rec[q]
  BY <1>2, <1>5, NullTypes DEF Shape
<1>7. RecFits(NoRec, run', ahead')
  BY DEF RecFits, NoRec
<1>8. RecsFit'
  BY <1>1, <1>2, <1>6, <1>7, OneRec
<1>9. mon' \in MonRow /\ MonFits(mon', run')
  <2>1. Skip \/ mon' = mon
    BY DEF FinishReclaim
  <2>2. CASE Skip
    BY <1>1, <1>2, <2>2, SkipFits
  <2>3. CASE mon' = mon
    BY <1>1, <1>2, <2>3, SameMon DEF Shape
  <2> QED
    BY <2>1, <2>2, <2>3
<1>10. events <= events
  BY <1>2 DEF Shape
<1> QED
  BY <1>1, <1>2, <1>4, <1>6, <1>8, <1>9, <1>10, WatchStep DEF Plain, Shape

(* A restart forgets every requester, the tick and the reclaims. *)
LEMMA CrashKeeps ==
  ASSUME IInv, Crash
  PROVE  IInv'
<1>1. UNCHANGED <<policy, limited, agent, queue, run, ahead, diverged>>
  BY DEF Crash, git
<1>2. /\ events < MaxEvents /\ events' = events + 1 /\ lock' = None /\ mon' = NoMon
      /\ status' = [t \in Threads |-> IF status[t] = "running" THEN "queued" ELSE status[t]]
      /\ local' = [t \in Threads |-> "off"] /\ sending' = [t \in Threads |-> 0]
      /\ hand' = [h \in Requesters |-> NoHand] /\ rec' = [p \in Reclaimers |-> NoRec]
  BY DEF Crash
<1>3. Plain /\ Shape /\ RunKeeps(run, run) /\ AheadKeeps(run, ahead, ahead)
  BY Parts
<1>4. status' \in [Threads -> {"running", "paused", "queued", "review", "running_in_cloud"}]
  BY <1>2, <1>3 DEF Plain
<1>5. Plain'
  BY <1>1, <1>2, <1>3, <1>4 DEF Plain
<1>6. events' \in 0..MaxEvents /\ \A t \in Threads : queue'[t] + sending'[t] <= events'
  BY <1>1, <1>2, <1>3, BoundAssumption DEF Shape
<1>7. /\ local' \in [Threads -> {"off", "starting", "live", "stopping"}]
      /\ sending' \in [Threads -> Nat]
  BY <1>2
<1>8. /\ hand' \in [Requesters -> HandRow] /\ mon' \in MonRow /\ rec' \in [Reclaimers -> RecRow]
  BY <1>2, NullTypes
<1>9. Shape'
  BY <1>1, <1>3, <1>6, <1>7, <1>8 DEF Shape
<1>10. HandsFit'
  <2>1. \A h \in Requesters : HandFits(h, NoHand, lock', run', local', policy'.cap)
    BY DEF HandFits, NoHand, Holding
  <2> QED
    BY <1>2, <2>1 DEF HandsFit
<1>11. MonFits(mon', run') /\ RecsFit'
  <2>1. MonFits(NoMon, run') /\ RecFits(NoRec, run', ahead')
    BY DEF MonFits, NoMon, RecFits, NoRec
  <2> QED
    BY <1>2, <2>1 DEF RecsFit
<1>12. Arrived'
  BY <1>1, <1>3, SameArrived
<1> QED
  BY <1>1, <1>3, <1>5, <1>9, <1>10, <1>11, <1>12, Step

(***************************************************************************)
(* The theorems.                                                           *)
(***************************************************************************)

LEMMA InitHolds == Init => IInv
<1> SUFFICES ASSUME Init PROVE IInv
  OBVIOUS
<1>1. Plain
  BY AgentAssumption DEF Init, Plain
<1>2. /\ local \in [Threads -> {"off", "starting", "live", "stopping"}]
      /\ queue \in [Threads -> Nat] /\ sending \in [Threads -> Nat]
      /\ events \in 0..MaxEvents
      /\ \A t \in Threads : queue[t] + sending[t] <= events
  BY BoundAssumption DEF Init
<1>3. /\ run = [r \in Runs |-> NoRun] /\ hand = [h \in Requesters |-> NoHand] /\ mon = NoMon
      /\ rec = [p \in Reclaimers |-> NoRec]
  BY DEF Init
<1>4. Shape
  BY <1>2, <1>3, NullTypes DEF Shape
<1>5. TypeOK
  BY <1>1, <1>4, TypesSuffice
<1>6. NoRun.prov = None /\ NoRun.st = None /\ NoRun.why = None
  BY DEF NoRun
<1>7. RowsFit /\ Arrived
  <2>1. RowFits(NoRun) /\ \A r \in Runs : HasArrived(NoRun, r, ahead)
    BY <1>6, Distinct DEF RowFits, HasArrived, None
  <2> QED
    BY <1>3, <2>1 DEF RowsFit, Arrived
<1>8. OpenFits(run, policy.cap)
  <2>1. Open(run) = {}
    BY <1>3, <1>6, Distinct DEF Open
  <2>2. policy.cap \in Nat
    BY <1>1, CapIsNumber DEF Plain
  <2>3. Cardinality(Open(run)) = 0
    BY <2>1, FS_EmptySet
  <2> QED
    BY <2>1, <2>2, <2>3 DEF OpenFits
<1>9. HandsFit
  <2>1. \A h \in Requesters : HandFits(h, NoHand, lock, run, local, policy.cap)
    BY DEF HandFits, NoHand, Holding
  <2> QED
    BY <1>3, <2>1 DEF HandsFit
<1>10. MonFits(mon, run) /\ RecsFit
  <2>1. MonFits(NoMon, run) /\ RecFits(NoRec, run, ahead)
    BY DEF MonFits, NoMon, RecFits, NoRec
  <2> QED
    BY <1>3, <2>1 DEF RecsFit
<1> QED
  BY <1>4, <1>5, <1>7, <1>8, <1>9, <1>10 DEF IInv

LEMMA NextKeeps == IInv /\ [Next]_vars => IInv'
<1> SUFFICES ASSUME IInv, [Next]_vars PROVE IInv'
  OBVIOUS
<1>1. CASE UNCHANGED vars
  <2>1. UNCHANGED <<policy, limited, status, agent, queue, run, local, sending, ahead, diverged, lock,
                    hand, mon, rec, events>>
    BY <1>1 DEF vars, db, git, procs
  <2>2. Plain /\ Shape /\ LocalKeeps(local, local)
    BY Parts
  <2>3. Plain' /\ Shape'
    BY <2>1, <2>2 DEF Plain, Shape
  <2> QED
    BY <2>1, <2>2, <2>3, QuietStep
<1>2. CASE \E t \in Threads, ag \in Agents : RequestHandoff(t, ag)
  BY <1>2, RequestHandoffKeeps
<1>3. CASE \E h \in PowerRequesters, order \in Orders, found \in Probes :
             \E trigger \in PowerSignals(h) : PowerEvent(h, trigger, order, found)
  BY <1>3, PowerEventKeeps
<1>4. CASE \E h \in PowerRequesters : ChooseThread(h)
  BY <1>4, ChooseThreadKeeps
<1>5. ASSUME NEW h \in Requesters, HandoffStep(h) PROVE IInv'
  BY <1>5, CheckKeeps, ApprovalKeeps, StopLocalKeeps, SettleKeeps, CheckpointKeeps, LaunchKeeps,
     LaunchFailsKeeps, LaunchUnseenKeeps, RecordKeeps, SaveThreadKeeps DEF HandoffStep
<1>6. CASE \E r \in Runs : CloudPushes(r) \/ RequestReclaim(r)
  BY <1>6, ProviderKeeps, RequestReclaimKeeps
<1>7. CASE \E r \in Runs, how \in Endings : CloudEnds(r, how)
  BY <1>7, ProviderKeeps
<1>8. CASE MonitorTick
  BY <1>8, MonitorTickKeeps
<1>9. CASE MonitorStep
  BY <1>9, ObserveKeeps, MonitorReclaimsKeeps, MonitorRunningKeeps, MonitorWaitsKeeps,
     MonitorStallsKeeps DEF MonitorStep
<1>10. CASE \E p \in Reclaimers : ReclaimStep(p)
  BY <1>10, FetchKeeps, CloseKeeps, FinishReclaimKeeps DEF ReclaimStep
<1>11. CASE \E t \in Threads : \/ SendMessage(t) \/ Enqueue(t) \/ ContinueQueued(t) \/ SessionStarts(t)
                               \/ SessionEnds(t) \/ LocalCommit(t) \/ CloudCheckpoint(t)
  BY <1>11, SendMessageKeeps, EnqueueKeeps, ContinueQueuedKeeps, SessionStartsKeeps, SessionEndsKeeps,
     CommitKeeps
<1>12. CASE Crash
  BY <1>12, CrashKeeps
<1> QED
  BY <1>1, <1>2, <1>3, <1>4, <1>5, <1>6, <1>7, <1>8, <1>9, <1>10, <1>11, <1>12 DEF Next

(* The invariant bounds the runs at the provider too: the one that is launched
   and not recorded yet has the gate, and was counted. *)
LEMMA CapFollows == IInv => CapKept
<1> SUFFICES ASSUME IInv PROVE CapKept
  OBVIOUS
<1> DEFINE New == {r \in Runs : \E h \in Requesters : hand[h].pc = "record" /\ hand[h].r = r}
           All == {r \in Runs : \/ Active(r) /\ ~run[r].closed
                                \/ \E h \in Requesters : hand[h].pc = "record" /\ hand[h].r = r}
<1>1. All = Open(run) \cup New
  BY DEF Open, Active
<1>2. /\ policy.cap \in Nat
      /\ \A h \in Requesters : HandFits(h, hand[h], lock, run, local, policy.cap)
  BY Parts
<1>3. OpenFits(run, policy.cap)
  BY DEF IInv
<1>4. CASE New = {}
  BY <1>1, <1>3, <1>4 DEF CapKept, OpenFits
<1>5. CASE New # {}
  <2>1. PICK r \in New : TRUE
    BY <1>5
  <2>2. PICK h \in Requesters : hand[h].pc = "record" /\ hand[h].r = r
    BY <2>1
  <2>3. /\ lock = h /\ r \in Runs /\ run[r].t = hand[h].t /\ run[r].st = None
        /\ Cardinality(Open(run)) < policy.cap /\ \A q \in Open(run) : run[q].t # hand[h].t
    BY <1>2, <2>2 DEF HandFits, Holding
  <2>4. \A q \in New : q = r
    <3> SUFFICES ASSUME NEW q \in New PROVE q = r
      OBVIOUS
    <3>1. PICK g \in Requesters : hand[g].pc = "record" /\ hand[g].r = q
      OBVIOUS
    <3>2. lock = g
      BY <1>2, <3>1 DEF HandFits, Holding
    <3> QED
      BY <2>2, <2>3, <3>1, <3>2
  <2>5. All = Open(run) \cup {r}
    BY <1>1, <2>1, <2>4
  <2>6. r \notin Open(run)
    BY <2>3, Distinct DEF Open
  <2>7. IsFiniteSet(Open(run)) /\ Cardinality(Open(run)) \in Nat
    BY OpenIsFinite
  <2>8. Cardinality(All) = Cardinality(Open(run)) + 1
    BY <2>5, <2>6, <2>7, FS_AddElement
  <2>9. Cardinality(All) <= policy.cap
    BY <1>2, <2>3, <2>7, <2>8
  <2>10. \A p, q \in All : run[p].t = run[q].t => p = q
    <3> HIDE DEF All, New
    <3> QED
      BY <1>3, <2>3, <2>5 DEF OpenFits
  <2> QED
    BY <2>9, <2>10 DEF CapKept
<1> QED
  BY <1>4, <1>5

LEMMA Inductive == Spec => []IInv
BY InitHolds, NextKeeps, PTL DEF Spec

(* However a manual request, a sleep and a shutdown interleave with each other,
   with sessions, reclaims and restarts: the open cloud runs stay within the
   policy's cap, a thread has at most one, and nothing is committed and pushed
   while the session the handoff stopped still runs. *)
THEOREM HandoffIsSound == Spec => []HandoffSound
<1>1. IInv => HandoffSound
  <2> SUFFICES ASSUME IInv PROVE HandoffSound
    OBVIOUS
  <2>1. \A h \in Requesters : HandFits(h, hand[h], lock, run, local, policy.cap)
    BY Parts
  <2>2. Quiescent
    BY <2>1 DEF Quiescent, HandFits
  <2> QED
    BY <2>2, CapFollows DEF HandoffSound, IInv
<1> QED
  BY <1>1, Inductive, PTL

(* A run that is closed as reclaimed after its provider completed it has left
   no commit on the remote branch that the worktree lacks, whoever reclaims it
   and however often. *)
THEOREM CompletedWorkIsMerged == Spec => []CompletedWorkArrives
<1>1. IInv => CompletedWorkArrives
  BY DEF IInv, Arrived, HasArrived, CompletedWorkArrives
<1> QED
  BY <1>1, Inductive, PTL
=============================================================================
