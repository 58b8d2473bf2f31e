--------------------------- MODULE WorkPlanProofs ---------------------------
(***************************************************************************)
(* Proofs about WorkPlan for every tree of nodes, every set of drivers and *)
(* every interleaving of drivers, the user, runs and restarts.             *)
(*                                                                         *)
(* A driver decides from a copy of the graph it read earlier.  The         *)
(* invariant ties the copies to what was accepted (whatever is finished in *)
(* the graph or in a copy was accepted, and what a driver is about to      *)
(* start has its prerequisites accepted) and a driver's launch to the      *)
(* driver that awaits it.  That GatingSubtree, which is recursive, is the  *)
(* set of nodes a failure loses is shown by induction over the sets it     *)
(* grows through.                                                          *)
(***************************************************************************)
EXTENDS WorkPlan, FiniteSetTheorems, WellFoundedInduction, TLAPS

-----------------------------------------------------------------------------
(* The growth of a failed subtree *)

LEMMA LessThanWellFounded == IsWellFoundedOn({p \in Nat \X Nat : p[1] < p[2]}, Nat)
  <1>1. OpToRel(<, Nat) = {p \in Nat \X Nat : p[1] < p[2]}
    BY DEF OpToRel
  <1> QED
    BY <1>1, NatLessThanWellFounded

(* Induction over the naturals, for the members of a set. *)
LEMMA SetInduction ==
    ASSUME NEW S, 0 \in S, \A n \in Nat : n \in S => n + 1 \in S
    PROVE  Nat \subseteq S
  <1> DEFINE T == Nat \ S
             R == {p \in Nat \X Nat : p[1] < p[2]}
  <1> SUFFICES ASSUME T # {} PROVE FALSE
    OBVIOUS
  <1>1. PICK x \in T : \A y \in T : ~(<<y, x>> \in R)
    <2>1. IsWellFoundedOn(R, Nat) /\ T \subseteq Nat
      BY LessThanWellFounded
    <2> HIDE DEF R, T
    <2> QED
      BY <2>1, WFMin
  <1>2. x \in Nat /\ x # 0
    BY <1>1
  <1>3. x - 1 \in Nat /\ x - 1 < x /\ x - 1 + 1 = x
    BY <1>2
  <1>4. <<x - 1, x>> \in R
    BY <1>2, <1>3
  <1>5. x - 1 \in S
    BY <1>1, <1>3, <1>4
  <1> QED
    BY <1>1, <1>3, <1>5

(* One round of the growth: what is unfinished and gated on the set joins it. *)
Grown(s, S) == S \cup {n \in Node : s[n] \notin Success /\ spec.gates[n] \cap S # {}}

(* The recursive function of GatingSubtree is what its equation says. *)
LEMMA GrowthExists ==
    ASSUME NEW roots, NEW s, NEW N \in Nat
    PROVE  \E g : g = [k \in 0 .. N |-> IF k = 0 THEN roots ELSE Grown(s, g[k - 1])]
  <1> DEFINE Is(m, g) == g = [k \in 0 .. m |-> IF k = 0 THEN roots ELSE Grown(s, g[k - 1])]
             S == {m \in Nat : \E g : Is(m, g)}
  <1>1. 0 \in S
    <2> DEFINE g == [k \in 0 .. 0 |-> roots]
    <2>1. \A k \in 0 .. 0 : k = 0
      OBVIOUS
    <2>2. Is(0, g)
      BY <2>1
    <2> QED
      BY <2>2
  <1>2. ASSUME NEW m \in Nat, m \in S PROVE m + 1 \in S
    <2>1. PICK g : Is(m, g)
      BY <1>2
    <2> DEFINE h == [k \in 0 .. m + 1 |-> IF k = m + 1 THEN Grown(s, g[m]) ELSE g[k]]
    <2>2. ASSUME NEW k \in 0 .. m + 1
          PROVE  h[k] = IF k = 0 THEN roots ELSE Grown(s, h[k - 1])
      <3>1. CASE k = m + 1
        <4>1. k # 0 /\ k - 1 = m /\ m \in 0 .. m + 1 /\ m # m + 1
          BY <3>1
        <4>2. h[m] = g[m] /\ h[k] = Grown(s, g[m])
          BY <3>1, <4>1
        <4> QED
          BY <4>1, <4>2
      <3>2. CASE k # m + 1
        <4>1. k \in 0 .. m /\ h[k] = g[k]
          BY <3>2
        <4>2. g[k] = IF k = 0 THEN roots ELSE Grown(s, g[k - 1])
          BY <2>1, <4>1
        <4>3. k # 0 => k - 1 \in 0 .. m + 1 /\ k - 1 # m + 1 /\ h[k - 1] = g[k - 1]
          BY <4>1
        <4> QED
          BY <4>1, <4>2, <4>3
      <3> QED
        BY <3>1, <3>2
    <2>3. Is(m + 1, h)
      <3> DEFINE e == [k \in 0 .. m + 1 |-> IF k = 0 THEN roots ELSE Grown(s, h[k - 1])]
      <3>1. \A k \in 0 .. m + 1 : h[k] = e[k]
        BY <2>2
      <3>2. h = [k \in 0 .. m + 1 |-> h[k]] /\ e = [k \in 0 .. m + 1 |-> e[k]]
        OBVIOUS
      <3> HIDE DEF h, e
      <3>3. h = e
        BY <3>1, <3>2
      <3> QED
        BY <3>3 DEF e
    <2> HIDE DEF Is, h
    <2>4. \E f : Is(m + 1, f)
      BY <2>3
    <2> QED
      BY <2>4
  <1>3. Nat \subseteq S
    <2> HIDE DEF S
    <2> QED
      BY <1>1, <1>2, SetInduction
  <1> QED
    BY <1>3

LEMMA CardinalityOfNode == Cardinality(Node) \in Nat
  BY PlanAssumption, FS_CardinalityType

(* Every set that holds the roots and is closed under a round of growth holds
   the subtree.                                                             *)
LEMMA SubtreeWithin ==
    ASSUME NEW roots, NEW s, NEW C, roots \subseteq C,
           \A S : S \subseteq C => Grown(s, S) \subseteq C
    PROVE  GatingSubtree(roots, s) \subseteq C
  <1> DEFINE N == Cardinality(Node)
             Is(g) == g = [k \in 0 .. N |-> IF k = 0 THEN roots ELSE Grown(s, g[k - 1])]
             grow == CHOOSE g : Is(g)
  <1>1. N \in Nat
    BY CardinalityOfNode
  <1>2. GatingSubtree(roots, s) = grow[N]
    BY DEF GatingSubtree, Grown
  <1>3. Is(grow)
    BY <1>1, GrowthExists
  <1> HIDE DEF grow, N
  <1> DEFINE S == {m \in Nat : m <= N => grow[m] \subseteq C}
  <1>4. 0 \in S
    <2>1. 0 \in 0 .. N
      BY <1>1
    <2>2. grow[0] = roots
      BY <1>3, <2>1
    <2> QED
      BY <2>2
  <1>5. ASSUME NEW m \in Nat, m \in S PROVE m + 1 \in S
    <2> SUFFICES ASSUME m + 1 <= N PROVE grow[m + 1] \subseteq C
      OBVIOUS
    <2>1. m <= N /\ m + 1 \in 0 .. N /\ m + 1 # 0 /\ m + 1 - 1 = m
      BY <1>1
    <2>2. grow[m + 1] = Grown(s, grow[m])
      BY <1>3, <2>1
    <2> QED
      BY <1>5, <2>1, <2>2
  <1>6. Nat \subseteq S
    <2> HIDE DEF S
    <2> QED
      BY <1>4, <1>5, SetInduction
  <1>7. grow[N] \subseteq C
    BY <1>1, <1>6
  <1> QED
    BY <1>2, <1>7

LEMMA SubtreeOfNone == ASSUME NEW roots, NEW s, roots = {} PROVE GatingSubtree(roots, s) = {}
  <1>1. \A S : S \subseteq roots => Grown(s, S) \subseteq roots
    BY DEF Grown
  <1>2. GatingSubtree(roots, s) \subseteq roots
    BY <1>1, SubtreeWithin
  <1> QED
    BY <1>2

(* What a failure takes with it is unfinished and lost. *)
LEMMA SubtreeLost ==
    ASSUME NEW s
    PROVE  /\ GatingSubtree(FailedNodes(s), s) \subseteq Lost(s)
           /\ GatingSubtree(FailedNodes(s), s) \subseteq Node \ Completed(s)
  <1>1. FailedNodes(s) \subseteq Lost(s) /\ FailedNodes(s) \subseteq Node \ Completed(s)
    BY DEF FailedNodes, Lost, Completed, Success
  <1>2. ASSUME NEW S, S \subseteq Lost(s) PROVE Grown(s, S) \subseteq Lost(s)
    <2> SUFFICES ASSUME NEW n \in Node, s[n] \notin Success, spec.gates[n] \cap S # {},
                        NEW T \in SUBSET Node, FailedNodes(s) \subseteq T,
                        \A m \in Node : s[m] \notin Success /\ spec.gates[m] \cap T # {} => m \in T
                 PROVE  n \in T
      BY <1>2 DEF Grown, Lost
    <2>1. S \subseteq T
      BY <1>2 DEF Lost
    <2>2. spec.gates[n] \cap T # {}
      BY <2>1
    <2> QED
      BY <2>2
  <1>3. ASSUME NEW S, S \subseteq Node \ Completed(s) PROVE Grown(s, S) \subseteq Node \ Completed(s)
    BY <1>3 DEF Grown, Completed
  <1> QED
    BY <1>1, <1>2, <1>3, SubtreeWithin

(* After as many rounds as there are nodes nothing is left to join, for each
   round that changes the set adds a node.                                   *)
LEMMA SubtreeClosed ==
    ASSUME NEW roots \in SUBSET Node, NEW s
    PROVE  /\ GatingSubtree(roots, s) \in SUBSET Node /\ roots \subseteq GatingSubtree(roots, s)
           /\ Grown(s, GatingSubtree(roots, s)) = GatingSubtree(roots, s)
  <1> DEFINE N == Cardinality(Node)
             Is(g) == g = [k \in 0 .. N |-> IF k = 0 THEN roots ELSE Grown(s, g[k - 1])]
             grow == CHOOSE g : Is(g)
             Closed(S) == Grown(s, S) = S
  <1>1. N \in Nat /\ IsFiniteSet(Node)
    BY CardinalityOfNode, PlanAssumption
  <1>2. GatingSubtree(roots, s) = grow[N]
    BY DEF GatingSubtree, Grown
  <1>3. Is(grow)
    BY <1>1, GrowthExists
  <1> HIDE DEF grow, N
  <1>4. \A S \in SUBSET Node : Grown(s, S) \in SUBSET Node /\ S \subseteq Grown(s, S)
    BY DEF Grown
  <1> DEFINE Good(m) == /\ grow[m] \in SUBSET Node /\ roots \subseteq grow[m]
                        /\ Closed(grow[m]) \/ Cardinality(grow[m]) >= m
             S == {m \in Nat : m <= N => Good(m)}
  <1>5. 0 \in S
    <2>1. 0 \in 0 .. N
      BY <1>1
    <2>2. grow[0] = roots
      BY <1>3, <2>1
    <2>3. Cardinality(roots) \in Nat
      BY <1>1, FS_Subset, FS_CardinalityType
    <2> QED
      BY <2>2, <2>3
  <1>6. ASSUME NEW m \in Nat, m \in S PROVE m + 1 \in S
    <2> SUFFICES ASSUME m + 1 <= N PROVE Good(m + 1)
      OBVIOUS
    <2>1. m <= N /\ m + 1 \in 0 .. N /\ m + 1 # 0 /\ m + 1 - 1 = m
      BY <1>1
    <2>2. grow[m + 1] = Grown(s, grow[m])
      BY <1>3, <2>1
    <2>3. Good(m)
      BY <1>6, <2>1
    <2> DEFINE A == grow[m]
               B == grow[m + 1]
    <2>4. A \in SUBSET Node /\ B \in SUBSET Node /\ A \subseteq B /\ roots \subseteq B /\ B = Grown(s, A)
      BY <2>2, <2>3, <1>4
    <2>5. CASE Closed(A)
      BY <2>4, <2>5
    <2>6. CASE ~Closed(A) /\ Cardinality(A) >= m
      <3> HIDE DEF A, B
      <3>1. A # B
        BY <2>4, <2>6
      <3>2. IsFiniteSet(B) /\ IsFiniteSet(A) /\ Cardinality(A) \in Nat /\ Cardinality(B) \in Nat
        BY <2>4, <1>1, FS_Subset, FS_CardinalityType
      <3>3. Cardinality(A) <= Cardinality(B) /\ Cardinality(A) # Cardinality(B)
        BY <2>4, <3>1, <3>2, FS_Subset
      <3>4. Cardinality(B) >= m + 1
        BY <2>6, <3>2, <3>3
      <3>5. B \in SUBSET Node /\ roots \subseteq B
        BY <2>4
      <3> QED
        BY <3>4, <3>5 DEF B
    <2> QED
      BY <2>3, <2>5, <2>6
  <1>7. Nat \subseteq S
    <2> HIDE DEF S
    <2> QED
      BY <1>5, <1>6, SetInduction
  <1>8. Good(N)
    BY <1>1, <1>7
  <1> DEFINE A == grow[N]
  <1>9. CASE Cardinality(A) >= N
    <2>1. A \in SUBSET Node /\ roots \subseteq A
      BY <1>8
    <2> HIDE DEF A
    <2>2. Cardinality(A) \in Nat /\ Cardinality(A) <= N
      BY <2>1, <1>1, FS_Subset, FS_CardinalityType DEF N
    <2>3. Cardinality(Node) = Cardinality(A)
      BY <2>2, <1>1, <1>9 DEF N
    <2>4. A = Node
      BY <2>1, <2>3, <1>1, FS_Subset
    <2>5. Closed(A)
      BY <2>1, <2>4, <1>4
    <2> QED
      BY <2>1, <2>5, <1>2 DEF A
  <1> QED
    BY <1>2, <1>8, <1>9

(* What gating_subtree_size counts is exactly what a failure makes unreachable:
   the least set with the failed nodes and every unfinished node gated on it. *)
THEOREM SubtreeIsLost ==
    ASSUME NEW s
    PROVE  GatingSubtree(FailedNodes(s), s) = Lost(s)
  <1> DEFINE G == GatingSubtree(FailedNodes(s), s)
  <1>1. FailedNodes(s) \in SUBSET Node
    BY DEF FailedNodes
  <1>2. G \in SUBSET Node /\ FailedNodes(s) \subseteq G /\ Grown(s, G) = G
    BY <1>1, SubtreeClosed
  <1>3. G \subseteq Lost(s)
    BY SubtreeLost
  <1> HIDE DEF G
  <1>4. \A m \in Node : s[m] \notin Success /\ spec.gates[m] \cap G # {} => m \in G
    BY <1>2 DEF Grown
  <1>5. Lost(s) \subseteq G
    BY <1>2, <1>4 DEF Lost
  <1>6. G = Lost(s)
    BY <1>3, <1>5
  <1> QED
    BY <1>6 DEF G

LEMMA CompletedFinite ==
    ASSUME NEW s
    PROVE  IsFiniteSet(Completed(s)) /\ Completed(s) \subseteq Node /\ Cardinality(Completed(s)) \in Nat
  <1>1. Completed(s) \subseteq Node /\ IsFiniteSet(Node)
    BY PlanAssumption DEF Completed
  <1> QED
    BY <1>1, FS_Subset, FS_CardinalityType

(* Unless failures are skipped, a plan has attained its end when all nodes are
   finished.                                                                 *)
LEMMA AttainedIsAll ==
    ASSUME NEW s, Attained(s), FailedNodes(s) = {} \/ spec.fail # "continue"
    PROVE  Completed(s) = Node
  <1> DEFINE excluded == IF spec.fail = "continue" THEN GatingSubtree(FailedNodes(s), s) ELSE {}
  <1>1. excluded = {}
    BY SubtreeOfNone
  <1>2. Cardinality(Completed(s)) >= Cardinality(Node) - Cardinality(excluded)
    BY DEF Attained
  <1>3. Cardinality(excluded) = 0
    BY <1>1, FS_EmptySet
  <1> HIDE DEF excluded
  <1>4. /\ Cardinality(Completed(s)) \in Nat /\ Cardinality(Node) \in Nat
        /\ Cardinality(Completed(s)) <= Cardinality(Node)
    BY CompletedFinite, CardinalityOfNode, PlanAssumption, FS_Subset
  <1>5. Cardinality(Node) = Cardinality(Completed(s))
    BY <1>2, <1>3, <1>4
  <1> QED
    BY <1>5, CompletedFinite, PlanAssumption, FS_Subset

(* In any mode, all but the lost nodes are finished then. *)
LEMMA AttainedSkips ==
    ASSUME NEW s, Attained(s)
    PROVE  \A n \in Node : s[n] \in Success \/ n \in Lost(s)
  <1> SUFFICES ASSUME spec.fail = "continue" PROVE \A n \in Node : s[n] \in Success \/ n \in Lost(s)
    BY AttainedIsAll DEF Completed
  <1> DEFINE A == Completed(s)
             B == GatingSubtree(FailedNodes(s), s)
  <1>1. Cardinality(A) >= Cardinality(Node) - Cardinality(B)
    BY DEF Attained
  <1>2. IsFiniteSet(A) /\ A \subseteq Node /\ Cardinality(A) \in Nat
    BY CompletedFinite
  <1>3. B \subseteq Lost(s) /\ B \subseteq Node \ A
    BY SubtreeLost
  <1> HIDE DEF A, B
  <1>4. IsFiniteSet(Node) /\ Cardinality(Node) \in Nat
    BY PlanAssumption, CardinalityOfNode
  <1>5. IsFiniteSet(B) /\ Cardinality(B) \in Nat
    BY <1>3, <1>4, FS_Subset, FS_CardinalityType
  <1>6. A \cap B = {} /\ A \cup B \subseteq Node
    BY <1>2, <1>3
  <1>7. Cardinality(A \cap B) = 0
    BY <1>6, FS_EmptySet
  <1>8. Cardinality(A \cup B) = Cardinality(A) + Cardinality(B) - Cardinality(A \cap B)
    BY <1>2, <1>5, FS_Union
  <1>9. Cardinality(A \cup B) <= Cardinality(Node) /\ Cardinality(A \cup B) \in Nat
    BY <1>4, <1>6, FS_Subset, FS_CardinalityType
  <1>10. Cardinality(Node) = Cardinality(A \cup B)
    BY <1>1, <1>2, <1>4, <1>5, <1>7, <1>8, <1>9
  <1>11. A \cup B = Node
    BY <1>4, <1>6, <1>10, FS_Subset
  <1> QED
    BY <1>3, <1>11 DEF A, Completed

-----------------------------------------------------------------------------
(* The invariant *)

StatusOK == status \in [Node -> Status]
PlanOK == plan \in WorkPlanRun
RunOK == run \in [Run -> WorkRun]
DrvOK == drv \in [Driver -> PlanDriver]
LockOK == lock \in Task \cup {None}
ActiveOK == active \in [Task -> Run \cup {None}]
MailOK == mail \in [Task -> 0 .. MaxMail]
CountsOK == resuming \in 0 .. MaxResuming /\ stopping \in BOOLEAN /\ acts \in 0 .. MaxActs
SpecOK == spec \in Plan
PassedOK == passed \subseteq Node

Types == SpecOK /\ StatusOK /\ PlanOK /\ LockOK /\ ActiveOK /\ RunOK /\ DrvOK /\ MailOK /\ CountsOK /\ PassedOK

LEMMA TypesIsTypeOK == Types <=> TypeOK
  BY DEF Types, TypeOK, SpecOK, StatusOK, PlanOK, LockOK, ActiveOK, RunOK, DrvOK, MailOK, CountsOK, PassedOK

(* A driver's launch that has not returned to it. *)
Owing(w) == w.by \in Driver /\ (w.at \in Launching \/ w.row = "due")

(* A driver awaits the one launch it has under way. *)
OwedInv ==
    /\ \A r \in Run : Owing(run[r]) => drv[run[r].by].at = "launch"
    /\ \A r, q \in Run : Owing(run[r]) /\ Owing(run[q]) /\ run[r].by = run[q].by => r = q

RowInv == \A r \in Run : run[r].at \in Launching => run[r].row = "none"

BudgetInv == \A d \in Driver : drv[d].at = "launch" => drv[d].started < MaxActive

(* Whatever is finished, in the graph or in a driver's copy, was accepted, and
   what a driver will start has its prerequisites accepted.                  *)
StatusInv == \A n \in Node : status[n] \in Success => n \in passed
SeenInv == \A d \in Driver : \A n \in Node : drv[d].seen[n] \in Success => n \in passed
TodoInv == \A d \in Driver : drv[d].at \in {"start", "launch"} => \A n \in drv[d].todo : spec.gates[n] \subseteq passed

Drivers == DrvOK /\ BudgetInv /\ SeenInv /\ TodoInv
Runs == RunOK /\ RowInv /\ PlanRespectsGates
Rest == SpecOK /\ PlanOK /\ LockOK /\ ActiveOK /\ MailOK /\ CountsOK

IInv == Drivers /\ Runs /\ OwedInv /\ StatusOK /\ StatusInv /\ PassedOK /\ Rest /\ CompletedIsComplete

LEMMA PlanTyped == ASSUME SpecOK PROVE spec.gates \in [Node -> SUBSET Node]
  BY PlanAssumption DEF SpecOK

LEMMA NoDriverTyped ==
    /\ NoDriver \in PlanDriver /\ AtTop \in PlanDriver
    /\ NoDriver.at = "off" /\ AtTop.at = "top"
    /\ \A n \in Node : NoDriver.seen[n] \notin Success /\ AtTop.seen[n] \notin Success
  <1>1. 0 \in 0 .. MaxActive
    BY PlanAssumption
  <1>2. [n \in Node |-> "draft"] \in [Node -> Status] /\ \A n \in Node : [m \in Node |-> "draft"][n] \notin Success
    BY DEF Status, Success
  <1> QED
    BY <1>1, <1>2 DEF NoDriver, AtTop, PlanDriver

LEMMA NoRunTyped == NoRun \in WorkRun /\ NoRun.by \notin Driver /\ NoRun.at = "off" /\ NoRun.row = "none"
  BY PlanAssumption DEF NoRun, WorkRun

-----------------------------------------------------------------------------
(* What a step may change *)

(* Runs stay, but for those no driver asked for. *)
LEMMA RunsKept ==
    ASSUME IInv, run' \in [Run -> WorkRun], spec' = spec, passed \subseteq passed',
           \A r \in Run : run'[r].by \in Driver => run'[r].by = run[r].by /\ run'[r].node = run[r].node,
           \A r \in Run : run'[r].at \in Launching => run'[r].row = "none"
    PROVE  Runs'
  BY DEF IInv, Runs, RunOK, RowInv, PlanRespectsGates

LEMMA OwedKept ==
    ASSUME IInv,
           \A r \in Run : Owing(run'[r]) =>
              Owing(run[r]) /\ run'[r].by = run[r].by /\ drv'[run'[r].by].at = "launch"
    PROVE  OwedInv'
  BY DEF IInv, OwedInv

LEMMA OwingBy == ASSUME IInv, NEW r \in Run, Owing(run[r]) PROVE drv[run[r].by].at = "launch"
  BY DEF IInv, OwedInv

LEMMA SameRuns ==
    ASSUME IInv, run' = run, spec' = spec, passed \subseteq passed'
    PROVE  Runs'
  BY RunsKept DEF IInv, Runs, RunOK, RowInv

LEMMA SameDrivers ==
    ASSUME IInv, drv' = drv, spec' = spec, passed \subseteq passed'
    PROVE  Drivers'
  BY DEF IInv, Drivers, DrvOK, BudgetInv, SeenInv, TodoInv

(* A driver that awaits no launch moves. *)
LEMMA DriverMoves ==
    ASSUME IInv, NEW d \in Driver, drv[d].at # "launch", drv'[d] \in PlanDriver, drv' \in [Driver -> PlanDriver],
           \A e \in Driver \ {d} : drv'[e] = drv[e],
           drv'[d].at # "launch",
           \A n \in Node : drv'[d].seen[n] \in Success => n \in passed',
           drv'[d].at = "start" => \A n \in drv'[d].todo : spec.gates[n] \subseteq passed',
           run' = run, spec' = spec, passed \subseteq passed'
    PROVE  Drivers' /\ Runs' /\ OwedInv'
  <1>1. DrvOK'
    BY DEF DrvOK
  <1>2. BudgetInv'
    BY DEF IInv, Drivers, BudgetInv
  <1>3. SeenInv'
    BY DEF IInv, Drivers, SeenInv
  <1>4. TodoInv'
    BY DEF IInv, Drivers, TodoInv
  <1>5. Runs'
    BY SameRuns
  <1>6. OwedInv'
    <2> SUFFICES ASSUME NEW r \in Run, Owing(run'[r])
                 PROVE  Owing(run[r]) /\ run'[r].by = run[r].by /\ drv'[run'[r].by].at = "launch"
      BY OwedKept
    <2>1. Owing(run[r]) /\ run[r].by \in Driver
      BY DEF Owing
    <2>2. drv[run[r].by].at = "launch"
      BY <2>1, OwingBy
    <2> QED
      BY <2>1, <2>2
  <1> QED
    BY <1>1, <1>2, <1>3, <1>4, <1>5, <1>6 DEF Drivers

LEMMA DriverReplaced ==
    ASSUME IInv, NEW d \in Driver, NEW e \in PlanDriver, drv[d].at # "launch", e.at # "launch", e.at # "start",
           \A n \in Node : e.seen[n] \in Success => n \in passed',
           drv' = [drv EXCEPT ![d] = e],
           run' = run, spec' = spec, passed \subseteq passed'
    PROVE  Drivers' /\ Runs' /\ OwedInv'
  <1>1. drv \in [Driver -> PlanDriver]
    BY DEF IInv, Drivers, DrvOK
  <1>2. drv' \in [Driver -> PlanDriver] /\ drv'[d] = e /\ \A f \in Driver \ {d} : drv'[f] = drv[f]
    BY <1>1
  <1> QED
    BY <1>2, DriverMoves

(* The status of nodes moves without finishing any that was not accepted. *)
LEMMA StatusKept ==
    ASSUME IInv, status' \in [Node -> Status], passed \subseteq passed', passed' \subseteq Node,
           \A n \in Node : status'[n] \in Success => status'[n] = status[n] \/ n \in passed'
    PROVE  StatusOK' /\ StatusInv' /\ PassedOK'
  BY DEF IInv, StatusOK, StatusInv, PassedOK

LEMMA SameStatus == ASSUME IInv, status' = status, passed' = passed PROVE StatusOK' /\ StatusInv' /\ PassedOK'
  BY DEF IInv, StatusOK, StatusInv, PassedOK

LEMMA PlanKept ==
    ASSUME IInv, passed \subseteq passed', PassedOK', plan'.state = "completed" => plan.state = "completed"
    PROVE  CompletedIsComplete'
  BY DEF IInv, CompletedIsComplete, PassedOK

LEMMA SamePlan == ASSUME IInv, plan' = plan, passed \subseteq passed', PassedOK' PROVE PlanOK' /\ CompletedIsComplete'
  BY PlanKept DEF IInv, Rest, PlanOK

LEMMA Assembled ==
    ASSUME Drivers', Runs', OwedInv', StatusOK', StatusInv', PassedOK', CompletedIsComplete',
           SpecOK', PlanOK', LockOK', ActiveOK', MailOK', CountsOK'
    PROVE  IInv'
  BY DEF IInv, Rest

LEMMA SameOwed == ASSUME IInv, run' = run, drv' = drv PROVE OwedInv'
  BY DEF IInv, OwedInv

-----------------------------------------------------------------------------
(* Users *)

LEMMA ActTyped == ASSUME IInv, NEW kind, Act(kind) PROVE acts' \in 0 .. MaxActs
  BY PlanAssumption DEF IInv, Rest, CountsOK, Act

LEMMA StopWorkPlanKeep == ASSUME IInv, StopWorkPlan PROVE IInv'
  <1>1. /\ plan' = [plan EXCEPT !.state = "cancelled"] /\ stopping' = TRUE /\ acts' \in 0 .. MaxActs
        /\ UNCHANGED <<spec, status, lock, active, run, drv, resuming, mail, passed>>
    BY ActTyped DEF StopWorkPlan
  <1>2. Drivers' /\ Runs' /\ OwedInv' /\ StatusOK' /\ StatusInv' /\ PassedOK'
    BY <1>1, SameRuns, SameDrivers, SameOwed, SameStatus
  <1>3. PlanOK' /\ CompletedIsComplete'
    BY <1>1, <1>2, PlanKept DEF IInv, Rest, PlanOK, WorkPlanRun
  <1>4. SpecOK' /\ LockOK' /\ ActiveOK' /\ MailOK' /\ CountsOK'
    BY <1>1 DEF IInv, Rest, SpecOK, LockOK, ActiveOK, MailOK, CountsOK
  <1> QED
    BY <1>2, <1>3, <1>4, Assembled

LEMMA StopNodesKeep == ASSUME IInv, StopNodes PROVE IInv'
  <1>1. /\ stopping' = FALSE /\ lock' \in {lock, None}
        /\ UNCHANGED <<spec, status, plan, active, run, drv, resuming, mail, acts, passed>>
    BY DEF StopNodes, StopWorkNodes
  <1>2. Drivers' /\ Runs' /\ OwedInv' /\ StatusOK' /\ StatusInv' /\ PassedOK'
    BY <1>1, SameRuns, SameDrivers, SameOwed, SameStatus
  <1>3. PlanOK' /\ CompletedIsComplete'
    BY <1>1, <1>2, SamePlan
  <1>4. SpecOK' /\ LockOK' /\ ActiveOK' /\ MailOK' /\ CountsOK'
    BY <1>1 DEF IInv, Rest, SpecOK, LockOK, ActiveOK, MailOK, CountsOK
  <1> QED
    BY <1>2, <1>3, <1>4, Assembled

LEMMA ResumingUp == ASSUME IInv, resuming < MaxResuming PROVE resuming + 1 \in 0 .. MaxResuming
  BY PlanAssumption DEF IInv, Rest, CountsOK

LEMMA ResumeReadKeep == ASSUME IInv, ResumeRead PROVE IInv'
  <1>1. /\ resuming' \in 0 .. MaxResuming
        /\ UNCHANGED <<spec, status, plan, lock, active, run, drv, stopping, mail, acts, passed>>
    BY ResumingUp DEF ResumeRead
  <1>2. Drivers' /\ Runs' /\ OwedInv' /\ StatusOK' /\ StatusInv' /\ PassedOK'
    BY <1>1, SameRuns, SameDrivers, SameOwed, SameStatus
  <1>3. PlanOK' /\ CompletedIsComplete'
    BY <1>1, <1>2, SamePlan
  <1>4. SpecOK' /\ LockOK' /\ ActiveOK' /\ MailOK' /\ CountsOK'
    BY <1>1 DEF IInv, Rest, SpecOK, LockOK, ActiveOK, MailOK, CountsOK
  <1> QED
    BY <1>2, <1>3, <1>4, Assembled

LEMMA ApproveKeep == ASSUME IInv, NEW n \in Node, Approve(n) PROVE IInv'
  <1>1. /\ status' = [status EXCEPT ![n] = "done"] /\ passed' = passed \cup {n}
        /\ UNCHANGED <<spec, plan, lock, active, run, drv, stopping, mail, acts>>
    BY DEF Approve
  <1>2. resuming' \in 0 .. MaxResuming
    <2>1. resuming' = resuming \/ (resuming < MaxResuming /\ resuming' = resuming + 1)
      BY DEF Approve
    <2> QED
      BY <2>1, ResumingUp DEF IInv, Rest, CountsOK
  <1>3. Drivers' /\ Runs' /\ OwedInv'
    BY <1>1, SameRuns, SameDrivers, SameOwed
  <1>4. StatusOK' /\ StatusInv' /\ PassedOK'
    BY <1>1 DEF IInv, StatusOK, Status, Success, StatusInv, PassedOK
  <1>5. PlanOK' /\ CompletedIsComplete'
    BY <1>1, <1>4, SamePlan
  <1>6. SpecOK' /\ LockOK' /\ ActiveOK' /\ MailOK' /\ CountsOK'
    BY <1>1, <1>2 DEF IInv, Rest, SpecOK, LockOK, ActiveOK, MailOK, CountsOK
  <1> QED
    BY <1>3, <1>4, <1>5, <1>6, Assembled

(* A status that is not a success. *)
LEMMA StatusPut ==
    ASSUME IInv, NEW n, NEW v \in Status \ Success, status' = [status EXCEPT ![n] = v], passed' = passed
    PROVE  StatusOK' /\ StatusInv' /\ PassedOK'
  BY DEF IInv, StatusOK, StatusInv, PassedOK

LEMMA SendBackKeep == ASSUME IInv, NEW n \in Node, SendBack(n) PROVE IInv'
  <1>1. /\ status' = [status EXCEPT ![n] = "draft"] /\ acts' \in 0 .. MaxActs
        /\ UNCHANGED <<spec, plan, lock, active, run, drv, resuming, stopping, mail, passed>>
    BY ActTyped DEF SendBack
  <1>2. Drivers' /\ Runs' /\ OwedInv'
    BY <1>1, SameRuns, SameDrivers, SameOwed
  <1>3. "draft" \in Status \ Success
    BY DEF Status, Success
  <1>4. StatusOK' /\ StatusInv' /\ PassedOK'
    BY <1>1, <1>3, StatusPut
  <1>5. PlanOK' /\ CompletedIsComplete'
    BY <1>1, <1>4, SamePlan
  <1>6. SpecOK' /\ LockOK' /\ ActiveOK' /\ MailOK' /\ CountsOK'
    BY <1>1 DEF IInv, Rest, SpecOK, LockOK, ActiveOK, MailOK, CountsOK
  <1> QED
    BY <1>2, <1>4, <1>5, <1>6, Assembled

-----------------------------------------------------------------------------
(* Drivers *)

(* The rest of the state in a step of a driver. *)
LEMMA DriverRest ==
    ASSUME IInv, UNCHANGED <<spec, lock, active, mail>>, CountsOK'
    PROVE  SpecOK' /\ LockOK' /\ ActiveOK' /\ MailOK'
  BY DEF IInv, Rest, SpecOK, LockOK, ActiveOK, MailOK

LEMMA SameCounts == ASSUME IInv, UNCHANGED <<resuming, stopping, acts>> PROVE CountsOK'
  BY DEF IInv, Rest, CountsOK

LEMMA PlanStates ==
    ASSUME IInv, NEW s \in {"running", "paused", "completed", "failed", "cancelled"},
           NEW e \in {None, "halted", "exhausted", "skipped", "stalled", "start", "gate"}, SaveProgress(s, e)
    PROVE  PlanOK' /\ plan'.state = s
  BY DEF SaveProgress, IInv, Rest, PlanOK, WorkPlanRun

LEMMA FreeDriverOff == ASSUME NEW d, FreeDriver(d) PROVE drv[d].at # "launch"
  BY DEF FreeDriver

LEMMA ResumeWriteKeep == ASSUME IInv, NEW d \in Driver, ResumeWrite(d) PROVE IInv'
  <1>1. /\ resuming > 0 /\ resuming' = resuming - 1 /\ plan' = ResumePlanRun
        /\ drv' = [drv EXCEPT ![d] = AtTop] /\ drv[d].at # "launch"
        /\ UNCHANGED <<spec, status, lock, active, run, stopping, mail, acts, passed>>
    BY FreeDriverOff DEF ResumeWrite, Spawn
  <1>2. Drivers' /\ Runs' /\ OwedInv'
    BY <1>1, NoDriverTyped, DriverReplaced
  <1>3. StatusOK' /\ StatusInv' /\ PassedOK'
    BY <1>1, SameStatus
  <1>4. PlanOK' /\ (plan'.state = "completed" => plan.state = "completed")
    BY <1>1 DEF ResumePlanRun, IInv, Rest, PlanOK, WorkPlanRun
  <1>5. CompletedIsComplete'
    BY <1>1, <1>3, <1>4, PlanKept
  <1>6. CountsOK'
    BY <1>1, PlanAssumption DEF IInv, Rest, CountsOK
  <1> QED
    BY <1>1, <1>2, <1>3, <1>4, <1>5, <1>6, DriverRest, Assembled

LEMMA DriverReadKeep == ASSUME IInv, NEW d \in Driver, DriverRead(d) PROVE IInv'
  <1> DEFINE t == {n \in Node : GatePending(n, status) /\ status[n] \notin Active}
             k == [NoDriver EXCEPT !.at = "gate", !.seen = status, !.todo = t]
             e == IF plan.state # "running" THEN NoDriver ELSE k
  <1>1. /\ drv[d].at = "top" /\ drv' = [drv EXCEPT ![d] = e]
        /\ UNCHANGED <<spec, status, plan, lock, active, run, resuming, stopping, mail, acts, passed>>
    BY DEF DriverRead
  <1>2. t \in SUBSET Node /\ status \in [Node -> Status]
    BY DEF IInv, StatusOK
  <1> HIDE DEF t
  <1>3. k \in PlanDriver /\ k.at = "gate" /\ k.seen = status
    BY <1>2, NoDriverTyped DEF NoDriver, PlanDriver
  <1> HIDE DEF k
  <1>4. e \in PlanDriver /\ e.at \in {"off", "gate"} /\ \A n \in Node : e.seen[n] \in Success => n \in passed
    BY <1>3, NoDriverTyped DEF IInv, StatusInv
  <1> HIDE DEF e
  <1>5. Drivers' /\ Runs' /\ OwedInv'
    BY <1>1, <1>4, DriverReplaced
  <1>6. StatusOK' /\ StatusInv' /\ PassedOK'
    BY <1>1, SameStatus
  <1>7. PlanOK' /\ CompletedIsComplete'
    BY <1>1, <1>6, SamePlan
  <1> QED
    BY <1>1, <1>5, <1>6, <1>7, SameCounts, DriverRest, Assembled

(* A driver at its gates changes its place, its list or its flag. *)
LEMMA GateMoves ==
    ASSUME IInv, NEW d \in Driver, drv[d].at = "gate", NEW a \in {"gate", "pause"}, NEW t \in SUBSET Node, NEW c \in BOOLEAN,
           drv' = [drv EXCEPT ![d].at = a, ![d].todo = t, ![d].changed = c],
           run' = run, spec' = spec, passed \subseteq passed'
    PROVE  Drivers' /\ Runs' /\ OwedInv'
  <1>1. drv \in [Driver -> PlanDriver]
    BY DEF IInv, Drivers, DrvOK
  <1>2. /\ drv' \in [Driver -> PlanDriver] /\ drv'[d] \in PlanDriver /\ drv'[d].at = a /\ drv'[d].seen = drv[d].seen
        /\ \A f \in Driver \ {d} : drv'[f] = drv[f]
    BY <1>1 DEF PlanDriver
  <1>3. \A n \in Node : drv'[d].seen[n] \in Success => n \in passed'
    BY <1>2 DEF IInv, Drivers, SeenInv
  <1> QED
    BY <1>2, <1>3, DriverMoves

LEMMA DriverFields ==
    ASSUME IInv, NEW d \in Driver
    PROVE  /\ drv[d].at \in {"off", "top", "gate", "pause", "start", "launch"} /\ drv[d].todo \in SUBSET Node
           /\ drv[d].changed \in BOOLEAN /\ drv[d].seen \in [Node -> Status] /\ drv[d].started \in 0 .. MaxActive
  BY DEF IInv, Drivers, DrvOK, PlanDriver

LEMMA GateForms ==
    ASSUME IInv, NEW d \in Driver, NEW a, NEW t
    PROVE  /\ [drv EXCEPT ![d].at = a] = [drv EXCEPT ![d].at = a, ![d].todo = drv[d].todo, ![d].changed = drv[d].changed]
           /\ [drv EXCEPT ![d].todo = t, ![d].changed = a] = [drv EXCEPT ![d].at = drv[d].at, ![d].todo = t, ![d].changed = a]
  BY DEF IInv, Drivers, DrvOK, PlanDriver

LEMMA ManualGateKeep == ASSUME IInv, NEW d \in Driver, NEW n \in Node, ManualGate(d, n) PROVE IInv'
  <1> DEFINE v == IF drv[d].seen[n] = "review" THEN status[n] ELSE "review"
  <1>1. /\ drv[d].at = "gate" /\ status' = [status EXCEPT ![n] = v]
        /\ plan' = [plan EXCEPT !.after = n] /\ drv' = [drv EXCEPT ![d].at = "pause"]
        /\ UNCHANGED <<spec, lock, active, run, resuming, stopping, mail, acts, passed>>
    BY DEF ManualGate, ResumeAfter
  <1>2. drv' = [drv EXCEPT ![d].at = "pause", ![d].todo = drv[d].todo, ![d].changed = drv[d].changed]
    BY <1>1, GateForms
  <1>3. Drivers' /\ Runs' /\ OwedInv'
    <2> DEFINE t == drv[d].todo
               c == drv[d].changed
    <2>1. t \in SUBSET Node /\ c \in BOOLEAN
      BY DriverFields
    <2>2. drv' = [drv EXCEPT ![d].at = "pause", ![d].todo = t, ![d].changed = c]
      BY <1>2
    <2> HIDE DEF t, c
    <2> QED
      BY <1>1, <2>1, <2>2, GateMoves
  <1>4. StatusOK' /\ StatusInv' /\ PassedOK'
    <2>1. v = status[n] \/ v \in Status \ Success
      BY DEF Status, Success
    <2> HIDE DEF v
    <2> QED
      BY <1>1, <2>1 DEF IInv, StatusOK, StatusInv, PassedOK
  <1>5. PlanOK' /\ plan'.state = plan.state
    BY <1>1 DEF IInv, Rest, PlanOK, WorkPlanRun
  <1>6. CompletedIsComplete'
    BY <1>1, <1>4, <1>5, PlanKept
  <1> QED
    BY <1>1, <1>3, <1>4, <1>5, <1>6, SameCounts, DriverRest, Assembled

LEMMA VerdictTyped == \A answer : Verdict(answer) \in {"pass", "fail", "needs_human"}
  BY DEF Verdict, Parsed

LEMMA EvaluateGateKeep ==
    ASSUME IInv, NEW d \in Driver, NEW n \in Node, NEW answer \in Answers, EvaluateGate(d, n, answer)
    PROVE  IInv'
  <1> DEFINE v == Verdict(answer)
             a == IF v = "pass" THEN drv[d].at ELSE "pause"
             t == drv[d].todo \ {n}
             w == CASE v = "pass" -> "done" [] v = "fail" -> "paused" [] v = "needs_human" -> "review"
  <1>1. /\ drv[d].at = "gate" /\ status' = [status EXCEPT ![n] = w]
        /\ passed' = (IF v = "pass" THEN passed \cup {n} ELSE passed)
        /\ UNCHANGED <<spec, plan, lock, active, run, resuming, stopping, mail, acts>>
    BY DEF EvaluateGate
  <1>2. drv' = [drv EXCEPT ![d].at = a, ![d].todo = t, ![d].changed = TRUE]
    BY DEF EvaluateGate, IInv, Drivers, DrvOK, PlanDriver
  <1>3. v \in {"pass", "fail", "needs_human"}
    BY VerdictTyped
  <1> HIDE DEF v
  <1>4. a \in {"gate", "pause"} /\ t \in SUBSET Node /\ passed \subseteq passed'
    BY <1>1, DriverFields
  <1>5. Drivers' /\ Runs' /\ OwedInv'
    <2> HIDE DEF a, t
    <2> QED
      BY <1>1, <1>2, <1>4, GateMoves
  <1>6. StatusOK' /\ StatusInv' /\ PassedOK'
    <2>1. CASE v = "pass"
      <3>1. w = "done"
        BY <2>1
      <3> QED
        BY <2>1, <3>1, <1>1 DEF IInv, StatusOK, Status, Success, StatusInv, PassedOK
    <2>2. CASE v # "pass"
      <3>1. w \in Status \ Success
        BY <2>2, <1>3 DEF Status, Success
      <3> HIDE DEF w
      <3> QED
        BY <2>2, <3>1, <1>1, StatusPut
    <2> QED
      BY <2>1, <2>2
  <1>7. PlanOK' /\ CompletedIsComplete'
    BY <1>1, <1>4, <1>6, SamePlan
  <1> QED
    BY <1>1, <1>5, <1>6, <1>7, SameCounts, DriverRest, Assembled

LEMMA GateErrorKeep == ASSUME IInv, NEW d \in Driver, GateError(d) PROVE IInv'
  <1>1. /\ drv[d].at = "gate" /\ drv' = [drv EXCEPT ![d].todo = {}, ![d].changed = FALSE]
        /\ acts' \in 0 .. MaxActs
        /\ UNCHANGED <<spec, status, plan, lock, active, run, resuming, stopping, mail, passed>>
    BY ActTyped DEF GateError
  <1>2. drv' = [drv EXCEPT ![d].at = drv[d].at, ![d].todo = {}, ![d].changed = FALSE]
    BY <1>1 DEF IInv, Drivers, DrvOK, PlanDriver
  <1>3. Drivers' /\ Runs' /\ OwedInv'
    BY <1>1, <1>2, GateMoves
  <1>4. StatusOK' /\ StatusInv' /\ PassedOK'
    BY <1>1, SameStatus
  <1>5. PlanOK' /\ CompletedIsComplete'
    BY <1>1, <1>4, SamePlan
  <1>6. CountsOK'
    BY <1>1 DEF IInv, Rest, CountsOK
  <1> QED
    BY <1>1, <1>3, <1>4, <1>5, <1>6, DriverRest, Assembled

LEMMA PassGateKeep == ASSUME IInv, NEW d \in Driver, NEW n \in Node, PassGate(d, n) PROVE IInv'
  <1> DEFINE t == drv[d].todo \ {n}
  <1>1. /\ drv[d].at = "gate" /\ status' = [status EXCEPT ![n] = "done"] /\ passed' = passed \cup {n}
        /\ UNCHANGED <<spec, plan, lock, active, run, resuming, stopping, mail, acts>>
    BY DEF PassGate
  <1>2. drv' = [drv EXCEPT ![d].todo = t, ![d].changed = TRUE]
    BY DEF PassGate, IInv, Drivers, DrvOK, PlanDriver
  <1>3. t \in SUBSET Node /\ passed \subseteq passed'
    BY <1>1, DriverFields
  <1> HIDE DEF t
  <1>4. drv' = [drv EXCEPT ![d].at = drv[d].at, ![d].todo = t, ![d].changed = TRUE]
    BY <1>2, GateForms
  <1>5. Drivers' /\ Runs' /\ OwedInv'
    BY <1>1, <1>3, <1>4, GateMoves
  <1>6. StatusOK' /\ StatusInv' /\ PassedOK'
    BY <1>1 DEF IInv, StatusOK, Status, Success, StatusInv, PassedOK
  <1>7. PlanOK' /\ CompletedIsComplete'
    BY <1>1, <1>3, <1>6, SamePlan
  <1> QED
    BY <1>1, <1>5, <1>6, <1>7, SameCounts, DriverRest, Assembled

LEMMA FinishMoves ==
    ASSUME IInv, NEW d \in Driver, drv[d].at # "launch", drv' = [drv EXCEPT ![d] = NoDriver],
           run' = run, spec' = spec, passed \subseteq passed'
    PROVE  Drivers' /\ Runs' /\ OwedInv'
  BY NoDriverTyped, DriverReplaced

LEMMA PausePlanKeep == ASSUME IInv, NEW d \in Driver, PausePlan(d) PROVE IInv'
  <1>1. /\ drv[d].at = "pause" /\ SaveProgress("paused", "gate") /\ drv' = [drv EXCEPT ![d] = NoDriver]
        /\ UNCHANGED <<spec, status, lock, active, run, resuming, stopping, mail, acts, passed>>
    BY DEF PausePlan, Finish
  <1>2. Drivers' /\ Runs' /\ OwedInv'
    BY <1>1, FinishMoves
  <1>3. StatusOK' /\ StatusInv' /\ PassedOK'
    BY <1>1, SameStatus
  <1>4. PlanOK' /\ plan'.state = "paused"
    BY <1>1, PlanStates
  <1>5. CompletedIsComplete'
    BY <1>4 DEF CompletedIsComplete
  <1> QED
    BY <1>1, <1>2, <1>3, <1>4, <1>5, SameCounts, DriverRest, Assembled

(* The graph a driver decides on: its copy, or a new one. *)
LEMMA ReadTyped ==
    ASSUME IInv, NEW d \in Driver
    PROVE  Read(d) \in [Node -> Status] /\ \A n \in Node : Read(d)[n] \in Success => n \in passed
  BY DriverFields DEF Read, IInv, StatusOK, StatusInv, Drivers, SeenInv

LEMMA ReadyAccepted ==
    ASSUME IInv, NEW s, \A n \in Node : s[n] \in Success => n \in passed
    PROVE  ReadyNodes(s) \in SUBSET Node /\ \A n \in ReadyNodes(s) : spec.gates[n] \subseteq passed
  <1>1. spec.gates \in [Node -> SUBSET Node] /\ Task \subseteq Node
    BY PlanTyped DEF IInv, Rest, Node
  <1> QED
    BY <1>1 DEF ReadyNodes, PrerequisitesComplete

LEMMA DecideStatus ==
    ASSUME IInv, NEW R, status' = [n \in Node |-> IF n \in R THEN "queued" ELSE status[n]], passed' = passed
    PROVE  StatusOK' /\ StatusInv' /\ PassedOK'
  BY DEF IInv, StatusOK, StatusInv, PassedOK, Status, Success

LEMMA DecideKeep == ASSUME IInv, NEW d \in Driver, Decide(d) PROVE IInv'
  <1> DEFINE s == Read(d)
             failed == FailedNodes(s)
             retry == IF spec.fail = "retry" THEN Retryable(s) ELSE {}
             rdy == ReadyNodes(s)
             Ends(x, e) == Finish(d, x, e)
  <1>1. drv[d].at = "gate" /\ UNCHANGED <<spec, lock, active, run, resuming, stopping, mail, acts, passed>>
    BY DEF Decide
  <1>2. s \in [Node -> Status] /\ \A n \in Node : s[n] \in Success => n \in passed
    BY ReadTyped
  <1>3. rdy \in SUBSET Node /\ \A n \in rdy : spec.gates[n] \subseteq passed
    BY <1>2, ReadyAccepted
  <1>4. ASSUME NEW x \in {"completed", "failed"}, NEW e \in {None, "halted", "exhausted", "skipped"}, Finish(d, x, e),
               StatusOK', StatusInv', PassedOK', x = "completed" => passed = Node
        PROVE  IInv'
    <2>1. drv' = [drv EXCEPT ![d] = NoDriver] /\ SaveProgress(x, e)
      BY <1>4 DEF Finish
    <2>2. Drivers' /\ Runs' /\ OwedInv'
      BY <1>1, <2>1, FinishMoves
    <2>3. PlanOK' /\ plan'.state = x
      BY <2>1, PlanStates
    <2>4. CompletedIsComplete'
      BY <1>1, <1>4, <2>3 DEF CompletedIsComplete
    <2> QED
      BY <1>1, <1>4, <2>2, <2>3, <2>4, SameCounts, DriverRest, Assembled
  <1>5. CASE failed # {} /\ spec.fail = "halt" /\ Finish(d, "failed", "halted") /\ UNCHANGED status
    BY <1>1, <1>4, <1>5, SameStatus
  <1>6. CASE failed # {} /\ spec.fail = "retry" /\ retry = {} /\ Finish(d, "failed", "exhausted") /\ UNCHANGED status
    BY <1>1, <1>4, <1>6, SameStatus
  <1>7. CASE /\ status' = [n \in Node |-> IF n \in retry THEN "queued" ELSE status[n]]
             /\ IF Attained(s)
                THEN IF failed = {} THEN Finish(d, "completed", None)
                                    ELSE Finish(d, "failed", "skipped")
                ELSE /\ drv' = [drv EXCEPT ![d].at = "start", ![d].seen = s, ![d].todo = rdy, ![d].ready = rdy # {}]
                     /\ UNCHANGED plan
    <2>1. StatusOK' /\ StatusInv' /\ PassedOK'
      <3> HIDE DEF retry
      <3> QED
        BY <1>1, <1>7, DecideStatus
    <2>2. CASE Attained(s) /\ failed = {}
      <3>1. Completed(s) = Node
        BY <2>2, AttainedIsAll
      <3>2. passed = Node
        BY <3>1, <1>2 DEF Completed, IInv, PassedOK
      <3>3. Finish(d, "completed", None)
        BY <2>2, <1>7
      <3> QED
        BY <2>1, <3>2, <3>3, <1>4
    <2>3. CASE Attained(s) /\ failed # {}
      BY <2>1, <2>3, <1>4, <1>7
    <2>4. CASE ~Attained(s)
      <3> DEFINE b == rdy # {}
      <3>1. drv' = [drv EXCEPT ![d].at = "start", ![d].seen = s, ![d].todo = rdy, ![d].ready = b] /\ UNCHANGED plan
        BY <2>4, <1>7
      <3>2. b \in BOOLEAN /\ drv \in [Driver -> PlanDriver]
        BY DEF IInv, Drivers, DrvOK
      <3> HIDE DEF s, rdy, b
      <3>3. /\ drv' \in [Driver -> PlanDriver] /\ drv'[d] \in PlanDriver
            /\ drv'[d].at = "start" /\ drv'[d].seen = s /\ drv'[d].todo = rdy
            /\ \A f \in Driver \ {d} : drv'[f] = drv[f]
        BY <3>1, <3>2, <1>2, <1>3 DEF PlanDriver
      <3>4. Drivers' /\ Runs' /\ OwedInv'
        BY <3>3, <1>1, <1>2, <1>3, DriverMoves
      <3>5. PlanOK' /\ CompletedIsComplete'
        BY <3>1, <1>1, <2>1, SamePlan
      <3> QED
        BY <1>1, <2>1, <3>4, <3>5, SameCounts, DriverRest, Assembled
    <2> QED
      BY <2>2, <2>3, <2>4
  <1> QED
    BY <1>5, <1>6, <1>7 DEF Decide

LEMMA EndPassKeep == ASSUME IInv, NEW d \in Driver, EndPass(d) PROVE IInv'
  <1>1. drv[d].at = "start" /\ UNCHANGED <<spec, status, lock, active, run, resuming, stopping, mail, acts, passed>>
    BY DEF EndPass
  <1>2. \/ Finish(d, "failed", "stalled")
        \/ SaveProgress("running", None) /\ drv' = [drv EXCEPT ![d] = AtTop]
    BY DEF EndPass
  <1>3. Drivers' /\ Runs' /\ OwedInv'
    BY <1>1, <1>2, FinishMoves, NoDriverTyped, DriverReplaced DEF Finish
  <1>4. PlanOK' /\ plan'.state # "completed"
    BY <1>2, PlanStates DEF Finish
  <1>5. CompletedIsComplete'
    BY <1>4 DEF CompletedIsComplete
  <1> QED
    BY <1>1, <1>3, <1>4, <1>5, SameStatus, SameCounts, DriverRest, Assembled

LEMMA BudgetBelow == ASSUME NEW d, drv[d].started \in Nat, drv[d].started < StartBudget(d) PROVE drv[d].started < MaxActive
  <1>1. ActiveNodes(drv[d].seen) \subseteq Node /\ IsFiniteSet(Node)
    BY PlanAssumption DEF ActiveNodes
  <1>2. Cardinality(ActiveNodes(drv[d].seen)) \in Nat /\ MaxActive \in Nat
    BY <1>1, PlanAssumption, FS_Subset, FS_CardinalityType
  <1> QED
    BY <1>2 DEF StartBudget

LEMMA StartNodeKeep == ASSUME IInv, NEW d \in Driver, NEW n \in Task, NEW r \in Run, StartNode(d, n, r) PROVE IInv'
  <1> DEFINE w == [NoRun EXCEPT !.at = "lock", !.node = n, !.by = d]
             t == drv[d].todo \ {n}
  <1>1. /\ drv[d].at = "start" /\ n \in drv[d].todo /\ drv[d].started < StartBudget(d)
        /\ drv' = [drv EXCEPT ![d].at = "launch", ![d].todo = t]
        /\ run' = [run EXCEPT ![r] = w]
        /\ UNCHANGED <<spec, status, plan, lock, active, resuming, stopping, mail, acts, passed>>
    BY DEF StartNode, IInv, Drivers, DrvOK, PlanDriver
  <1>2. drv \in [Driver -> PlanDriver] /\ run \in [Run -> WorkRun] /\ drv[d].started \in 0 .. MaxActive
    BY DriverFields DEF IInv, Drivers, DrvOK, Runs, RunOK
  <1>3. t \in SUBSET Node
    BY DriverFields
  <1>4. w \in WorkRun /\ w.by = d /\ w.node = n /\ w.at = "lock" /\ w.row = "none"
    BY NoRunTyped DEF NoRun, WorkRun, Launching
  <1> HIDE DEF w, t
  <1>5. /\ drv' \in [Driver -> PlanDriver] /\ drv'[d].at = "launch" /\ drv'[d].todo = t /\ drv'[d].seen = drv[d].seen
        /\ drv'[d].started = drv[d].started
        /\ \A f \in Driver \ {d} : drv'[f] = drv[f]
    BY <1>1, <1>2, <1>3 DEF PlanDriver
  <1>6. run' \in [Run -> WorkRun] /\ run'[r] = w /\ \A q \in Run \ {r} : run'[q] = run[q]
    BY <1>1, <1>2, <1>4
  <1>7. spec.gates[n] \subseteq passed
    BY <1>1 DEF IInv, Drivers, TodoInv
  <1>8. drv[d].started < MaxActive
    BY <1>1, <1>2, BudgetBelow
  <1>9. Drivers'
    <2>1. DrvOK' /\ BudgetInv'
      BY <1>5, <1>8 DEF DrvOK, BudgetInv, IInv, Drivers
    <2>2. SeenInv'
      BY <1>1, <1>5 DEF SeenInv, IInv, Drivers
    <2>3. TodoInv'
      BY <1>1, <1>5 DEF TodoInv, IInv, Drivers, t
    <2> QED
      BY <2>1, <2>2, <2>3 DEF Drivers
  <1>10. Runs'
    <2>1. RunOK' /\ RowInv'
      BY <1>4, <1>6 DEF RunOK, RowInv, IInv, Runs
    <2>2. PlanRespectsGates'
      BY <1>1, <1>4, <1>6, <1>7 DEF PlanRespectsGates, IInv, Runs
    <2> QED
      BY <2>1, <2>2 DEF Runs
  <1>11. \A q \in Run : Owing(run[q]) => run[q].by # d
    BY <1>1, OwingBy
  <1>12. OwedInv'
    <2>1. \A q \in Run : Owing(run'[q]) => drv'[run'[q].by].at = "launch"
      <3> SUFFICES ASSUME NEW q \in Run, Owing(run'[q]) PROVE drv'[run'[q].by].at = "launch"
        OBVIOUS
      <3>1. CASE q = r
        BY <3>1, <1>4, <1>5, <1>6
      <3>2. CASE q # r
        <4>1. run'[q] = run[q] /\ Owing(run[q]) /\ run[q].by \in Driver \ {d}
          BY <3>2, <1>6, <1>11 DEF Owing
        <4>2. drv[run[q].by].at = "launch"
          BY <4>1, OwingBy
        <4> QED
          BY <4>1, <4>2, <1>5
      <3> QED
        BY <3>1, <3>2
    <2>2. \A p, q \in Run : Owing(run'[p]) /\ Owing(run'[q]) /\ run'[p].by = run'[q].by => p = q
      <3> SUFFICES ASSUME NEW p \in Run, NEW q \in Run, Owing(run'[p]), Owing(run'[q]), run'[p].by = run'[q].by
                   PROVE  p = q
        OBVIOUS
      <3>1. CASE p = r \/ q = r
        BY <3>1, <1>4, <1>6, <1>11
      <3>2. CASE p # r /\ q # r
        BY <3>2, <1>6 DEF IInv, OwedInv
      <3> QED
        BY <3>1, <3>2
    <2> QED
      BY <2>1, <2>2 DEF OwedInv
  <1>13. StatusOK' /\ StatusInv' /\ PassedOK'
    BY <1>1, SameStatus
  <1>14. PlanOK' /\ CompletedIsComplete'
    BY <1>1, <1>13, SamePlan
  <1> QED
    BY <1>1, <1>9, <1>10, <1>12, <1>13, <1>14, SameCounts, DriverRest, Assembled

-----------------------------------------------------------------------------
(* Launches and consumers *)

LEMMA RunFields ==
    ASSUME IInv, NEW r \in Run
    PROVE  /\ run[r] \in WorkRun /\ run[r].node \in Task \cup {None}
           /\ run[r].by \in Driver \cup {"user", "scheduler", None}
  BY DEF IInv, Runs, RunOK, WorkRun

(* A run goes on without asking a driver for more. *)
LEMMA RunPut ==
    ASSUME IInv, NEW r \in Run, NEW w \in WorkRun, run' = [run EXCEPT ![r] = w], UNCHANGED <<drv, spec, passed>>,
           w.by \in Driver => w.by = run[r].by /\ w.node = run[r].node,
           w.at \in Launching => w.row = "none", Owing(w) => Owing(run[r])
    PROVE  Drivers' /\ Runs' /\ OwedInv'
  <1>1. run \in [Run -> WorkRun]
    BY DEF IInv, Runs, RunOK
  <1>2. run' \in [Run -> WorkRun] /\ run'[r] = w /\ \A q \in Run \ {r} : run'[q] = run[q]
    BY <1>1
  <1>3. Drivers'
    BY SameDrivers
  <1>4. Runs'
    <2>1. \A q \in Run : run'[q].by \in Driver => run'[q].by = run[q].by /\ run'[q].node = run[q].node
      BY <1>2
    <2>2. \A q \in Run : run'[q].at \in Launching => run'[q].row = "none"
      BY <1>2 DEF IInv, Runs, RowInv
    <2> QED
      BY <1>2, <2>1, <2>2, RunsKept
  <1>5. OwedInv'
    <2> SUFFICES ASSUME NEW q \in Run, Owing(run'[q])
                 PROVE  Owing(run[q]) /\ run'[q].by = run[q].by /\ drv'[run'[q].by].at = "launch"
      BY OwedKept
    <2>1. Owing(run[q]) /\ run'[q].by = run[q].by
      BY <1>2 DEF Owing
    <2> QED
      BY <2>1, OwingBy
  <1> QED
    BY <1>3, <1>4, <1>5

(* A launch returns to the driver that awaits it. *)
LEMMA DriverReturns ==
    ASSUME IInv, NEW r \in Run, NEW b \in Driver, Owing(run[r]), run[r].by = b,
           NEW w \in WorkRun, run' = [run EXCEPT ![r] = w], UNCHANGED <<spec, passed>>,
           w.by \in Driver => w.by = b /\ w.node = run[r].node, w.at \notin Launching, ~Owing(w),
           drv' \in [Driver -> PlanDriver], \A f \in Driver \ {b} : drv'[f] = drv[f],
           drv'[b].at # "launch", \A n \in Node : drv'[b].seen[n] \in Success => n \in passed,
           drv'[b].at = "start" => \A n \in drv'[b].todo : spec.gates[n] \subseteq passed
    PROVE  Drivers' /\ Runs' /\ OwedInv'
  <1>1. run \in [Run -> WorkRun]
    BY DEF IInv, Runs, RunOK
  <1>2. run' \in [Run -> WorkRun] /\ run'[r] = w /\ \A q \in Run \ {r} : run'[q] = run[q]
    BY <1>1
  <1>3. Drivers'
    <2>1. DrvOK'
      BY DEF DrvOK
    <2>2. BudgetInv'
      BY DEF IInv, Drivers, BudgetInv
    <2>3. SeenInv'
      BY DEF IInv, Drivers, SeenInv
    <2>4. TodoInv'
      BY DEF IInv, Drivers, TodoInv
    <2> QED
      BY <2>1, <2>2, <2>3, <2>4 DEF Drivers
  <1>4. Runs'
    <2>1. \A q \in Run : run'[q].by \in Driver => run'[q].by = run[q].by /\ run'[q].node = run[q].node
      BY <1>2
    <2>2. \A q \in Run : run'[q].at \in Launching => run'[q].row = "none"
      BY <1>2 DEF IInv, Runs, RowInv
    <2> QED
      BY <1>2, <2>1, <2>2, RunsKept
  <1>5. OwedInv'
    <2> SUFFICES ASSUME NEW q \in Run, Owing(run'[q])
                 PROVE  Owing(run[q]) /\ run'[q].by = run[q].by /\ drv'[run'[q].by].at = "launch"
      BY OwedKept
    <2>1. q # r /\ run'[q] = run[q] /\ Owing(run[q])
      BY <1>2
    <2>2. run[q].by \in Driver \ {b}
      BY <2>1 DEF IInv, OwedInv, Owing
    <2>3. drv[run[q].by].at = "launch"
      BY <2>1, OwingBy
    <2> QED
      BY <2>1, <2>2, <2>3
  <1> QED
    BY <1>3, <1>4, <1>5

(* A refused launch, whoever asked. *)
LEMMA RefusedKeep ==
    ASSUME IInv, NEW r \in Run, run[r].at \in Launching, NEW retryable \in BOOLEAN, NEW release \in BOOLEAN,
           Refused(r, retryable, release), UNCHANGED <<spec, active, resuming, stopping, mail, acts, passed>>
    PROVE  IInv'
  <1> DEFINE b == run[r].by
             n == run[r].node
             w == IF b = "user" THEN [NoRun EXCEPT !.at = "over"] ELSE NoRun
  <1>1. run' = [run EXCEPT ![r] = w] /\ lock' \in {lock, None}
    BY DEF Refused
  <1>2. w \in WorkRun /\ w.by \notin Driver /\ w.at \notin Launching /\ ~Owing(w)
    BY NoRunTyped DEF NoRun, WorkRun, Launching, Owing
  <1>3. \/ b \in Driver /\ drv' = [drv EXCEPT ![b].at = "start"] /\ UNCHANGED <<plan, status>>
        \/ b \in Driver /\ Finish(b, "failed", "start") /\ UNCHANGED status
        \/ b \notin Driver /\ status' = [status EXCEPT ![n] = "paused"] /\ UNCHANGED <<plan, drv>>
        \/ b \notin Driver /\ UNCHANGED <<status, plan, drv>>
    BY PlanAssumption DEF Refused
  <1>4. drv \in [Driver -> PlanDriver]
    BY DEF IInv, Drivers, DrvOK
  <1>5. b \in Driver => Owing(run[r])
    BY DEF Owing
  <1>6. LockOK' /\ SpecOK' /\ ActiveOK' /\ MailOK' /\ CountsOK'
    BY <1>1 DEF IInv, Rest, LockOK, SpecOK, ActiveOK, MailOK, CountsOK
  <1> HIDE DEF w
  <1>7. CASE b \in Driver /\ drv' = [drv EXCEPT ![b].at = "start"] /\ UNCHANGED <<plan, status>>
    <2>1. /\ drv' \in [Driver -> PlanDriver] /\ drv'[b].at = "start" /\ drv'[b].seen = drv[b].seen /\ drv'[b].todo = drv[b].todo
          /\ \A f \in Driver \ {b} : drv'[f] = drv[f]
      BY <1>4, <1>7 DEF PlanDriver
    <2>2. drv[b].at = "launch"
      BY <1>5, <1>7, OwingBy
    <2>3. \A m \in Node : drv'[b].seen[m] \in Success => m \in passed
      BY <2>1, <1>7 DEF IInv, Drivers, SeenInv
    <2>4. \A m \in drv'[b].todo : spec.gates[m] \subseteq passed
      BY <2>1, <2>2, <1>7 DEF IInv, Drivers, TodoInv
    <2> HIDE DEF b
    <2>5. run[r].by = b
      BY DEF b
    <2>6. Drivers' /\ Runs' /\ OwedInv'
      BY <1>1, <1>2, <1>5, <1>7, <2>1, <2>3, <2>4, <2>5, DriverReturns
    <2>7. StatusOK' /\ StatusInv' /\ PassedOK'
      BY <1>7, SameStatus
    <2>8. PlanOK' /\ CompletedIsComplete'
      BY <1>7, <2>7, SamePlan
    <2> QED
      BY <1>6, <2>6, <2>7, <2>8, Assembled
  <1>8. CASE b \in Driver /\ Finish(b, "failed", "start") /\ UNCHANGED status
    <2>1. drv' = [drv EXCEPT ![b] = NoDriver] /\ SaveProgress("failed", "start")
      BY <1>8 DEF Finish
    <2>2. drv' \in [Driver -> PlanDriver] /\ drv'[b] = NoDriver /\ \A f \in Driver \ {b} : drv'[f] = drv[f]
      BY <1>4, <1>8, <2>1, NoDriverTyped
    <2> HIDE DEF b
    <2>3. run[r].by = b
      BY DEF b
    <2>4. Drivers' /\ Runs' /\ OwedInv'
      BY <1>1, <1>2, <1>5, <1>8, <2>2, <2>3, NoDriverTyped, DriverReturns
    <2>5. PlanOK' /\ plan'.state = "failed"
      BY <2>1, PlanStates
    <2>6. CompletedIsComplete'
      BY <2>5 DEF CompletedIsComplete
    <2> QED
      BY <1>6, <1>8, <2>4, <2>5, <2>6, SameStatus, Assembled
  <1>9. CASE b \notin Driver /\ UNCHANGED <<plan, drv>> /\ (status' = [status EXCEPT ![n] = "paused"] \/ UNCHANGED status)
    <2>1. Drivers' /\ Runs' /\ OwedInv'
      BY <1>1, <1>2, <1>9, RunPut
    <2>2. "paused" \in Status \ Success
      BY DEF Status, Success
    <2>3. StatusOK' /\ StatusInv' /\ PassedOK'
      BY <1>9, <2>2, SameStatus, StatusPut
    <2>4. PlanOK' /\ CompletedIsComplete'
      BY <1>9, <2>3, SamePlan
    <2> QED
      BY <1>6, <2>1, <2>3, <2>4, Assembled
  <1> QED
    BY <1>3, <1>7, <1>8, <1>9

(* A step of a run that leaves drivers and plan alone. *)
LEMMA RunStepKeep ==
    ASSUME IInv, NEW r \in Run, NEW w \in WorkRun, run' = [run EXCEPT ![r] = w],
           UNCHANGED <<drv, spec, passed, plan, resuming, stopping>>,
           w.by \in Driver => w.by = run[r].by /\ w.node = run[r].node,
           w.at \in Launching => w.row = "none", Owing(w) => Owing(run[r]),
           StatusOK', StatusInv', LockOK', ActiveOK', MailOK', acts' \in 0 .. MaxActs
    PROVE  IInv'
  <1>1. Drivers' /\ Runs' /\ OwedInv'
    BY RunPut
  <1>2. PassedOK'
    BY DEF IInv, PassedOK
  <1>3. PlanOK' /\ CompletedIsComplete'
    BY <1>2, SamePlan
  <1>4. SpecOK' /\ CountsOK'
    BY DEF IInv, Rest, SpecOK, CountsOK
  <1> QED
    BY <1>1, <1>2, <1>3, <1>4, Assembled

LEMMA ActsSame == ASSUME IInv, acts' = acts PROVE acts' \in 0 .. MaxActs
  BY DEF IInv, Rest, CountsOK

LEMMA StillRows ==
    ASSUME IInv
    PROVE  /\ status' = status /\ passed' = passed => StatusOK' /\ StatusInv'
           /\ lock' = lock => LockOK'
           /\ active' = active => ActiveOK'
           /\ mail' = mail => MailOK'
  BY DEF IInv, StatusOK, StatusInv, Rest, LockOK, ActiveOK, MailOK

(* A new run that no driver asked for. *)
LEMMA NewRun ==
    ASSUME NEW n \in Task, NEW a \in {"lock", "admit"}, NEW by \in {"user", "scheduler"}
    PROVE  LET w == [NoRun EXCEPT !.at = a, !.node = n, !.by = by]
           IN  w \in WorkRun /\ w.by \notin Driver /\ w.row = "none" /\ ~Owing(w)
  BY NoRunTyped, PlanAssumption DEF NoRun, WorkRun, Launching, Owing

LEMMA UserRunKeep == ASSUME IInv, NEW n \in Task, NEW r \in Run, UserRun(n, r) PROVE IInv'
  <1> DEFINE w == [NoRun EXCEPT !.at = "lock", !.node = n, !.by = "user"]
  <1>1. /\ run' = [run EXCEPT ![r] = w] /\ acts' \in 0 .. MaxActs
        /\ UNCHANGED <<spec, status, plan, lock, active, drv, resuming, stopping, mail, passed>>
    BY ActTyped DEF UserRun
  <1>2. w \in WorkRun /\ w.by \notin Driver /\ w.row = "none" /\ ~Owing(w)
    BY NewRun
  <1> HIDE DEF w
  <1> QED
    BY <1>1, <1>2, StillRows, RunStepKeep

LEMMA SchedulerStartKeep == ASSUME IInv, NEW n \in Task, NEW r \in Run, SchedulerStart(n, r) PROVE IInv'
  <1> DEFINE w == [NoRun EXCEPT !.at = "admit", !.node = n, !.by = "scheduler"]
  <1>1. /\ run' = [run EXCEPT ![r] = w] /\ acts' \in 0 .. MaxActs
        /\ UNCHANGED <<spec, status, plan, lock, active, drv, resuming, stopping, mail, passed>>
    BY ActsSame DEF SchedulerStart, RunTask
  <1>2. w \in WorkRun /\ w.by \notin Driver /\ w.row = "none" /\ ~Owing(w)
    BY NewRun
  <1> HIDE DEF w
  <1> QED
    BY <1>1, <1>2, StillRows, RunStepKeep

LEMMA SendMessageKeep == ASSUME IInv, NEW n \in Task, NEW r \in Run, SendMessage(n, r) PROVE IInv'
  <1>1. /\ acts' \in 0 .. MaxActs
        /\ UNCHANGED <<spec, status, plan, lock, active, drv, resuming, stopping, passed>>
    BY ActTyped DEF SendMessage
  <1>2. CASE mail[n] < MaxMail /\ mail' = [mail EXCEPT ![n] = mail[n] + 1] /\ UNCHANGED run
    <2>1. mail[n] + 1 \in 0 .. MaxMail
      BY <1>2, PlanAssumption DEF IInv, Rest, MailOK
    <2>2. MailOK'
      BY <1>2, <2>1 DEF IInv, Rest, MailOK
    <2>3. Drivers' /\ Runs' /\ OwedInv' /\ StatusOK' /\ StatusInv' /\ PassedOK'
      BY <1>1, <1>2, SameRuns, SameDrivers, SameOwed, SameStatus
    <2>4. PlanOK' /\ CompletedIsComplete'
      BY <1>1, <2>3, SamePlan
    <2>5. SpecOK' /\ LockOK' /\ ActiveOK' /\ CountsOK'
      BY <1>1 DEF IInv, Rest, SpecOK, LockOK, ActiveOK, CountsOK
    <2> QED
      BY <2>2, <2>3, <2>4, <2>5, Assembled
  <1>3. CASE RunTask(n, r, "user") /\ UNCHANGED mail
    <2> DEFINE w == [NoRun EXCEPT !.at = "admit", !.node = n, !.by = "user"]
    <2>1. run' = [run EXCEPT ![r] = w]
      BY <1>3 DEF RunTask
    <2>2. w \in WorkRun /\ w.by \notin Driver /\ w.row = "none" /\ ~Owing(w)
      BY NewRun
    <2> HIDE DEF w
    <2> QED
      BY <1>1, <1>3, <2>1, <2>2, StillRows, RunStepKeep
  <1> QED
    BY <1>2, <1>3 DEF SendMessage

(* What a run is owed for. *)
LEMMA RunOwing ==
    ASSUME IInv, NEW r \in Run
    PROVE  /\ Owing(run[r]) <=> run[r].by \in Driver /\ (run[r].at \in Launching \/ run[r].row = "due")
           /\ run[r].at \in Launching => run[r].row = "none"
           /\ run[r].saw \in SUBSET Events /\ run[r].row \in {"none", "due", "running", "ended"}
  BY DEF IInv, Runs, RunOK, WorkRun, RowInv, Owing

(* A step of a run that was under way: who asked and for what stays. *)
LEMMA RunGoes ==
    ASSUME IInv, NEW r \in Run, NEW e \in WorkRun, run' = [run EXCEPT ![r] = e],
           e.by = run[r].by, e.node = run[r].node,
           e.at \in Launching => e.row = "none" /\ run[r].at \in Launching,
           e.row = "due" => run[r].row = "due" \/ run[r].at \in Launching,
           UNCHANGED <<drv, spec, passed, plan, resuming, stopping>>,
           StatusOK', StatusInv', LockOK', ActiveOK', MailOK', acts' = acts
    PROVE  IInv'
  <1>1. Owing(e) => Owing(run[r])
    BY RunOwing DEF Owing
  <1>2. acts' \in 0 .. MaxActs
    BY ActsSame
  <1> QED
    BY <1>1, <1>2, RunStepKeep

LEMMA CheckLocksKeep == ASSUME IInv, NEW r \in Run, CheckLocks(r) PROVE IInv'
  <1>1. run[r].at = "lock" /\ UNCHANGED <<spec, active, resuming, stopping, mail, acts, passed>>
    BY DEF CheckLocks
  <1>2. run[r].at \in Launching
    BY <1>1 DEF Launching
  <1>3. CASE Refused(r, FALSE, FALSE) \/ Refused(r, TRUE, FALSE)
    BY <1>1, <1>2, <1>3, RefusedKeep
  <1>4. CASE run' = [run EXCEPT ![r].at = "insert"] /\ UNCHANGED <<status, plan, drv, lock>>
    <2> DEFINE e == [run[r] EXCEPT !.at = "insert"]
    <2>1. run' = [run EXCEPT ![r] = e]
      BY <1>4 DEF IInv, Runs, RunOK
    <2>2. e \in WorkRun /\ e.by = run[r].by /\ e.node = run[r].node /\ e.row = "none"
      BY <1>2, RunFields, RunOwing DEF WorkRun, Launching
    <2> HIDE DEF e
    <2> QED
      BY <1>1, <1>2, <1>4, <2>1, <2>2, StillRows, RunGoes
  <1> QED
    BY <1>3, <1>4 DEF CheckLocks

LEMMA AcquireLocksKeep == ASSUME IInv, NEW r \in Run, AcquireLocks(r) PROVE IInv'
  <1>1. run[r].at = "insert" /\ UNCHANGED <<spec, active, resuming, stopping, mail, acts, passed>>
    BY DEF AcquireLocks
  <1>2. run[r].at \in Launching
    BY <1>1 DEF Launching
  <1>3. CASE Refused(r, FALSE, FALSE)
    BY <1>1, <1>2, <1>3, RefusedKeep
  <1>4. CASE /\ lock' = run[r].node /\ run' = [run EXCEPT ![r].at = "admit", ![r].locked = TRUE]
             /\ UNCHANGED <<status, plan, drv>>
    <2> DEFINE e == [run[r] EXCEPT !.at = "admit", !.locked = TRUE]
    <2>1. run' = [run EXCEPT ![r] = e]
      BY <1>4 DEF IInv, Runs, RunOK
    <2>2. e \in WorkRun /\ e.by = run[r].by /\ e.node = run[r].node /\ e.row = "none"
      BY <1>2, RunFields, RunOwing DEF WorkRun, Launching
    <2>3. LockOK'
      BY <1>4, RunFields DEF LockOK
    <2> HIDE DEF e
    <2> QED
      BY <1>1, <1>2, <1>4, <2>1, <2>2, <2>3, StillRows, RunGoes
  <1> QED
    BY <1>3, <1>4 DEF AcquireLocks

LEMMA BuildPacketFailsKeep == ASSUME IInv, NEW r \in Run, BuildPacketFails(r) PROVE IInv'
  <1>1. run[r].at \in Launching
    BY DEF BuildPacketFails, PacketError, Launching
  <1>2. Refused(r, FALSE, FALSE) /\ UNCHANGED <<spec, active, resuming, stopping, mail, acts, passed>>
    BY DEF BuildPacketFails
  <1> QED
    BY <1>1, <1>2, RefusedKeep

LEMMA CreateSessionKeep == ASSUME IInv, NEW r \in Run, CreateSession(r) PROVE IInv'
  <1>1. run[r].at = "admit" /\ UNCHANGED <<spec, active, resuming, stopping, mail, acts, passed>>
    BY DEF CreateSession
  <1>2. run[r].at \in Launching
    BY <1>1 DEF Launching
  <1>3. CASE Refused(r, TRUE, TRUE) \/ Refused(r, FALSE, TRUE)
    BY <1>1, <1>2, <1>3, RefusedKeep
  <1>4. CASE InsertSession(r) /\ UNCHANGED <<plan, drv, lock>>
    <2> DEFINE e == [run[r] EXCEPT !.at = "register"]
    <2>1. run' = [run EXCEPT ![r] = e]
      BY <1>4 DEF InsertSession, IInv, Runs, RunOK
    <2>2. e \in WorkRun /\ e.by = run[r].by /\ e.node = run[r].node /\ e.row = "none"
      BY <1>2, RunFields, RunOwing DEF WorkRun, Launching
    <2>3. "running" \in Status \ Success
      BY DEF Status, Active, Success
    <2>4. StatusOK' /\ StatusInv'
      BY <1>1, <1>4, <2>3, StatusPut DEF InsertSession
    <2> HIDE DEF e
    <2> QED
      BY <1>1, <1>2, <1>4, <2>1, <2>2, <2>4, StillRows, RunGoes
  <1> QED
    BY <1>3, <1>4 DEF CreateSession, NoWorktree

LEMMA RegisterKeep == ASSUME IInv, NEW r \in Run, Register(r) PROVE IInv'
  <1>1. run[r].at = "register" /\ UNCHANGED <<spec, resuming, stopping, mail, acts, passed>>
    BY DEF Register
  <1>2. run[r].at \in Launching
    BY <1>1 DEF Launching
  <1>3. CASE Refused(r, FALSE, TRUE) /\ UNCHANGED active
    BY <1>1, <1>2, <1>3, RefusedKeep
  <1>4. CASE /\ active' = [active EXCEPT ![run[r].node] = r]
             /\ run' = [run EXCEPT ![r].at = "live",
                        ![r].row = IF run[r].by \in Driver \cup {"user"} THEN "due" ELSE "none"]
             /\ UNCHANGED <<status, plan, drv, lock>>
    <2> DEFINE w == IF run[r].by \in Driver \cup {"user"} THEN "due" ELSE "none"
    <2>1. w \in {"none", "due", "running", "ended"}
      OBVIOUS
    <2> DEFINE e == [run[r] EXCEPT !.at = "live", !.row = w]
    <2>2. run' = [run EXCEPT ![r] = e]
      BY <1>4 DEF IInv, Runs, RunOK
    <2> HIDE DEF w
    <2>3. e \in WorkRun /\ e.by = run[r].by /\ e.node = run[r].node /\ e.at \notin Launching
      BY <2>1, RunFields DEF WorkRun, Consuming, Launching
    <2>4. ActiveOK'
      BY <1>4 DEF IInv, Rest, ActiveOK
    <2> HIDE DEF e
    <2> QED
      BY <1>1, <1>2, <1>4, <2>2, <2>3, <2>4, StillRows, RunGoes
  <1> QED
    BY <1>3, <1>4 DEF Register

LEMMA RecordRunKeep == ASSUME IInv, NEW r \in Run, RecordRun(r) PROVE IInv'
  <1> DEFINE b == run[r].by
             p == b \in Driver
             e == [run[r] EXCEPT !.row = "running", !.plan = p]
  <1>1. /\ run[r].row = "due"
        /\ drv' = (IF b \in Driver /\ drv[b].at = "launch"
                   THEN [drv EXCEPT ![b].at = "start", ![b].started = @ + 1] ELSE drv)
        /\ UNCHANGED <<spec, status, plan, lock, active, resuming, stopping, mail, acts, passed>>
    BY DEF RecordRun
  <1>2. run' = [run EXCEPT ![r] = e]
    BY DEF RecordRun, IInv, Runs, RunOK
  <1>3. run[r].at \notin Launching
    BY <1>1, RunOwing
  <1>4. p \in BOOLEAN
    OBVIOUS
  <1> HIDE DEF p
  <1>5. e \in WorkRun /\ e.by = b /\ e.node = run[r].node /\ e.at = run[r].at /\ e.row = "running"
    BY <1>4, RunFields DEF WorkRun
  <1> HIDE DEF e
  <1>6. ~Owing(e)
    BY <1>3, <1>5 DEF Owing
  <1>7. CASE b \in Driver
    <2>1. Owing(run[r])
      BY <1>1, <1>7 DEF Owing
    <2>2. drv[b].at = "launch"
      BY <2>1, OwingBy
    <2>3. drv' = [drv EXCEPT ![b].at = "start", ![b].started = drv[b].started + 1] /\ drv \in [Driver -> PlanDriver]
      BY <1>1, <1>7, <2>2 DEF IInv, Drivers, DrvOK
    <2>4. drv[b].started + 1 \in 0 .. MaxActive
      <3>1. drv[b].started < MaxActive /\ drv[b].started \in 0 .. MaxActive
        BY <1>7, <2>2, DriverFields DEF IInv, Drivers, BudgetInv
      <3> QED
        BY <3>1, PlanAssumption
    <2>5. /\ drv' \in [Driver -> PlanDriver] /\ drv'[b].at = "start" /\ drv'[b].seen = drv[b].seen /\ drv'[b].todo = drv[b].todo
          /\ \A f \in Driver \ {b} : drv'[f] = drv[f]
      BY <1>7, <2>3, <2>4 DEF PlanDriver
    <2>6. \A m \in Node : drv'[b].seen[m] \in Success => m \in passed
      BY <2>5, <1>7 DEF IInv, Drivers, SeenInv
    <2>7. \A m \in drv'[b].todo : spec.gates[m] \subseteq passed
      BY <2>5, <2>2, <1>7 DEF IInv, Drivers, TodoInv
    <2>8. run[r].by = b
      OBVIOUS
    <2> HIDE DEF b
    <2>9. Drivers' /\ Runs' /\ OwedInv'
      BY <1>1, <1>2, <1>3, <1>5, <1>7, <1>6, <2>1, <2>5, <2>6, <2>7, <2>8, DriverReturns
    <2>10. StatusOK' /\ StatusInv' /\ PassedOK'
      BY <1>1, SameStatus
    <2>11. PlanOK' /\ CompletedIsComplete'
      BY <1>1, <2>10, SamePlan
    <2> QED
      BY <1>1, <2>9, <2>10, <2>11, SameCounts, DriverRest, Assembled
  <1>8. CASE b \notin Driver
    BY <1>1, <1>2, <1>3, <1>5, <1>8, <1>6, ActsSame, StillRows, RunStepKeep
  <1> QED
    BY <1>7, <1>8

LEMMA ReportKeep == ASSUME IInv, NEW r \in Run, NEW e \in Events, Report(r, e) PROVE IInv'
  <1> DEFINE y == run[r].saw \cup {e}
  <1>1. run[r].at = "live" /\ UNCHANGED <<spec, plan, lock, active, drv, resuming, stopping, mail, acts, passed>>
    BY DEF Report
  <1> DEFINE w == [run[r] EXCEPT !.saw = y]
  <1>2. run' = [run EXCEPT ![r] = w]
    BY DEF Report, IInv, Runs, RunOK, WorkRun
  <1>3. y \in SUBSET Events
    BY RunOwing
  <1> HIDE DEF y
  <1>6. w \in WorkRun /\ w.by = run[r].by /\ w.node = run[r].node /\ w.at = run[r].at /\ w.row = run[r].row
    BY <1>3, RunFields DEF WorkRun
  <1> HIDE DEF w
  <1>4. StatusOK' /\ StatusInv'
    <2>1. e \in {"limit", "network", "approval"}
      BY PlanAssumption
    <2>2. "waiting_for_limit" \in Status \ Success /\ "waiting_for_network" \in Status \ Success
      BY DEF Status, Active, Success
    <2>3. \/ status' = [status EXCEPT ![run[r].node] = "waiting_for_limit"]
          \/ status' = [status EXCEPT ![run[r].node] = "waiting_for_network"]
          \/ status' = status
      BY <2>1 DEF Report
    <2> QED
      BY <1>1, <2>2, <2>3, StatusPut, SameStatus
  <1>5. run[r].at \notin Launching
    BY <1>1 DEF Launching
  <1> QED
    BY <1>1, <1>2, <1>4, <1>5, <1>6, StillRows, RunGoes

LEMMA EndStatusTyped ==
    ASSUME NEW saw, NEW o \in {"completed", "interrupted", "failed"}
    PROVE  EndStatus(saw, o) \in Status \ Success
  BY DEF EndStatus, Status, Active, Success

LEMMA SessionEndedKeep ==
    ASSUME IInv, NEW r \in Run, NEW o \in {"completed", "interrupted", "failed"}, SessionEnded(r, o)
    PROVE  IInv'
  <1> DEFINE w == IF run[r].row = "running" THEN "ended" ELSE run[r].row
             v == EndStatus(run[r].saw, o)
  <1>1. /\ run[r].at = "live" /\ status' = [status EXCEPT ![run[r].node] = v]
        /\ UNCHANGED <<spec, plan, lock, active, drv, resuming, stopping, mail, acts, passed>>
    BY DEF SessionEnded
  <1> DEFINE e == [run[r] EXCEPT !.at = "ended", !.row = w]
  <1>2. run' = [run EXCEPT ![r] = e]
    BY DEF SessionEnded, IInv, Runs, RunOK, WorkRun
  <1>3. w \in {"none", "due", "running", "ended"} /\ (w = "due" => run[r].row = "due")
    BY RunOwing
  <1>4. v \in Status \ Success
    BY EndStatusTyped
  <1> HIDE DEF w, v
  <1>5. StatusOK' /\ StatusInv'
    BY <1>1, <1>4, StatusPut
  <1>6. e \in WorkRun /\ e.by = run[r].by /\ e.node = run[r].node /\ e.at \notin Launching /\ e.row = w
    BY <1>3, RunFields DEF WorkRun, Consuming, Launching
  <1> HIDE DEF e
  <1> QED
    BY <1>1, <1>2, <1>3, <1>5, <1>6, StillRows, RunGoes

LEMMA RemoveSessionKeep == ASSUME IInv, NEW r \in Run, RemoveSession(r) PROVE IInv'
  <1>1. /\ run[r].at = "ended" /\ active' = [active EXCEPT ![run[r].node] = None]
        /\ lock' \in {lock, None}
        /\ UNCHANGED <<spec, status, plan, drv, resuming, stopping, mail, acts, passed>>
    BY DEF RemoveSession
  <1> DEFINE e == [run[r] EXCEPT !.at = "tail"]
  <1>2. run' = [run EXCEPT ![r] = e]
    BY DEF RemoveSession, IInv, Runs, RunOK
  <1>3. ActiveOK' /\ LockOK'
    BY <1>1 DEF IInv, Rest, ActiveOK, LockOK
  <1>4. e \in WorkRun /\ e.by = run[r].by /\ e.node = run[r].node /\ e.at \notin Launching /\ e.row = run[r].row
    BY RunFields DEF WorkRun, Consuming, Launching
  <1> HIDE DEF e
  <1> QED
    BY <1>1, <1>2, <1>3, <1>4, StillRows, RunGoes

(* What becomes of a run when its session is over. *)
LEMMA OverTyped ==
    ASSUME IInv, NEW r \in Run
    PROVE  LET e == Over(run[r])
           IN  /\ e \in WorkRun /\ e.by = run[r].by /\ e.node = run[r].node /\ e.at \notin Launching
               /\ e.row = run[r].row
  BY RunFields DEF Over, WorkRun, Launching

LEMMA TailWaitsKeep == ASSUME IInv, NEW r \in Run, TailWaits(r) PROVE IInv'
  <1> DEFINE e == Over(run[r])
  <1>1. /\ run' = [run EXCEPT ![r] = e]
        /\ UNCHANGED <<spec, status, plan, lock, active, drv, resuming, stopping, mail, acts, passed>>
    BY DEF TailWaits
  <1>2. e \in WorkRun /\ e.by = run[r].by /\ e.node = run[r].node /\ e.at \notin Launching /\ e.row = run[r].row
    BY OverTyped
  <1> HIDE DEF e
  <1> QED
    BY <1>1, <1>2, StillRows, RunGoes

LEMMA TailContinuesKeep == ASSUME IInv, NEW r \in Run, NEW q \in Run, TailContinues(r, q) PROVE IInv'
  <1> DEFINE n == run[r].node
             o == Over(run[r])
             w == [NoRun EXCEPT !.at = "admit", !.node = n]
  <1>1. /\ run[r].at = "tail" /\ run[q].at = "off" /\ run' = [run EXCEPT ![r] = o, ![q] = w]
        /\ UNCHANGED <<spec, plan, lock, active, drv, resuming, stopping, acts, passed>>
    BY DEF TailContinues, FreeRun
  <1>2. n \in Task \cup {None}
    BY RunFields
  <1>3. w \in WorkRun /\ w.by \notin Driver /\ w.row = "none" /\ ~Owing(w)
    BY <1>2, NoRunTyped DEF NoRun, WorkRun, Launching, Owing
  <1>4. /\ o \in WorkRun /\ o.by = run[r].by /\ o.node = run[r].node /\ o.at \notin Launching
        /\ (Owing(o) => Owing(run[r]))
    BY OverTyped, RunOwing DEF Owing
  <1>5. run \in [Run -> WorkRun] /\ r # q
    BY <1>1 DEF IInv, Runs, RunOK
  <1> HIDE DEF o, w
  <1>6. /\ run' \in [Run -> WorkRun] /\ run'[r] = o /\ run'[q] = w
        /\ \A x \in Run \ {r, q} : run'[x] = run[x]
    BY <1>1, <1>3, <1>4, <1>5
  <1>7. Runs'
    <2>1. \A x \in Run : run'[x].by \in Driver => run'[x].by = run[x].by /\ run'[x].node = run[x].node
      BY <1>3, <1>4, <1>6
    <2>2. \A x \in Run : run'[x].at \in Launching => run'[x].row = "none"
      BY <1>3, <1>4, <1>6 DEF IInv, Runs, RowInv
    <2> QED
      BY <1>1, <1>6, <2>1, <2>2, RunsKept
  <1>8. OwedInv'
    <2> SUFFICES ASSUME NEW x \in Run, Owing(run'[x])
                 PROVE  Owing(run[x]) /\ run'[x].by = run[x].by /\ drv'[run'[x].by].at = "launch"
      BY OwedKept
    <2>1. Owing(run[x]) /\ run'[x].by = run[x].by
      BY <1>3, <1>4, <1>6 DEF Owing
    <2> QED
      BY <1>1, <2>1, OwingBy
  <1>9. Drivers'
    BY <1>1, SameDrivers
  <1>10. /\ StatusOK' /\ StatusInv' /\ PassedOK' /\ MailOK'
    <2>1. \/ status' = [status EXCEPT ![n] = "queued"] /\ UNCHANGED mail
          \/ mail[n] > 0 /\ mail' = [mail EXCEPT ![n] = mail[n] - 1] /\ UNCHANGED status
      BY DEF TailContinues, SwitchQueued
    <2>2. "queued" \in Status \ Success
      BY DEF Status, Success
    <2>3. StatusOK' /\ StatusInv' /\ PassedOK'
      BY <1>1, <2>1, <2>2, StatusPut, SameStatus
    <2>4. MailOK'
      <3>1. CASE UNCHANGED mail
        BY <3>1, StillRows
      <3>2. CASE n \in Task /\ mail[n] > 0 /\ mail' = [mail EXCEPT ![n] = mail[n] - 1]
        <4>1. mail[n] \in 0 .. MaxMail /\ MaxMail \in Nat
          BY <3>2, PlanAssumption DEF IInv, Rest, MailOK
        <4>2. mail[n] - 1 \in 0 .. MaxMail
          BY <3>2, <4>1
        <4> QED
          BY <3>2, <4>2 DEF IInv, Rest, MailOK
      <3>3. CASE n \notin Task /\ mail' = [mail EXCEPT ![n] = mail[n] - 1]
        <4>1. mail \in [Task -> 0 .. MaxMail]
          BY DEF IInv, Rest, MailOK
        <4>2. mail' = mail
          BY <3>3, <4>1
        <4> QED
          BY <4>2, StillRows
      <3> QED
        BY <2>1, <3>1, <3>2, <3>3
    <2> QED
      BY <2>3, <2>4
  <1>11. PlanOK' /\ CompletedIsComplete'
    BY <1>1, <1>10, SamePlan
  <1>12. SpecOK' /\ LockOK' /\ ActiveOK' /\ CountsOK'
    BY <1>1 DEF IInv, Rest, SpecOK, LockOK, ActiveOK, CountsOK
  <1> QED
    BY <1>7, <1>8, <1>9, <1>10, <1>11, <1>12, Assembled

LEMMA RestartKeep == ASSUME IInv, Restart PROVE IInv'
  <1> DEFINE e(r) == IF run[r].at \in Consuming \cup {"over"}
                     THEN [Over(run[r]) EXCEPT !.row = IF @ = "due" THEN "none" ELSE @] ELSE NoRun
  <1>1. /\ status' = [n \in Node |-> IF n \in Task /\ status[n] = "running" THEN "queued" ELSE status[n]]
        /\ active' = [t \in Task |-> None] /\ run' = [r \in Run |-> e(r)]
        /\ drv' = [d \in Driver |-> NoDriver] /\ resuming' = 0 /\ stopping' = FALSE
        /\ mail' = [t \in Task |-> 0] /\ acts' \in 0 .. MaxActs
        /\ UNCHANGED <<spec, plan, lock, passed>>
    BY ActTyped DEF Restart
  <1>2. ASSUME NEW r \in Run
        PROVE  /\ e(r) \in WorkRun /\ e(r).at \notin Launching /\ ~Owing(e(r))
               /\ e(r).by \in Driver => e(r).by = run[r].by /\ e(r).node = run[r].node
    <2> DEFINE o == Over(run[r])
    <2>1. o \in WorkRun /\ o.by = run[r].by /\ o.node = run[r].node /\ o.at \notin Launching
      BY OverTyped
    <2> HIDE DEF o
    <2>2. CASE run[r].at \in Consuming \cup {"over"}
      <3> DEFINE w == IF o.row = "due" THEN "none" ELSE o.row
      <3>1. e(r) = [o EXCEPT !.row = w]
        BY <2>2 DEF o
      <3>2. w \in {"none", "running", "ended"}
        BY <2>1 DEF WorkRun
      <3> HIDE DEF w, e
      <3>3. e(r) \in WorkRun /\ e(r).by = o.by /\ e(r).node = o.node /\ e(r).at = o.at /\ e(r).row = w
        BY <2>1, <3>1, <3>2 DEF WorkRun
      <3> QED
        BY <2>1, <3>2, <3>3 DEF Owing
    <2>3. CASE run[r].at \notin Consuming \cup {"over"}
      <3>1. e(r) = NoRun
        BY <2>3
      <3> QED
        BY <3>1, NoRunTyped DEF Owing, Launching
    <2> QED
      BY <2>2, <2>3
  <1> HIDE DEF e
  <1>3. run' \in [Run -> WorkRun] /\ \A r \in Run : run'[r] = e(r)
    BY <1>1, <1>2
  <1>4. Runs'
    BY <1>1, <1>2, <1>3, RunsKept
  <1>5. OwedInv'
    BY <1>2, <1>3, OwedKept
  <1>6. Drivers'
    BY <1>1, NoDriverTyped DEF Drivers, DrvOK, BudgetInv, SeenInv, TodoInv
  <1>7. StatusOK' /\ StatusInv' /\ PassedOK'
    BY <1>1 DEF IInv, StatusOK, StatusInv, PassedOK, Status, Success
  <1>8. PlanOK' /\ CompletedIsComplete'
    BY <1>1, <1>7, SamePlan
  <1>9. SpecOK' /\ LockOK' /\ ActiveOK'
    BY <1>1 DEF IInv, Rest, SpecOK, LockOK, ActiveOK
  <1>10. MailOK' /\ CountsOK'
    <2>1. 0 \in 0 .. MaxMail /\ 0 \in 0 .. MaxResuming
      BY PlanAssumption
    <2> QED
      BY <1>1, <2>1 DEF MailOK, CountsOK
  <1> QED
    BY <1>4, <1>5, <1>6, <1>7, <1>8, <1>9, <1>10, Assembled

-----------------------------------------------------------------------------
(* Theorems *)

LEMMA InitHolds == Init => IInv
  <1> SUFFICES ASSUME Init PROVE IInv
    OBVIOUS
  <1>1. PICK d \in Driver : drv = [e \in Driver |-> IF e = d THEN AtTop ELSE NoDriver]
    BY DEF Init
  <1>2. Drivers
    BY <1>1, NoDriverTyped DEF Drivers, DrvOK, BudgetInv, SeenInv, TodoInv
  <1>3. run = [r \in Run |-> NoRun]
    BY DEF Init
  <1>4. Runs /\ OwedInv
    BY <1>3, NoRunTyped DEF Runs, RunOK, RowInv, PlanRespectsGates, OwedInv, Owing
  <1>5. StatusOK /\ StatusInv /\ PassedOK
    BY DEF Init, StatusOK, StatusInv, PassedOK, Status, Success
  <1>6. PlanOK /\ CompletedIsComplete
    BY DEF Init, PlanOK, WorkPlanRun, CompletedIsComplete
  <1>7. SpecOK /\ LockOK /\ ActiveOK
    BY DEF Init, SpecOK, LockOK, ActiveOK
  <1>8. MailOK /\ CountsOK
    <2>1. 0 \in 0 .. MaxMail /\ 0 \in 0 .. MaxResuming /\ 0 \in 0 .. MaxActs
      BY PlanAssumption
    <2> QED
      BY <2>1 DEF Init, MailOK, CountsOK
  <1> QED
    BY <1>2, <1>4, <1>5, <1>6, <1>7, <1>8 DEF IInv, Rest

LEMMA DriverStepKeep == ASSUME IInv, NEW d \in Driver, DriverStep(d) PROVE IInv'
  BY DriverReadKeep, GateErrorKeep, PausePlanKeep, DecideKeep, EndPassKeep, ManualGateKeep, PassGateKeep,
     EvaluateGateKeep, StartNodeKeep DEF DriverStep

LEMMA RunStepsKeep == ASSUME IInv, NEW r \in Run, RunStep(r) PROVE IInv'
  BY CheckLocksKeep, AcquireLocksKeep, BuildPacketFailsKeep, CreateSessionKeep, RegisterKeep, RecordRunKeep,
     SessionEndedKeep, RemoveSessionKeep, TailWaitsKeep, TailContinuesKeep DEF RunStep

LEMMA UsersKeep == ASSUME IInv, Users PROVE IInv'
  BY StopWorkPlanKeep, StopNodesKeep, ResumeReadKeep, ApproveKeep, SendBackKeep, UserRunKeep, SendMessageKeep DEF Users

LEMMA NextHolds == IInv /\ [Next]_vars => IInv'
  <1>1. ASSUME IInv, Next PROVE IInv'
    BY <1>1, DriverStepKeep, RunStepsKeep, UsersKeep, ResumeReadKeep, RestartKeep, ResumeWriteKeep, ReportKeep,
       SchedulerStartKeep DEF Next, SchedulerResume
  <1>2. ASSUME IInv, UNCHANGED vars PROVE IInv'
    <2>1. UNCHANGED <<spec, status, plan, lock, active, run, drv, resuming, stopping, mail, acts, passed>>
      BY <1>2 DEF vars
    <2>2. Drivers' /\ Runs' /\ OwedInv' /\ StatusOK' /\ StatusInv' /\ PassedOK'
      BY <1>2, <2>1, SameRuns, SameDrivers, SameOwed, SameStatus
    <2>3. PlanOK' /\ CompletedIsComplete' /\ CountsOK'
      BY <1>2, <2>1, <2>2, SamePlan, SameCounts
    <2> QED
      BY <1>2, <2>1, <2>2, <2>3, DriverRest, Assembled
  <1> QED
    BY <1>1, <1>2

(* The plan is well typed, a driver starts a node only when every gating
   prerequisite was accepted, although it works on a graph it read before it
   awaited gates and launches, and a completed plan has every node accepted. *)
THEOREM PlansAreSound == Spec => []PlanSound
  <1>1. IInv => PlanSound
    BY TypesIsTypeOK DEF IInv, Drivers, Runs, Rest, PlanSound, Types
  <1> QED
    BY <1>1, InitHolds, NextHolds, PTL DEF Spec

(* Only its own decision ends a driver that is at its gates, or a restart. *)
LEMMA LaunchNotAtGate == ASSUME IInv, NEW r \in Run, run[r].at \in Launching, run[r].by \in Driver
                         PROVE  drv[run[r].by].at = "launch"
  BY OwingBy DEF Owing

LEMMA OtherDrivers ==
    ASSUME IInv, NEW d \in Driver, drv[d].at = "gate", drv'[d].at = "off",
           NEW e \in Driver, DriverStep(e) \/ ResumeWrite(e)
    PROVE  e = d /\ Decide(d)
  <1>1. drv \in [Driver -> PlanDriver]
    BY DEF IInv, Drivers, DrvOK
  <1>2. e = d
    <2> SUFFICES ASSUME e # d PROVE drv'[d] = drv[d]
      OBVIOUS
    <2>1. CASE DriverRead(e)
      BY <2>1, <1>1 DEF DriverRead
    <2>2. CASE GateError(e)
      BY <2>2, <1>1 DEF GateError
    <2>3. CASE PausePlan(e) \/ EndPass(e) \/ Decide(e)
      BY <2>3, <1>1 DEF PausePlan, EndPass, Decide, Finish
    <2>4. CASE ResumeWrite(e)
      BY <2>4, <1>1 DEF ResumeWrite, Spawn
    <2>5. CASE \E n \in Node : ManualGate(e, n) \/ PassGate(e, n)
      BY <2>5, <1>1 DEF ManualGate, PassGate
    <2>6. CASE \E n \in Node, answer \in Answers : EvaluateGate(e, n, answer)
      BY <2>6, <1>1 DEF EvaluateGate
    <2>7. CASE \E n \in Task, r \in Run : StartNode(e, n, r)
      BY <2>7, <1>1 DEF StartNode
    <2> QED
      BY <2>1, <2>2, <2>3, <2>4, <2>5, <2>6, <2>7 DEF DriverStep
  <1>3. ~DriverRead(d) /\ ~PausePlan(d) /\ ~EndPass(d) /\ ~ResumeWrite(d) /\ \A n, r : ~StartNode(d, n, r)
    BY DEF DriverRead, PausePlan, EndPass, ResumeWrite, FreeDriver, StartNode
  <1>4. ~GateError(d)
    BY <1>1 DEF GateError, PlanDriver
  <1>5. \A n \in Node : ~ManualGate(d, n) /\ ~PassGate(d, n)
    BY <1>1 DEF ManualGate, PassGate, PlanDriver
  <1>6. \A n \in Node, answer \in Answers : ~EvaluateGate(d, n, answer)
    BY <1>1 DEF EvaluateGate, PlanDriver
  <1> QED
    BY <1>2, <1>3, <1>4, <1>5, <1>6 DEF DriverStep

LEMMA RunsEndNoGate ==
    ASSUME IInv, NEW d \in Driver, drv[d].at = "gate", NEW r \in Run, RunStep(r)
    PROVE  drv'[d].at # "off"
  <1>1. drv \in [Driver -> PlanDriver]
    BY DEF IInv, Drivers, DrvOK
  <1>2. ASSUME NEW x, NEW y, Refused(r, x, y), run[r].at \in Launching PROVE drv'[d].at # "off"
    <2>1. run[r].by \in Driver => drv[run[r].by].at = "launch"
      BY <1>2, LaunchNotAtGate
    <2>2. drv' = drv \/ (run[r].by \in Driver /\ (drv' = [drv EXCEPT ![run[r].by].at = "start"]
                                                  \/ drv' = [drv EXCEPT ![run[r].by] = NoDriver]))
      BY <1>2 DEF Refused, Finish
    <2> QED
      BY <1>1, <2>1, <2>2
  <1>3. CASE CheckLocks(r) \/ AcquireLocks(r) \/ BuildPacketFails(r) \/ CreateSession(r) \/ Register(r)
    <2>1. run[r].at \in Launching
      BY <1>3 DEF CheckLocks, AcquireLocks, BuildPacketFails, PacketError, CreateSession, Register, Launching
    <2>2. drv' = drv \/ \E x, y \in BOOLEAN : Refused(r, x, y)
      BY <1>3 DEF CheckLocks, AcquireLocks, BuildPacketFails, CreateSession, NoWorktree, Register
    <2> QED
      BY <1>2, <2>1, <2>2
  <1>4. CASE RecordRun(r)
    <2>1. drv' = drv \/ (run[r].by \in Driver /\ drv[run[r].by].at = "launch"
                         /\ \E x : drv' = [drv EXCEPT ![run[r].by].at = "start", ![run[r].by].started = x])
      BY <1>4 DEF RecordRun
    <2> QED
      BY <1>1, <2>1
  <1>5. CASE \/ \E o \in {"completed", "interrupted", "failed"} : SessionEnded(r, o)
             \/ RemoveSession(r) \/ TailWaits(r)
             \/ \E q \in Run : TailContinues(r, q)
    BY <1>5 DEF SessionEnded, RemoveSession, TailWaits, TailContinues
  <1> QED
    BY <1>3, <1>4, <1>5 DEF RunStep

LEMMA GateEnds ==
    ASSUME IInv, Next, NEW d \in Driver, drv[d].at = "gate", drv'[d].at = "off"
    PROVE  Decide(d) \/ plan' = plan
  <1>1. CASE \E e \in Driver : DriverStep(e) \/ ResumeWrite(e)
    BY <1>1, OtherDrivers
  <1>2. CASE \E r \in Run : RunStep(r)
    BY <1>2, RunsEndNoGate
  <1>3. CASE Users
    BY <1>3 DEF Users, StopWorkPlan, StopNodes, ResumeRead, Approve, SendBack, UserRun, SendMessage
  <1>4. CASE SchedulerResume \/ Restart
    BY <1>4 DEF SchedulerResume, ResumeRead, Restart
  <1>5. CASE (\E r \in Run, e \in Events : Report(r, e)) \/ (\E n \in Task, r \in Run : SchedulerStart(n, r))
    BY <1>5 DEF Report, SchedulerStart
  <1> QED
    BY <1>1, <1>2, <1>3, <1>4, <1>5 DEF Next

LEMMA DecideSkips ==
    ASSUME IInv, NEW d \in Driver, Decide(d), drv'[d].at = "off", plan'.error = "skipped"
    PROVE  \A n \in Node : Read(d)[n] \in Success \/ n \in Lost(Read(d))
  <1> DEFINE s == Read(d)
  <1>1. plan \in WorkPlanRun /\ drv \in [Driver -> PlanDriver]
    BY DEF IInv, Rest, PlanOK, Drivers, DrvOK
  <1>2. ~Finish(d, "failed", "halted") /\ ~Finish(d, "failed", "exhausted")
    BY <1>1 DEF Finish, SaveProgress, WorkPlanRun
  <1> DEFINE t == ReadyNodes(s)
             b == t # {}
             Goes == drv' = [drv EXCEPT ![d].at = "start", ![d].seen = s, ![d].todo = t, ![d].ready = b]
  <1>3. ~Goes
    <2> HIDE DEF s, t, b
    <2> QED
      BY <1>1 DEF PlanDriver
  <1>4. Attained(s)
    <2>1. Finish(d, "failed", "halted") \/ Finish(d, "failed", "exhausted") \/ Attained(s) \/ Goes
      BY DEF Decide
    <2> QED
      BY <1>2, <1>3, <2>1
  <1> HIDE DEF s
  <1>5. \A n \in Node : s[n] \in Success \/ n \in Lost(s)
    BY <1>4, AttainedSkips
  <1> QED
    BY <1>5 DEF s

(* A plan that ends with skipped work skipped only nodes that a failure had made
   unreachable: every other node of the graph its driver had read was finished. *)
THEOREM OnlyLostIsSkipped == Spec => SkipsOnlyLost
  <1> DEFINE A == \A d \in Driver :
                    drv[d].at = "gate" /\ drv'[d].at = "off"
                    /\ plan.error # "skipped" /\ plan'.error = "skipped"
                    => \A n \in Node : Read(d)[n] \in Success \/ n \in Lost(Read(d))
  <1>1. IInv /\ [Next]_vars => [A]_vars
    <2> SUFFICES ASSUME IInv, Next, NEW d \in Driver, drv[d].at = "gate", drv'[d].at = "off",
                        plan.error # "skipped", plan'.error = "skipped"
                 PROVE  \A n \in Node : Read(d)[n] \in Success \/ n \in Lost(Read(d))
      OBVIOUS
    <2>1. Decide(d)
      BY GateEnds
    <2> QED
      BY <2>1, DecideSkips
  <1> QED
    BY <1>1, InitHolds, NextHolds, PTL DEF Spec, SkipsOnlyLost
=============================================================================
