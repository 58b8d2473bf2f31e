---------------------------- MODULE LaunchProofs ----------------------------
(***************************************************************************)
(* What a launch takes before it starts a provider: a slot (Admission) and *)
(* an account (Accounts). The two parts are independent of each other.     *)
(***************************************************************************)
EXTENDS Admission, Accounts, SequenceTheorems, FiniteSetTheorems, TLAPS

(***************************************************************************)
(* Proofs about Admission for every set of clients, scopes and capacities. *)
(***************************************************************************)

(* What a removal from the queue is: the entries other than the i-th, in
   order (VecDeque::remove). *)
LEMMA RemoveAtType ==
    ASSUME NEW S, NEW q \in Seq(S), NEW i \in 1..Len(q)
    PROVE  /\ RemoveAt(q, i) \in Seq(S)
           /\ Len(RemoveAt(q, i)) = Len(q) - 1
           /\ \A k \in 1..(Len(q) - 1) :
                RemoveAt(q, i)[k] = IF k < i THEN q[k] ELSE q[k + 1]
<1> DEFINE a == SubSeq(q, 1, i - 1)
           b == SubSeq(q, i + 1, Len(q))
<1>1. /\ a \in Seq(S)
      /\ Len(a) = i - 1
      /\ \A k \in 1..(i - 1) : a[k] = q[k]
  OBVIOUS
<1>2. /\ b \in Seq(S)
      /\ Len(b) = Len(q) - i
      /\ \A k \in 1..(Len(q) - i) : b[k] = q[k + i]
  OBVIOUS
<1> HIDE DEF a, b
<1>3. /\ a \o b \in Seq(S)
      /\ Len(a \o b) = Len(a) + Len(b)
      /\ \A k \in 1..(Len(a) + Len(b)) :
           (a \o b)[k] = IF k <= Len(a) THEN a[k] ELSE b[k - Len(a)]
  BY <1>1, <1>2, ConcatProperties, Zenon
<1>4. RemoveAt(q, i) = a \o b
  BY DEF RemoveAt, a, b
<1>5. Len(a) + Len(b) = Len(q) - 1
  BY <1>1, <1>2
<1>6. ASSUME NEW k \in 1..(Len(q) - 1)
      PROVE  (a \o b)[k] = IF k < i THEN q[k] ELSE q[k + 1]
  <2>1. CASE k < i
    BY <1>1, <1>3, <1>5, <2>1
  <2>2. CASE ~(k < i)
    <3>1. k - Len(a) \in 1..(Len(q) - i) /\ (k - Len(a)) + i = k + 1
      BY <1>1, <2>2
    <3>2. (a \o b)[k] = b[k - Len(a)]
      BY <1>1, <1>3, <1>5, <2>2
    <3>3. b[k - Len(a)] = q[(k - Len(a)) + i]
      BY <1>2, <3>1
    <3> QED
      BY <2>2, <3>1, <3>2, <3>3
  <2> QED
    BY <2>1, <2>2
<1> QED
  BY <1>3, <1>4, <1>5, <1>6

(* The slots freed by saturating subtraction stay natural numbers. *)
LEMMA SatSubType == \A n \in Nat : SatSub(n) \in Nat
  BY DEF SatSub

(* State of admission.rs stays well formed: the counters never go below zero
   and the capacity never reaches zero (resize and set_scope_cap clamp). *)
THEOREM AdmissionTypes == AdmissionSpec => []AdmissionTypeOK
<1>1. AdmissionInit => AdmissionTypeOK
  BY CapacityAssumption DEF AdmissionInit, AdmissionTypeOK, Phase, DrainState, Off, Drainer, NoCap
<1>2. AdmissionTypeOK /\ [AdmissionNext]_admissionVars => AdmissionTypeOK'
  <2> SUFFICES ASSUME AdmissionTypeOK, [AdmissionNext]_admissionVars PROVE AdmissionTypeOK'
    OBVIOUS
  <2> USE DEF AdmissionTypeOK
  <2>1. ASSUME NEW c \in Client, Acquire(c) PROVE AdmissionTypeOK'
    BY <2>1 DEF Acquire, Admit, Phase
  <2>2. ASSUME NEW c \in Client, Enqueue(c) PROVE AdmissionTypeOK'
    BY <2>2 DEF Enqueue, Phase
  <2>3. ASSUME NEW c \in Client, Receive(c) PROVE AdmissionTypeOK'
    BY <2>3 DEF Receive, Phase
  <2>4. ASSUME NEW c \in Client, DropReceiver(c) PROVE AdmissionTypeOK'
    BY <2>4 DEF DropReceiver, Phase
  <2>5. ASSUME NEW c \in Client, DropGranted(c) PROVE AdmissionTypeOK'
    BY <2>5, SatSubType DEF DropGranted, Release, Phase, DrainState, Loop, Drainer
  <2>6. ASSUME NEW c \in Client, DropGuard(c) PROVE AdmissionTypeOK'
    <3>1. waiters' \in Seq(Client)
      <4>1. CASE c \in Queued
        <5> DEFINE k == CHOOSE i \in 1..Len(waiters) : waiters[i] = c
        <5>1. k \in 1..Len(waiters)
          BY <4>1 DEF Queued
        <5> QED
          BY <2>6, <4>1, <5>1, RemoveAtType DEF DropGuard
      <4>2. CASE c \notin Queued
        BY <2>6, <4>2 DEF DropGuard
      <4> QED
        BY <4>1, <4>2
    <3> QED
      BY <2>6, <3>1 DEF DropGuard, Phase
  <2>7. ASSUME NEW c \in Client, DropPermit(c) PROVE AdmissionTypeOK'
    BY <2>7, SatSubType DEF DropPermit, Release, Phase, DrainState, Loop, Drainer
  <2>8. ASSUME NEW n \in 1..MaxCapacity, Resize(n) PROVE AdmissionTypeOK'
    BY <2>8 DEF Resize, DrainState, Loop, Drainer
  <2>9. ASSUME NEW s \in Scope, NEW n \in 0..MaxCapacity, SetScopeCap(s, n)
        PROVE AdmissionTypeOK'
    BY <2>9 DEF SetScopeCap, DrainState, Loop, Drainer
  <2>10. ASSUME NEW d \in Drainer, PopAndReserve(d) PROVE AdmissionTypeOK'
    <3> PICK i \in 1..Len(waiters) :
          /\ FirstEligible(i)
          /\ Admit(ScopeOf[waiters[i]])
          /\ waiters' = RemoveAt(waiters, i)
          /\ drain' = [drain EXCEPT ![d] = [at |-> "send", w |-> waiters[i]]]
      BY <2>10 DEF PopAndReserve
    <3>1. waiters' \in Seq(Client)
      BY RemoveAtType
    <3>2. [at |-> "send", w |-> waiters[i]] \in DrainState
      BY DEF DrainState
    <3> QED
      BY <2>10, <3>1, <3>2 DEF PopAndReserve, Admit
  <2>11. ASSUME NEW d \in Drainer, DrainDone(d) PROVE AdmissionTypeOK'
    BY <2>11 DEF DrainDone, DrainState, Off
  <2>12. ASSUME NEW d \in Drainer, Send(d) PROVE AdmissionTypeOK'
    BY <2>12 DEF Send, DrainState, Loop, Phase
  <2>13. ASSUME NEW d \in Drainer, TakeBack(d) PROVE AdmissionTypeOK'
    BY <2>13, SatSubType DEF TakeBack, Release, DrainState, Loop
  <2>14. CASE UNCHANGED admissionVars
    BY <2>14 DEF admissionVars
  <2> QED
    BY <2>1, <2>2, <2>3, <2>4, <2>5, <2>6, <2>7, <2>8, <2>9, <2>10, <2>11,
       <2>12, <2>13, <2>14 DEF AdmissionNext
<1> QED
  BY <1>1, <1>2, PTL DEF AdmissionSpec

------------------------------------------------------------------------------
(* A step that admits somebody, or only shortens the queue, makes no waiter
   admissible that was not admissible before. *)
LEMMA AdmitDisablesWaiters ==
    ASSUME AdmissionTypeOK, NEW s, Admit(s), UNCHANGED <<capacity, scopeCap>>,
           NEW t, CanAdmit(t)'
    PROVE  CanAdmit(t)
  BY DEF AdmissionTypeOK, Admit, CanAdmit

(* What DropGuard leaves in the queue was in the queue. *)
LEMMA GuardOnlyRemoves ==
    ASSUME AdmissionTypeOK, NEW c \in Client, DropGuard(c), NEW i \in 1..Len(waiters')
    PROVE  \E j \in 1..Len(waiters) : waiters'[i] = waiters[j]
<1>1. CASE c \in Queued
  <2> DEFINE k == CHOOSE j \in 1..Len(waiters) : waiters[j] = c
  <2>1. k \in 1..Len(waiters)
    BY <1>1 DEF Queued
  <2>2. waiters' = RemoveAt(waiters, k)
    BY <1>1 DEF DropGuard
  <2> HIDE DEF k
  <2>3. /\ Len(waiters') = Len(waiters) - 1
        /\ waiters'[i] = IF i < k THEN waiters[i] ELSE waiters[i + 1]
    BY <2>1, <2>2, RemoveAtType DEF AdmissionTypeOK
  <2> QED
    BY <2>1, <2>3 DEF AdmissionTypeOK
<1>2. CASE c \notin Queued
  BY <1>2 DEF DropGuard
<1> QED
  BY <1>1, <1>2

(* No lost wake-up, for every number of clients, scopes and capacities: a
   waiter that could be admitted is only left queued while some caller is
   still inside drain_waiters.  NoStrandedWaiter is inductive on its own: each
   critical section that can make a waiter admissible puts its caller into
   the loop, and the loop is only left in the section that found no waiter. *)
THEOREM NoLostWakeUp == AdmissionSpec => []NoStrandedWaiter
<1>1. AdmissionInit => NoStrandedWaiter
  BY DEF AdmissionInit, NoStrandedWaiter
<1>2. AdmissionTypeOK /\ NoStrandedWaiter /\ [AdmissionNext]_admissionVars => NoStrandedWaiter'
  <2> SUFFICES ASSUME AdmissionTypeOK, NoStrandedWaiter, [AdmissionNext]_admissionVars,
                      \A d \in Drainer : drain'[d] = Off,
                      NEW i \in 1..Len(waiters'), Eligible(i)'
               PROVE  FALSE
    BY DEF NoStrandedWaiter
  <2>a. ASSUME UNCHANGED <<drain, waiters, running, capacity, perScope, scopeCap>>
        PROVE FALSE
    BY <2>a DEF NoStrandedWaiter, Eligible, CanAdmit
  <2>b. Loop # Off
    BY DEF Loop, Off
  <2>1. ASSUME NEW c \in Client, Acquire(c) PROVE FALSE
    <3>1. Eligible(i)
      BY <2>1, AdmitDisablesWaiters DEF Acquire, Eligible
    <3> QED
      BY <2>1, <3>1 DEF Acquire, NoStrandedWaiter
  <2>2. ASSUME NEW c \in Client, Enqueue(c) PROVE FALSE
    <3>1. /\ waiters' = Append(waiters, c)
          /\ UNCHANGED <<running, capacity, perScope, scopeCap, drain>>
          /\ ~CanAdmit(ScopeOf[c])
      BY <2>2 DEF Enqueue
    <3>2. CASE i \in 1..Len(waiters)
      <4>1. waiters'[i] = waiters[i]
        BY <3>1, <3>2 DEF AdmissionTypeOK
      <4> QED
        BY <3>1, <3>2, <4>1 DEF NoStrandedWaiter, Eligible, CanAdmit
    <3>3. CASE i = Len(waiters) + 1
      <4>1. waiters'[i] = c
        BY <3>1, <3>3 DEF AdmissionTypeOK
      <4> QED
        BY <3>1, <4>1 DEF Eligible, CanAdmit
    <3> QED
      BY <3>1, <3>2, <3>3 DEF AdmissionTypeOK
  <2>3. ASSUME NEW c \in Client, Receive(c) \/ DropReceiver(c) PROVE FALSE
    BY <2>3, <2>a DEF Receive, DropReceiver
  <2>4. ASSUME NEW c \in Client, DropGranted(c) \/ DropPermit(c) PROVE FALSE
    BY <2>4, <2>b DEF DropGranted, DropPermit, AdmissionTypeOK, Drainer
  <2>5. ASSUME NEW c \in Client, DropGuard(c) PROVE FALSE
    <3>1. PICK j \in 1..Len(waiters) : waiters'[i] = waiters[j]
      BY <2>5, GuardOnlyRemoves
    <3>2. Eligible(j)
      BY <2>5, <3>1 DEF DropGuard, Eligible, CanAdmit
    <3> QED
      BY <2>5, <3>2 DEF DropGuard, NoStrandedWaiter
  <2>6. ASSUME NEW n \in 1..MaxCapacity, Resize(n) PROVE FALSE
    BY <2>6, <2>b DEF Resize, AdmissionTypeOK, Drainer
  <2>7. ASSUME NEW s \in Scope, NEW n \in 0..MaxCapacity, SetScopeCap(s, n)
        PROVE FALSE
    BY <2>7, <2>b DEF SetScopeCap, AdmissionTypeOK, Drainer
  <2>8. ASSUME NEW d \in Drainer, PopAndReserve(d) PROVE FALSE
    <3>1. PICK j \in 1..Len(waiters) :
            drain' = [drain EXCEPT ![d] = [at |-> "send", w |-> waiters[j]]]
      BY <2>8 DEF PopAndReserve
    <3>2. drain'[d].at = "send"
      BY <3>1 DEF AdmissionTypeOK
    <3> QED
      BY <3>2 DEF Off
  <2>9. ASSUME NEW d \in Drainer, DrainDone(d) PROVE FALSE
    BY <2>9 DEF DrainDone, Eligible, CanAdmit
  <2>10. ASSUME NEW d \in Drainer, Send(d) PROVE FALSE
    <3>1. \/ drain'[d] = Loop
          \/ drain'[d] = [at |-> "takeback", w |-> drain[d].w]
      BY <2>10 DEF Send, AdmissionTypeOK
    <3>2. [at |-> "takeback", w |-> drain[d].w] # Off
      BY DEF Off
    <3> QED
      BY <2>b, <3>1, <3>2
  <2>11. ASSUME NEW d \in Drainer, TakeBack(d) PROVE FALSE
    BY <2>11, <2>b DEF TakeBack, AdmissionTypeOK
  <2>12. CASE UNCHANGED admissionVars
    BY <2>12, <2>a DEF admissionVars
  <2> QED
    BY <2>1, <2>2, <2>3, <2>4, <2>5, <2>6, <2>7, <2>8, <2>9, <2>10, <2>11,
       <2>12 DEF AdmissionNext
<1> QED
  BY <1>1, <1>2, AdmissionTypes, PTL DEF AdmissionSpec

------------------------------------------------------------------------------
Elems(q) == {q[k] : k \in 1..Len(q)}
NoRepeat(q) == \A j, k \in 1..Len(q) : q[j] = q[k] => j = k

(* Removing the i-th entry of a queue without repetitions removes exactly
   that client and leaves no repetition. *)
LEMMA RemoveAtRange ==
    ASSUME NEW q \in Seq(Client), NEW i \in 1..Len(q), NoRepeat(q)
    PROVE  /\ Elems(RemoveAt(q, i)) = Elems(q) \ {q[i]}
           /\ NoRepeat(RemoveAt(q, i))
<1> DEFINE r == RemoveAt(q, i)
<1> USE DEF NoRepeat
<1>1. /\ r \in Seq(Client)
      /\ Len(r) = Len(q) - 1
      /\ \A k \in 1..(Len(q) - 1) : r[k] = IF k < i THEN q[k] ELSE q[k + 1]
  BY RemoveAtType
<1> HIDE DEF r
<1>2. ASSUME NEW k \in 1..Len(r) PROVE r[k] \in {q[j] : j \in 1..Len(q)} \ {q[i]}
  BY <1>1
<1>3. ASSUME NEW j \in 1..Len(q), q[j] # q[i] PROVE \E k \in 1..Len(r) : r[k] = q[j]
  <2>1. CASE j < i
    BY <1>1, <2>1
  <2>2. CASE j > i
    <3>1. j - 1 \in 1..Len(r) /\ ~(j - 1 < i) /\ (j - 1) + 1 = j
      BY <1>1, <2>2
    <3> QED
      BY <1>1, <3>1
  <2> QED
    BY <1>3, <2>1, <2>2
<1>4. ASSUME NEW j \in 1..Len(r), NEW k \in 1..Len(r), r[j] = r[k] PROVE j = k
  <2> DEFINE From(x) == IF x < i THEN x ELSE x + 1
  <2>1. ASSUME NEW x \in 1..Len(r) PROVE From(x) \in 1..Len(q) /\ r[x] = q[From(x)]
    <3>1. x \in 1..(Len(q) - 1) BY <1>1
    <3> QED BY <1>1, <3>1
  <2>2. ASSUME From(j) = From(k) PROVE j = k
    BY <1>1, <2>2
  <2> HIDE DEF From
  <2>3. From(j) = From(k)
    BY <1>4, <2>1
  <2> QED BY <2>2, <2>3
<1>5. Elems(r) = Elems(q) \ {q[i]}
  BY <1>2, <1>3 DEF Elems
<1> QED
  BY <1>4, <1>5 DEF r

(* A call that is still queued, granted or holding has not begun the drain
   that follows its release. *)
NoEarlyDrain ==
    \A c \in Client : phase[c] \in {"waiting", "granted", "holding"} => drain[c] = Off

LEMMA NoEarlyDrainStep == AdmissionTypeOK /\ NoEarlyDrain /\ [AdmissionNext]_admissionVars => NoEarlyDrain'
<1> SUFFICES ASSUME AdmissionTypeOK, NoEarlyDrain, [AdmissionNext]_admissionVars PROVE NoEarlyDrain'
  OBVIOUS
<1> USE DEF AdmissionTypeOK, NoEarlyDrain, Drainer
<1>1. ASSUME NEW c \in Client, Acquire(c) \/ Enqueue(c) PROVE NoEarlyDrain'
  BY <1>1 DEF Acquire, Enqueue, Free
<1>2. ASSUME NEW c \in Client, Receive(c) \/ DropReceiver(c) \/ DropGuard(c)
      PROVE NoEarlyDrain'
  BY <1>2 DEF Receive, DropReceiver, DropGuard
<1>3. ASSUME NEW c \in Client, DropGranted(c) \/ DropPermit(c) PROVE NoEarlyDrain'
  BY <1>3 DEF DropGranted, DropPermit
<1>4. ASSUME \/ \E n \in 1..MaxCapacity : Resize(n)
             \/ \E s \in Scope, n \in 0..MaxCapacity : SetScopeCap(s, n)
      PROVE NoEarlyDrain'
  BY <1>4, ClientAssumption DEF Resize, SetScopeCap
<1>5. ASSUME NEW d \in Drainer, PopAndReserve(d) \/ DrainDone(d) \/ TakeBack(d)
      PROVE NoEarlyDrain'
  <2>1. /\ drain[d] # Off \/ drain'[d] = Off
        /\ phase' = phase
        /\ \A e \in Drainer : e # d => drain'[e] = drain[e]
    BY <1>5 DEF PopAndReserve, DrainDone, TakeBack, Loop, Off
  <2> QED
    BY <2>1
<1>6. ASSUME NEW d \in Drainer, Send(d) PROVE NoEarlyDrain'
  <2>1. /\ drain[d] # Off
        /\ \A e \in Drainer : e # d => drain'[e] = drain[e]
    BY <1>6 DEF Send, Off
  <2>2. \A c \in Client : phase'[c] # phase[c] => phase[c] = "waiting"
    BY <1>6 DEF Send
  <2> QED
    BY <2>1, <2>2
<1>7. CASE UNCHANGED admissionVars
  BY <1>7 DEF admissionVars
<1> QED
  BY <1>1, <1>2, <1>3, <1>4, <1>5, <1>6, <1>7 DEF AdmissionNext

(* Each waiter gets at most one permit.  The five parts are inductive
   together: a client is queued once, is out of the queue before a drain
   holds its sender, and its name is free for a new call only when no drain
   holds the old one. *)
LEMMA GrantStep ==
    AdmissionTypeOK /\ NoEarlyDrain /\ OneGrantPerWaiter /\ [AdmissionNext]_admissionVars => OneGrantPerWaiter'
<1> SUFFICES ASSUME AdmissionTypeOK, NoEarlyDrain, OneGrantPerWaiter, [AdmissionNext]_admissionVars
             PROVE  OneGrantPerWaiter'
  OBVIOUS
<1>q. ASSUME UNCHANGED waiters PROVE Queued' = Queued
  BY <1>q DEF Queued
<1>i. waiters \in Seq(Client) /\ NoRepeat(waiters)
  BY DEF AdmissionTypeOK, OneGrantPerWaiter, NoRepeat
<1>r. \A d \in Drainer : drain[d] \in {Loop, Off} => d \notin Reserving
  BY DEF Reserving, Loop, Off
<1>1. ASSUME NEW c \in Client, Acquire(c) PROVE OneGrantPerWaiter'
  <2>1. Queued' = Queued /\ Reserving' = Reserving
    BY <1>1, <1>q DEF Acquire, Reserving
  <2>2. c \notin Queued
    BY <1>1 DEF Acquire, Free, OneGrantPerWaiter
  <2> QED
    BY <1>1, <2>1, <2>2 DEF Acquire, Free, OneGrantPerWaiter, AdmissionTypeOK, Reserving
<1>2. ASSUME NEW c \in Client, Enqueue(c) PROVE OneGrantPerWaiter'
  <2>1. /\ waiters' = Append(waiters, c)
        /\ phase' = [phase EXCEPT ![c] = "waiting"]
        /\ drain' = drain /\ phase[c] = "idle"
        /\ \A d \in Reserving : drain[d].w # c
    BY <1>2 DEF Enqueue, Free, Reserving
  <2>2. /\ Len(waiters') = Len(waiters) + 1
        /\ \A k \in 1..Len(waiters) : waiters'[k] = waiters[k]
        /\ waiters'[Len(waiters) + 1] = c
    BY <2>1 DEF AdmissionTypeOK
  <2>3. c \notin Queued
    BY <2>1 DEF OneGrantPerWaiter
  <2>4. Queued' = Queued \cup {c} /\ Reserving' = Reserving
    BY <2>1, <2>2 DEF Queued, Reserving, AdmissionTypeOK
  <2>5. \A i, j \in 1..Len(waiters') : waiters'[i] = waiters'[j] => i = j
    BY <2>2, <2>3 DEF OneGrantPerWaiter, Queued, AdmissionTypeOK
  <2> QED
    BY <2>1, <2>3, <2>4, <2>5 DEF OneGrantPerWaiter, AdmissionTypeOK, Reserving
<1>3. ASSUME NEW c \in Client, Receive(c) \/ DropPermit(c) \/ DropGranted(c)
      PROVE OneGrantPerWaiter'
  <2>1. /\ phase[c] \in {"granted", "holding"}
        /\ UNCHANGED waiters
        /\ \A b \in Client : b # c => phase'[b] = phase[b]
        /\ phase'[c] # "waiting"
        /\ drain' = drain \/ drain' = [drain EXCEPT ![c] = Loop]
    BY <1>3 DEF Receive, DropPermit, DropGranted, AdmissionTypeOK
  <2>2. c \in Drainer /\ drain[c] = Off
    BY <2>1 DEF NoEarlyDrain, Drainer
  <2>3. Reserving' = Reserving /\ \A d \in Reserving : drain'[d] = drain[d]
    <3>1. CASE drain' = drain
      BY <3>1 DEF Reserving
    <3>2. CASE drain' = [drain EXCEPT ![c] = Loop]
      <4>1. drain'[c] = Loop /\ \A d \in Drainer \ {c} : drain'[d] = drain[d]
        BY <2>2, <3>2 DEF AdmissionTypeOK
      <4>2. drain'[c].at = "loop" /\ drain[c].at = "off"
        BY <2>2, <4>1 DEF Loop, Off
      <4> QED
        BY <4>1, <4>2 DEF Reserving
    <3> QED
      BY <2>1, <3>1, <3>2
  <2>4. c \notin Queued /\ \A d \in Reserving : drain[d].w # c
    BY <2>1 DEF OneGrantPerWaiter
  <2>5. Queued' = Queued
    BY <2>1, <1>q
  <2>6. \A d \in Reserving : drain[d].w \in Client
    BY DEF AdmissionTypeOK, Reserving, DrainState
  <2>7. Queued \subseteq Client
    BY DEF AdmissionTypeOK, Queued
  <2> QED
    BY <2>1, <2>3, <2>4, <2>5, <2>6, <2>7 DEF OneGrantPerWaiter
<1>4. ASSUME NEW c \in Client, DropReceiver(c) PROVE OneGrantPerWaiter'
  <2>1. Queued' = Queued /\ Reserving' = Reserving
    BY <1>4, <1>q DEF DropReceiver, Reserving
  <2> QED
    BY <1>4, <2>1 DEF DropReceiver, OneGrantPerWaiter, AdmissionTypeOK, Reserving
<1>5. ASSUME NEW c \in Client, DropGuard(c) PROVE OneGrantPerWaiter'
  <2>1. /\ phase[c] = "dropped" /\ phase' = [phase EXCEPT ![c] = "idle"]
        /\ drain' = drain /\ Reserving' = Reserving
    BY <1>5 DEF DropGuard, Reserving
  <2>2. /\ Queued' = Queued \ {c}
        /\ \A i, j \in 1..Len(waiters') : waiters'[i] = waiters'[j] => i = j
    <3>1. CASE c \in Queued
      <4> DEFINE k == CHOOSE j \in 1..Len(waiters) : waiters[j] = c
      <4>1. k \in 1..Len(waiters) /\ waiters[k] = c
        BY <3>1 DEF Queued
      <4>2. waiters' = RemoveAt(waiters, k)
        BY <1>5, <3>1 DEF DropGuard
      <4> HIDE DEF k
      <4>3. Elems(waiters') = Elems(waiters) \ {c} /\ NoRepeat(waiters')
        BY <1>i, <4>1, <4>2, RemoveAtRange
      <4> QED
        BY <4>3 DEF Queued, Elems, NoRepeat
    <3>2. CASE c \notin Queued
      BY <1>5, <3>2, <1>q DEF DropGuard, OneGrantPerWaiter
    <3> QED
      BY <3>1, <3>2
  <2> QED
    BY <2>1, <2>2 DEF OneGrantPerWaiter, AdmissionTypeOK, Reserving
<1>6. ASSUME \/ \E n \in 1..MaxCapacity : Resize(n)
             \/ \E s \in Scope, n \in 0..MaxCapacity : SetScopeCap(s, n)
      PROVE OneGrantPerWaiter'
  <2>1. /\ UNCHANGED <<waiters, phase>> /\ drain[Admin] = Off
        /\ drain' = [drain EXCEPT ![Admin] = Loop]
    BY <1>6 DEF Resize, SetScopeCap
  <2>2. Reserving' = Reserving /\ \A d \in Reserving : drain'[d] = drain[d]
    BY <2>1, <1>r DEF Reserving, AdmissionTypeOK, Loop, Drainer
  <2> QED
    BY <2>1, <2>2, <1>q DEF OneGrantPerWaiter
<1>7. ASSUME NEW d \in Drainer, PopAndReserve(d) PROVE OneGrantPerWaiter'
  <2>1. PICK i \in 1..Len(waiters) :
          /\ waiters' = RemoveAt(waiters, i)
          /\ drain' = [drain EXCEPT ![d] = [at |-> "send", w |-> waiters[i]]]
    BY <1>7 DEF PopAndReserve
  <2>2. phase' = phase /\ d \notin Reserving
    BY <1>7, <1>r DEF PopAndReserve
  <2>3. /\ Queued' = Queued \ {waiters[i]}
        /\ \A j, k \in 1..Len(waiters') : waiters'[j] = waiters'[k] => j = k
    <3>1. Elems(waiters') = Elems(waiters) \ {waiters[i]} /\ NoRepeat(waiters')
      BY <1>i, <2>1, RemoveAtRange
    <3> QED
      BY <3>1 DEF Queued, Elems, NoRepeat
  <2>4. /\ Reserving' = Reserving \cup {d}
        /\ drain'[d].at = "send" /\ drain'[d].w = waiters[i]
        /\ \A e \in Reserving : drain'[e] = drain[e]
    BY <2>1, <2>2 DEF Reserving, AdmissionTypeOK
  <2>5. waiters[i] \in Queued /\ \A e \in Reserving : drain[e].w # waiters[i]
    BY DEF OneGrantPerWaiter, Queued
  <2> QED
    BY <2>2, <2>3, <2>4, <2>5 DEF OneGrantPerWaiter
<1>8. ASSUME NEW d \in Drainer, DrainDone(d) PROVE OneGrantPerWaiter'
  <2>1. Reserving' = Reserving /\ \A e \in Reserving : drain'[e] = drain[e]
    BY <1>8, <1>r DEF DrainDone, Reserving, AdmissionTypeOK, Off
  <2> QED
    BY <1>8, <2>1, <1>q DEF OneGrantPerWaiter, DrainDone
<1>9. ASSUME NEW d \in Drainer, Send(d) PROVE OneGrantPerWaiter'
  <2> DEFINE c == drain[d].w
  <2>1. d \in Reserving /\ c \in Client /\ UNCHANGED waiters
    BY <1>9 DEF Send, Reserving, AdmissionTypeOK, DrainState
  <2>2. CASE phase[c] = "waiting"
    <3>1. phase' = [phase EXCEPT ![c] = "granted"] /\ drain' = [drain EXCEPT ![d] = Loop]
      BY <1>9, <2>2 DEF Send
    <3>2. Reserving' = Reserving \ {d} /\ \A e \in Reserving' : drain'[e] = drain[e]
      BY <3>1 DEF Reserving, AdmissionTypeOK, Loop
    <3> QED
      BY <2>1, <2>2, <3>1, <3>2, <1>q DEF OneGrantPerWaiter, AdmissionTypeOK
  <2>3. CASE phase[c] # "waiting"
    <3>1. phase' = phase /\ drain' = [drain EXCEPT ![d] = [at |-> "takeback", w |-> c]]
      BY <1>9, <2>3 DEF Send
    <3>2. /\ Reserving' = Reserving
          /\ drain'[d].w = c
          /\ \A e \in Reserving : e # d => drain'[e] = drain[e]
      BY <2>1, <3>1 DEF Reserving, AdmissionTypeOK
    <3> QED
      BY <2>1, <2>3, <3>1, <3>2, <1>q DEF OneGrantPerWaiter, AdmissionTypeOK
  <2> QED
    BY <2>2, <2>3
<1>10. ASSUME NEW d \in Drainer, TakeBack(d) PROVE OneGrantPerWaiter'
  <2>1. /\ drain[d].at = "takeback" /\ UNCHANGED <<waiters, phase>>
        /\ drain' = [drain EXCEPT ![d] = Loop]
    BY <1>10 DEF TakeBack
  <2>2. Reserving' = Reserving \ {d} /\ \A e \in Reserving' : drain'[e] = drain[e]
    BY <2>1 DEF Reserving, AdmissionTypeOK, Loop
  <2> QED
    BY <2>1, <2>2, <1>q DEF OneGrantPerWaiter
<1>11. CASE UNCHANGED admissionVars
  BY <1>11, <1>q DEF admissionVars, OneGrantPerWaiter, Reserving
<1> QED
  BY <1>1, <1>2, <1>3, <1>4, <1>5, <1>6, <1>7, <1>8, <1>9, <1>10, <1>11 DEF AdmissionNext

------------------------------------------------------------------------------
(* The counters count the owners: the induction hypothesis of the accounting
   theorem and of the refinement. *)
AccountInv == AdmissionTypeOK /\ NoEarlyDrain /\ OneGrantPerWaiter /\ SlotAccounting

LEMMA OwnersFinite == ASSUME AdmissionTypeOK PROVE Owners \subseteq Client /\ IsFiniteSet(Owners)
<1>1. Owners \subseteq Client
  BY DEF AdmissionTypeOK, Owners, Holders, Reserving, DrainState
<1> QED
  BY <1>1, ClientAssumption, FS_Subset

(* Counting one owner more, or one less, is what Admit and Release do. *)
LEMMA AdmitCounts ==
    ASSUME AdmissionTypeOK, SlotAccounting, NEW c \in Client, c \notin Owners,
           Owners' = Owners \cup {c}, Admit(ScopeOf[c])
    PROVE  SlotAccounting'
<1>1. IsFiniteSet(Owners)
  BY OwnersFinite
<1>2. running' = Cardinality(Owners')
  BY <1>1, FS_AddElement, FS_CardinalityType DEF SlotAccounting, Admit
<1>3. ASSUME NEW s \in Scope
      PROVE  perScope'[s] = Cardinality({b \in Owners' : ScopeOf[b] = s})
  <2> DEFINE A == {b \in Owners : ScopeOf[b] = s}
             B == {b \in Owners' : ScopeOf[b] = s}
  <2>1. IsFiniteSet(A) /\ Cardinality(A) \in Nat /\ perScope[s] = Cardinality(A)
    BY <1>1, FS_Subset, FS_CardinalityType DEF SlotAccounting
  <2>2. CASE ScopeOf[c] = s
    <3>1. B = A \cup {c} /\ c \notin A
      BY <2>2
    <3>2. Cardinality(B) = Cardinality(A) + 1
      BY <2>1, <3>1, FS_AddElement
    <3> QED
      BY <2>1, <2>2, <3>2 DEF Admit
  <2>3. CASE ScopeOf[c] # s
    <3>1. B = A
      BY <2>3
    <3> QED
      BY <2>1, <2>3, <3>1 DEF Admit
  <2> QED
    BY <2>2, <2>3
<1> QED
  BY <1>2, <1>3 DEF SlotAccounting

LEMMA ReleaseCounts ==
    ASSUME AdmissionTypeOK, SlotAccounting, NEW c \in Owners,
           Owners' = Owners \ {c}, Release(ScopeOf[c])
    PROVE  SlotAccounting'
<1>1. IsFiniteSet(Owners)
  BY OwnersFinite
<1>a. ASSUME NEW S, IsFiniteSet(S), NEW x \in S
      PROVE  Cardinality(S \ {x}) = SatSub(Cardinality(S))
  <2>1. S \ {x} # S /\ Cardinality(S) \in Nat /\ Cardinality(S \ {x}) \in Nat
    BY <1>a, FS_CardinalityType, FS_RemoveElement
  <2>2. Cardinality(S \ {x}) = Cardinality(S) - 1
    BY <1>a, FS_RemoveElement
  <2> QED
    BY <2>1, <2>2 DEF SatSub
<1>2. running' = Cardinality(Owners')
  BY <1>1, <1>a DEF SlotAccounting, Release
<1>3. ASSUME NEW s \in Scope
      PROVE  perScope'[s] = Cardinality({b \in Owners' : ScopeOf[b] = s})
  <2> DEFINE A == {b \in Owners : ScopeOf[b] = s}
             B == {b \in Owners' : ScopeOf[b] = s}
  <2>1. IsFiniteSet(A) /\ perScope[s] = Cardinality(A)
    BY <1>1, FS_Subset DEF SlotAccounting
  <2>2. CASE ScopeOf[c] = s
    <3>1. B = A \ {c} /\ c \in A
      BY <2>2
    <3>2. Cardinality(B) = SatSub(Cardinality(A))
      BY <2>1, <3>1, <1>a
    <3> QED
      BY <2>1, <2>2, <3>2 DEF Release
  <2>3. CASE ScopeOf[c] # s
    <3>1. B = A
      BY <2>3
    <3> QED
      BY <2>1, <2>3, <3>1 DEF Release
  <2> QED
    BY <2>2, <2>3
<1> QED
  BY <1>2, <1>3 DEF SlotAccounting

(* What each step does to the owners: a slot is taken by Acquire and by
   pop_and_reserve, given back by the drops and the take-back, and only moved
   by the send. *)
Taken(c) == /\ c \in Client /\ c \notin Owners
            /\ Owners' = Owners \cup {c}
            /\ CanAdmit(ScopeOf[c]) /\ Admit(ScopeOf[c])
            /\ UNCHANGED <<capacity, scopeCap>>
Given(c) == /\ c \in Owners /\ Owners' = Owners \ {c}
            /\ Release(ScopeOf[c])
            /\ UNCHANGED <<capacity, scopeCap>>
SlotsKept == /\ Owners' = Owners
        /\ UNCHANGED <<running, perScope>>
        /\ \/ UNCHANGED <<capacity, scopeCap>>
           \/ \E n \in 1..MaxCapacity : capacity' = n /\ UNCHANGED scopeCap
           \/ \E s \in Scope, n \in 0..MaxCapacity :
                scopeCap' = [scopeCap EXCEPT ![s] = n] /\ UNCHANGED capacity

LEMMA OwnerSteps ==
    ASSUME AdmissionTypeOK, NoEarlyDrain, OneGrantPerWaiter, [AdmissionNext]_admissionVars
    PROVE  SlotsKept \/ \E c \in Client : Taken(c) \/ Given(c)
<1> DEFINE Goal == SlotsKept \/ \E c \in Client : Taken(c) \/ Given(c)
<1>h. \A c \in Client : c \in Holders <=> phase[c] \in {"granted", "holding"}
  BY DEF Holders
<1>w. \A d \in Reserving : drain[d].w \in Client /\ drain[d].w \notin Holders
  BY DEF AdmissionTypeOK, Reserving, DrainState, OneGrantPerWaiter, Holders
<1>r. \A d \in Drainer : drain[d] \in {Loop, Off} => d \notin Reserving
  BY DEF Reserving, Loop, Off
<1>k. ASSUME Holders' = Holders, Reserving' = Reserving,
             \A d \in Reserving : drain'[d].w = drain[d].w
      PROVE  Owners' = Owners
  BY <1>k DEF Owners
<1>1. ASSUME NEW c \in Client, Acquire(c) PROVE Goal
  <2>1. Holders' = Holders \cup {c} /\ drain' = drain /\ Reserving' = Reserving
    BY <1>1 DEF Acquire, Holders, AdmissionTypeOK, Reserving
  <2>2. c \notin Holders /\ \A d \in Reserving : drain[d].w # c
    BY <1>1 DEF Acquire, Free, Holders, Reserving
  <2>3. Owners' = Owners \cup {c} /\ c \notin Owners
    BY <2>1, <2>2 DEF Owners
  <2>4. Taken(c)
    BY <1>1, <2>3 DEF Taken, Acquire
  <2> QED
    BY <2>4
<1>2. ASSUME NEW c \in Client,
             Enqueue(c) \/ Receive(c) \/ DropReceiver(c) \/ DropGuard(c)
      PROVE Goal
  <2>1. /\ UNCHANGED <<running, perScope, capacity, scopeCap, drain>>
        /\ Holders' = Holders
    BY <1>2 DEF Enqueue, Receive, DropReceiver, DropGuard, Free, Holders, AdmissionTypeOK
  <2>2. Owners' = Owners
    BY <2>1 DEF Owners, Reserving
  <2> QED
    BY <2>1, <2>2 DEF SlotsKept
<1>3. ASSUME NEW c \in Client, DropGranted(c) \/ DropPermit(c) PROVE Goal
  <2>1. /\ c \in Holders /\ Holders' = Holders \ {c}
        /\ drain' = [drain EXCEPT ![c] = Loop]
        /\ Release(ScopeOf[c]) /\ UNCHANGED <<capacity, scopeCap>>
    BY <1>3 DEF DropGranted, DropPermit, Holders, AdmissionTypeOK
  <2>2. drain[c] = Off /\ c \in Drainer
    BY <2>1, <1>h DEF NoEarlyDrain, Drainer
  <2>3. drain'[c] = Loop /\ \A d \in Drainer \ {c} : drain'[d] = drain[d]
    BY <2>1, <2>2 DEF AdmissionTypeOK
  <2>4. drain'[c].at = "loop" /\ drain[c].at = "off"
    BY <2>2, <2>3 DEF Loop, Off
  <2>5. Reserving' = Reserving /\ \A d \in Reserving : drain'[d] = drain[d]
    BY <2>3, <2>4 DEF Reserving
  <2>6. Owners' = Owners \ {c} /\ c \in Owners
    BY <2>1, <2>5, <1>w DEF Owners
  <2>7. Given(c)
    BY <2>1, <2>6 DEF Given
  <2> QED
    BY <2>7
<1>4. ASSUME \/ \E n \in 1..MaxCapacity : Resize(n)
             \/ \E s \in Scope, n \in 0..MaxCapacity : SetScopeCap(s, n)
      PROVE Goal
  <2>1. /\ drain[Admin] = Off /\ drain' = [drain EXCEPT ![Admin] = Loop]
        /\ UNCHANGED <<running, perScope, phase>>
        /\ \/ \E n \in 1..MaxCapacity : capacity' = n /\ UNCHANGED scopeCap
           \/ \E s \in Scope, n \in 0..MaxCapacity :
                scopeCap' = [scopeCap EXCEPT ![s] = n] /\ UNCHANGED capacity
    BY <1>4 DEF Resize, SetScopeCap
  <2>2. Reserving' = Reserving /\ \A d \in Reserving : drain'[d] = drain[d]
    BY <2>1, <1>r DEF Reserving, AdmissionTypeOK, Loop, Drainer
  <2>3. Owners' = Owners
    BY <2>1, <2>2 DEF Owners, Holders
  <2> QED
    BY <2>1, <2>3 DEF SlotsKept
<1>5. ASSUME NEW d \in Drainer, PopAndReserve(d) PROVE Goal
  <2>1. PICK i \in 1..Len(waiters) :
          /\ FirstEligible(i) /\ Admit(ScopeOf[waiters[i]])
          /\ drain' = [drain EXCEPT ![d] = [at |-> "send", w |-> waiters[i]]]
    BY <1>5 DEF PopAndReserve
  <2> DEFINE c == waiters[i]
  <2>2. phase' = phase /\ d \notin Reserving /\ UNCHANGED <<capacity, scopeCap>>
    BY <1>5, <1>r DEF PopAndReserve
  <2>3. /\ Reserving' = Reserving \cup {d} /\ drain'[d].w = c
        /\ \A e \in Reserving : drain'[e] = drain[e]
    BY <2>1, <2>2 DEF Reserving, AdmissionTypeOK
  <2>4. c \in Client /\ c \notin Holders /\ \A e \in Reserving : drain[e].w # c
    <3>1. c \in Queued /\ c \in Client
      BY DEF Queued, AdmissionTypeOK
    <3> QED
      BY <3>1 DEF OneGrantPerWaiter, Holders
  <2>5. CanAdmit(ScopeOf[c])
    BY <2>1 DEF FirstEligible, Eligible
  <2> HIDE DEF c
  <2>6. Holders' = Holders
    BY <2>2 DEF Holders
  <2>7. Owners' = Owners \cup {c} /\ c \notin Owners
    BY <2>3, <2>4, <2>6 DEF Owners
  <2>8. Taken(c)
    BY <2>1, <2>2, <2>4, <2>5, <2>7 DEF Taken, c
  <2> QED
    BY <2>4, <2>8
<1>6. ASSUME NEW d \in Drainer, DrainDone(d) PROVE Goal
  <2>1. Reserving' = Reserving /\ \A e \in Reserving : drain'[e] = drain[e]
    BY <1>6, <1>r DEF DrainDone, Reserving, AdmissionTypeOK, Off
  <2>2. Owners' = Owners
    BY <1>6, <2>1 DEF Owners, Holders, DrainDone
  <2> QED
    BY <1>6, <2>2 DEF SlotsKept, DrainDone
<1>7. ASSUME NEW d \in Drainer, Send(d) PROVE Goal
  <2> DEFINE c == drain[d].w
  <2>1. d \in Reserving /\ c \in Client
    BY <1>7, <1>w DEF Send, Reserving
  <2>2. UNCHANGED <<running, perScope, capacity, scopeCap>>
    BY <1>7 DEF Send
  <2>3. CASE phase[c] = "waiting"
    <3>1. phase' = [phase EXCEPT ![c] = "granted"] /\ drain' = [drain EXCEPT ![d] = Loop]
      BY <1>7, <2>3 DEF Send
    <3>2. Reserving' = Reserving \ {d} /\ \A e \in Reserving' : drain'[e] = drain[e]
      BY <3>1 DEF Reserving, AdmissionTypeOK, Loop
    <3>3. Holders' = Holders \cup {c}
      BY <2>1, <3>1 DEF Holders, AdmissionTypeOK
    <3>4. Owners' = Owners
      BY <2>1, <3>2, <3>3 DEF Owners
    <3> QED
      BY <2>2, <3>4 DEF SlotsKept
  <2>4. CASE phase[c] # "waiting"
    <3>1. phase' = phase /\ drain' = [drain EXCEPT ![d] = [at |-> "takeback", w |-> c]]
      BY <1>7, <2>4 DEF Send
    <3>2. Reserving' = Reserving /\ \A e \in Reserving : drain'[e].w = drain[e].w
      BY <2>1, <3>1 DEF Reserving, AdmissionTypeOK
    <3>3. Owners' = Owners
      BY <3>1, <3>2, <1>k DEF Holders
    <3> QED
      BY <2>2, <3>3 DEF SlotsKept
  <2> QED
    BY <2>3, <2>4
<1>8. ASSUME NEW d \in Drainer, TakeBack(d) PROVE Goal
  <2> DEFINE c == drain[d].w
  <2>1. /\ d \in Reserving /\ phase' = phase /\ drain' = [drain EXCEPT ![d] = Loop]
        /\ Release(ScopeOf[c]) /\ UNCHANGED <<capacity, scopeCap>>
    BY <1>8 DEF TakeBack, Reserving
  <2>2. Reserving' = Reserving \ {d} /\ \A e \in Reserving' : drain'[e] = drain[e]
    BY <2>1 DEF Reserving, AdmissionTypeOK, Loop
  <2>3. c \in Client /\ c \notin Holders /\ \A e \in Reserving : drain[e].w = c => e = d
    BY <2>1, <1>w DEF OneGrantPerWaiter
  <2>4. Holders' = Holders
    BY <2>1 DEF Holders
  <2>5. Owners' = Owners \ {c} /\ c \in Owners
    BY <2>1, <2>2, <2>3, <2>4 DEF Owners
  <2>6. Given(c)
    BY <2>1, <2>5 DEF Given
  <2> QED
    BY <2>3, <2>6
<1>9. CASE UNCHANGED admissionVars
  BY <1>9 DEF admissionVars, SlotsKept, Owners, Holders, Reserving
<1> QED
  BY <1>1, <1>2, <1>3, <1>4, <1>5, <1>6, <1>7, <1>8, <1>9 DEF AdmissionNext

LEMMA AccountInvariant == AdmissionSpec => []AccountInv
<1>1. AdmissionInit => NoEarlyDrain /\ OneGrantPerWaiter /\ SlotAccounting
  <2> SUFFICES ASSUME AdmissionInit PROVE NoEarlyDrain /\ OneGrantPerWaiter /\ SlotAccounting
    OBVIOUS
  <2>1. Reserving = {} /\ Holders = {} /\ Queued = {}
    BY DEF AdmissionInit, Reserving, Holders, Queued, Off
  <2>2. Owners = {} /\ \A s \in Scope : {c \in Owners : ScopeOf[c] = s} = {}
    BY <2>1 DEF Owners
  <2> QED
    BY <2>1, <2>2, FS_EmptySet DEF AdmissionInit, NoEarlyDrain, OneGrantPerWaiter, SlotAccounting
<1>2. AccountInv /\ [AdmissionNext]_admissionVars => SlotAccounting'
  <2> SUFFICES ASSUME AccountInv, [AdmissionNext]_admissionVars PROVE SlotAccounting'
    OBVIOUS
  <2>1. CASE SlotsKept
    BY <2>1 DEF AccountInv, SlotAccounting, SlotsKept
  <2>2. ASSUME NEW c \in Client, Taken(c) PROVE SlotAccounting'
    BY <2>2, AdmitCounts DEF AccountInv, Taken
  <2>3. ASSUME NEW c \in Client, Given(c) PROVE SlotAccounting'
    BY <2>3, ReleaseCounts DEF AccountInv, Given
  <2> QED
    BY <2>1, <2>2, <2>3, OwnerSteps DEF AccountInv
<1> QED
  BY <1>1, <1>2, NoEarlyDrainStep, GrantStep, AdmissionTypes, PTL DEF AdmissionSpec, AccountInv

(* No slot leaks and none is freed twice, for every set of callers: Drop, the
   take-back of drain_waiters and WaiterGuard::drop settle each slot once. *)
THEOREM SlotsAccountedFor == AdmissionSpec => [](SlotAccounting /\ OneGrantPerWaiter)
<1>1. AccountInv => SlotAccounting /\ OneGrantPerWaiter
  BY DEF AccountInv
<1> QED
  BY <1>1, AccountInvariant, PTL

(* admission.rs implements the pool of slots: every critical section and every
   send outside the mutex is a take, a give, a resize, a change of cap or
   invisible. *)
THEOREM RefinesPool == AdmissionSpec => ImplementsPool
<1>c. \A S : Pool!Cardinality(S) = Cardinality(S)
  BY DEF Pool!Cardinality, Cardinality, Pool!IsFiniteSet, IsFiniteSet
<1>1. AdmissionInit => Pool!Init
  BY DEF AdmissionInit, Pool!Init, Owners, Holders, Reserving, Off, NoCap
<1>2. AccountInv /\ [AdmissionNext]_admissionVars => [Pool!Next]_<<capacity, scopeCap, Owners>>
  <2> SUFFICES ASSUME AccountInv, [AdmissionNext]_admissionVars
               PROVE  Pool!Next \/ UNCHANGED <<capacity, scopeCap, Owners>>
    OBVIOUS
  <2>1. CASE SlotsKept
    BY <2>1 DEF SlotsKept, Pool!Next, Pool!Resize, Pool!SetScopeCap
  <2>2. ASSUME NEW c \in Client, Taken(c) PROVE Pool!Take(c)
    BY <2>2, <1>c DEF Taken, Pool!Take, Pool!InScope, AccountInv, SlotAccounting, CanAdmit, NoCap
  <2>3. ASSUME NEW c \in Client, Given(c) PROVE Pool!Give(c)
    BY <2>3 DEF Given, Pool!Give
  <2> QED
    BY <2>1, <2>2, <2>3, OwnerSteps DEF AccountInv, Pool!Next
<1> QED
  BY <1>1, <1>2, AccountInvariant, PTL DEF AdmissionSpec, ImplementsPool, Pool!Spec

(***************************************************************************)
(* Proofs about Accounts for every set of accounts, every order of the     *)
(* pool and every interleaving of messages, launches, fallbacks and ticks. *)
(*                                                                         *)
(* A launch reads the policy, the sign-ins and the rows in separate steps. *)
(* The invariant follows what it holds: an account it may still take was   *)
(* on when the policy was read, and an account it has picked was free of a *)
(* limit when the rows were read, so neither can have been off or limited  *)
(* ever since the launch began.                                            *)
(***************************************************************************)

Distinct(s) == \A i, j \in DOMAIN s : s[i] = s[j] => i = j

Edits == {"add", "toggle", "activate", "delete", "system", "switch"}

(* The stored pool and every copy of it name an account once. *)
CopiesDistinct == Distinct(policy.order) /\ \A p \in Procs : Distinct(job[p].copy.order)

(* A message that has read the policy is an edit of an account. *)
EditInv == job["ui"].pc = "set" => job["ui"].op \in Edits /\ job["ui"].who \in Accts

(* What a launch holds is on and free of a limit at some moment since it began. *)
LaunchInv ==
    /\ job["launch"].pc # "idle" => job["launch"].agent \in Agents
    /\ job["launch"].pc = "rows" => Listed("launch") \cap job["launch"].on \cap since.off = {}
    /\ job["launch"].pc \in {"mark", "use"} => job["launch"].ready \cap (since.lim \cup since.off) = {}

(* The parts of the type invariant. *)
PolicyOK == policy \in Policy
RowsOK == st \in [Accts -> Row]
JobsOK == job \in [Procs -> Job]
ThreadOK == th \in Thread
SetsOK == signed \subseteq Accts /\ wrong \subseteq Accts /\ redeemed \subseteq Accts
LockOK == lock \in Procs \cup {None}
CountsOK == ops \in 0 .. MaxOps /\ limits \in 0 .. MaxLimits /\ fails \in 0 .. MaxFails
SinceOK == since \in [lim : SUBSET Accts, off : SUBSET Accts]

Types == PolicyOK /\ RowsOK /\ JobsOK /\ ThreadOK /\ SetsOK /\ LockOK /\ CountsOK /\ SinceOK

IInv == Types /\ CopiesDistinct /\ EditInv /\ LaunchInv /\ ResumedInOwnProfile

LEMMA TypesIsTypeOK == Types <=> TypeOK
  BY DEF Types, TypeOK, PolicyOK, RowsOK, JobsOK, ThreadOK, SetsOK, LockOK, CountsOK, SinceOK

-----------------------------------------------------------------------------
(* Operators *)

LEMMA AgentTyped == \A a : AgentOf(a) \in Agents /\ AgentOf(a) # None
  BY AcctsAssumption DEF AgentOf, Agents

LEMMA ProfileTyped == \A a \in Accts : Profile(a) \in Accts \cup Agents
  BY AgentTyped DEF Profile, Accts

LEMMA NoJobTyped == NoJob \in Job /\ NoCopy \in Policy
  <1>1. NoCopy \in Policy
    BY DEF NoCopy, Policy
  <1> QED
    BY <1>1 DEF NoJob, Job

LEMMA BeginTyped ==
    ASSUME NEW p, NEW op \in {"user", "spawned", "tick", "next", "resume", "refresh"},
           NEW who \in Accts \cup {None}, NEW ag \in Agents \cup {None}
    PROVE  /\ Begin(p, op, who, ag) \in Job
           /\ Begin(p, op, who, ag).pc = "sync" /\ Begin(p, op, who, ag).agent = ag
           /\ Begin(p, op, who, ag).copy = NoCopy
  BY NoJobTyped DEF Begin, NoJob, Job

LEMMA RestLength ==
    \A n \in Nat : \A i \in 1 .. n : n - (i + 1) + 1 = IF i + 1 <= n THEN n - (i + 1) + 1 ELSE 0
  OBVIOUS

(* What removing an account from an order returns. *)
LEMMA WithoutOrder ==
    ASSUME NEW s \in Seq(Accts), NEW a, Distinct(s)
    PROVE  /\ Without(s, a) \in Seq(Accts) /\ Distinct(Without(s, a))
           /\ \A k \in DOMAIN Without(s, a) : Without(s, a)[k] # a
  <1>1. CASE ~\E k \in DOMAIN s : s[k] = a
    BY <1>1 DEF Without
  <1>2. CASE \E k \in DOMAIN s : s[k] = a
    <2> DEFINE i == CHOOSE k \in DOMAIN s : s[k] = a
               u == SubSeq(s, 1, i - 1)
               v == SubSeq(s, i + 1, Len(s))
               w == u \o v
    <2>1. i \in 1 .. Len(s) /\ s[i] = a /\ Len(s) \in Nat /\ DOMAIN s = 1 .. Len(s)
      BY <1>2
    <2>2. Without(s, a) = w
      BY <1>2 DEF Without
    <2> HIDE DEF i
    <2>3. /\ u \in Seq(Accts) /\ Len(u) = i - 1
          /\ \A k \in 1 .. i - 1 : u[k] = s[k]
      BY <2>1
    <2>4. /\ v \in Seq(Accts) /\ Len(v) = Len(s) - i
          /\ \A k \in 1 .. Len(s) - i : v[k] = s[i + k]
      <3>1. i + 1 \in Int /\ Len(s) \in Int /\ \A k \in i + 1 .. Len(s) : s[k] \in Accts
        BY <2>1
      <3>2. /\ v \in Seq(Accts) /\ Len(v) = Len(s) - (i + 1) + 1
            /\ \A k \in 1 .. Len(s) - (i + 1) + 1 : v[k] = s[i + 1 + k - 1]
        <4>1. /\ v \in Seq(Accts) /\ Len(v) = IF i + 1 <= Len(s) THEN Len(s) - (i + 1) + 1 ELSE 0
              /\ \A k \in 1 .. Len(s) - (i + 1) + 1 : v[k] = s[i + 1 + k - 1]
          BY <3>1, SubSeqProperties
        <4>2. Len(s) - (i + 1) + 1 = IF i + 1 <= Len(s) THEN Len(s) - (i + 1) + 1 ELSE 0
          BY <2>1, RestLength
        <4> HIDE DEF v
        <4> QED
          BY <4>1, <4>2
      <3>3. Len(s) - (i + 1) + 1 = Len(s) - i
        BY <2>1
      <3>4. \A k \in 1 .. Len(s) - i : i + 1 + k - 1 = i + k
        BY <2>1
      <3> QED
        BY <3>2, <3>3, <3>4
    <2> HIDE DEF u, v
    <2>5. /\ w \in Seq(Accts) /\ Len(w) = Len(s) - 1
          /\ DOMAIN w = 1 .. Len(s) - 1
          /\ \A k \in 1 .. Len(s) - 1 : w[k] = IF k < i THEN s[k] ELSE s[k + 1]
      <3>1. /\ w \in Seq(Accts) /\ Len(w) = Len(u) + Len(v)
            /\ \A k \in 1 .. Len(u) + Len(v) : w[k] = IF k <= Len(u) THEN u[k] ELSE v[k - Len(u)]
        BY <2>3, <2>4, ConcatProperties
      <3>2. Len(u) + Len(v) = Len(s) - 1
        BY <2>1, <2>3, <2>4
      <3>3. DOMAIN w = 1 .. Len(s) - 1
        BY <3>1, <3>2
      <3>4. ASSUME NEW k \in 1 .. Len(s) - 1 PROVE w[k] = IF k < i THEN s[k] ELSE s[k + 1]
        <4>1. CASE k < i
          <5>1. k <= Len(u) /\ k \in 1 .. i - 1
            BY <4>1, <2>1, <2>3
          <5> QED
            BY <5>1, <4>1, <3>1, <3>2, <2>3
        <4>2. CASE ~(k < i)
          <5>1. ~(k <= Len(u)) /\ k - Len(u) \in 1 .. Len(s) - i /\ i + (k - Len(u)) = k + 1
            BY <4>2, <2>1, <2>3
          <5>2. w[k] = v[k - Len(u)]
            BY <5>1, <3>1, <3>2
          <5> QED
            BY <5>1, <5>2, <4>2, <2>4
        <4> QED
          BY <4>1, <4>2
      <3> HIDE DEF w
      <3> QED
        BY <3>1, <3>2, <3>3, <3>4
    <2> HIDE DEF w
    <2>6. Distinct(w)
      <3> SUFFICES ASSUME NEW j \in 1 .. Len(s) - 1, NEW k \in 1 .. Len(s) - 1, w[j] = w[k] PROVE j = k
        BY <2>5 DEF Distinct
      <3> DEFINE jj == IF j < i THEN j ELSE j + 1
                 kk == IF k < i THEN k ELSE k + 1
      <3>1. jj \in 1 .. Len(s) /\ kk \in 1 .. Len(s)
        BY <2>1
      <3>2. s[jj] = s[kk]
        BY <2>5
      <3>3. jj = kk
        BY <3>1, <3>2, <2>1 DEF Distinct
      <3> QED
        BY <3>3, <2>1
    <2>7. \A k \in 1 .. Len(s) - 1 : w[k] # a
      <3> SUFFICES ASSUME NEW k \in 1 .. Len(s) - 1, w[k] = a PROVE FALSE
        OBVIOUS
      <3> DEFINE kk == IF k < i THEN k ELSE k + 1
      <3>1. kk \in 1 .. Len(s) /\ kk # i /\ s[kk] = a
        BY <2>1, <2>5
      <3> QED
        BY <3>1, <2>1 DEF Distinct
    <2> QED
      BY <2>2, <2>5, <2>6, <2>7
  <1> QED
    BY <1>1, <1>2

LEMMA PushTyped ==
    ASSUME NEW p \in Policy, NEW a \in Accts, Distinct(p.order)
    PROVE  Push(p, a) \in Policy /\ Distinct(Push(p, a).order)
  <1>1. CASE a \in InPool(p)
    BY <1>1 DEF Push
  <1>2. CASE a \notin InPool(p)
    <2> DEFINE s == p.order
               t == Append(s, a)
    <2>1. s \in Seq(Accts) /\ DOMAIN s = 1 .. Len(s) /\ Len(s) \in Nat
      BY DEF Policy
    <2>2. \A i \in 1 .. Len(s) : s[i] # a
      BY <1>2, <2>1 DEF InPool
    <2>3. /\ t \in Seq(Accts) /\ DOMAIN t = 1 .. Len(s) + 1
          /\ \A i \in 1 .. Len(s) : t[i] = s[i]
          /\ t[Len(s) + 1] = a
      BY <2>1
    <2>4. Distinct(t)
      <3> SUFFICES ASSUME NEW i \in 1 .. Len(s) + 1, NEW j \in 1 .. Len(s) + 1, t[i] = t[j] PROVE i = j
        BY <2>3 DEF Distinct
      <3>1. (i \in 1 .. Len(s) \/ i = Len(s) + 1) /\ (j \in 1 .. Len(s) \/ j = Len(s) + 1)
        BY <2>1
      <3> QED
        BY <3>1, <2>1, <2>2, <2>3 DEF Distinct
    <2>5. Push(p, a) = [p EXCEPT !.order = t, !.on = p.on \cup {a}]
      BY <1>2 DEF Push, Policy
    <2> HIDE DEF t
    <2>6. t \in Seq(Accts) /\ p.on \cup {a} \in SUBSET Accts
      BY <2>3 DEF Policy
    <2>7. \A x \in Seq(Accts), y \in SUBSET Accts :
             LET q == [p EXCEPT !.order = x, !.on = y] IN q \in Policy /\ q.order = x
      BY DEF Policy
    <2>8. Push(p, a) \in Policy /\ Push(p, a).order = t
      BY <2>5, <2>6, <2>7
    <2> QED
      BY <2>8, <2>4
  <1> QED
    BY <1>1, <1>2

LEMMA NormalizeTyped ==
    ASSUME NEW p \in Policy
    PROVE  Normalize(p) \in Policy /\ Normalize(p).order = p.order
  BY DEF Normalize, Policy

(* Putting an account in front of an order that does not name it. *)
LEMMA FrontOrder ==
    ASSUME NEW s \in Seq(Accts), NEW a \in Accts, Distinct(s), \A k \in DOMAIN s : s[k] # a
    PROVE  <<a>> \o s \in Seq(Accts) /\ Distinct(<<a>> \o s)
  <1> DEFINE w == <<a>> \o s
  <1>1. <<a>> \in Seq(Accts) /\ Len(<<a>>) = 1 /\ <<a>>[1] = a
    OBVIOUS
  <1>2. Len(s) \in Nat /\ DOMAIN s = 1 .. Len(s)
    OBVIOUS
  <1>3. /\ w \in Seq(Accts) /\ Len(w) = Len(<<a>>) + Len(s)
        /\ \A i \in 1 .. Len(<<a>>) + Len(s) : w[i] = IF i <= Len(<<a>>) THEN <<a>>[i] ELSE s[i - Len(<<a>>)]
    BY <1>1, ConcatProperties
  <1> HIDE DEF w
  <1>4. /\ DOMAIN w = 1 .. 1 + Len(s)
        /\ w[1] = a
        /\ \A i \in 2 .. 1 + Len(s) : w[i] = s[i - 1] /\ i - 1 \in 1 .. Len(s)
    BY <1>1, <1>2, <1>3
  <1>5. Distinct(w)
    <2> SUFFICES ASSUME NEW i \in 1 .. 1 + Len(s), NEW j \in 1 .. 1 + Len(s), w[i] = w[j] PROVE i = j
      BY <1>4 DEF Distinct
    <2>1. (i = 1 \/ i \in 2 .. 1 + Len(s)) /\ (j = 1 \/ j \in 2 .. 1 + Len(s))
      BY <1>2
    <2>2. CASE i = 1 \/ j = 1
      BY <2>1, <2>2, <1>2, <1>4
    <2>3. CASE i \in 2 .. 1 + Len(s) /\ j \in 2 .. 1 + Len(s)
      <3>1. s[i - 1] = s[j - 1] /\ i - 1 \in DOMAIN s /\ j - 1 \in DOMAIN s
        BY <2>3, <1>2, <1>4
      <3>2. i - 1 = j - 1
        BY <3>1 DEF Distinct
      <3> QED
        BY <3>2, <2>3, <1>2
    <2> QED
      BY <2>1, <2>2, <2>3
  <1> QED
    BY <1>3, <1>5 DEF w

(* Every edit turns a pool without duplicates into one without duplicates. *)
LEMMA EditTyped ==
    ASSUME NEW op \in Edits, NEW a \in Accts, NEW p \in Policy, Distinct(p.order)
    PROVE  Edit(op, a, p) \in Policy /\ Distinct(Edit(op, a, p).order)
  <1>1. p.order \in Seq(Accts) /\ p.on \in SUBSET Accts /\ p.gone \in SUBSET Agents /\ p.auto \in BOOLEAN
    BY DEF Policy
  <1>2. CASE op = "add"
    <2>1. Edit(op, a, p) = Push(p, a)
      BY <1>2 DEF Edit
    <2> QED
      BY <2>1, PushTyped
  <1>3. CASE op = "toggle"
    <2> DEFINE y == IF a \in p.on THEN p.on \ {a} ELSE p.on \cup {a}
    <2>1. Edit(op, a, p) = [p EXCEPT !.on = y]
      BY <1>3 DEF Edit, Policy
    <2>2. y \in SUBSET Accts
      BY <1>1
    <2> HIDE DEF y
    <2>3. [p EXCEPT !.on = y] \in Policy /\ [p EXCEPT !.on = y].order = p.order
      BY <2>2 DEF Policy
    <2> QED
      BY <2>1, <2>3
  <1>4. CASE op = "activate"
    <2> DEFINE x == <<a>> \o Without(p.order, a)
               y == p.on \cup {a}
    <2>1. Edit(op, a, p) = [p EXCEPT !.order = x, !.on = y]
      BY <1>4 DEF Edit, Policy
    <2>2. x \in Seq(Accts) /\ Distinct(x)
      BY <1>1, WithoutOrder, FrontOrder
    <2>3. y \in SUBSET Accts
      BY <1>1
    <2> HIDE DEF x, y
    <2>4. [p EXCEPT !.order = x, !.on = y] \in Policy /\ [p EXCEPT !.order = x, !.on = y].order = x
      BY <2>2, <2>3 DEF Policy
    <2> QED
      BY <2>1, <2>2, <2>4
  <1>5. CASE op = "delete"
    <2> DEFINE x == Without(p.order, a)
               y == p.on \ {a}
               z == IF a \in System \cap InPool(p) THEN p.gone \cup {Dismissal(a)} ELSE p.gone
    <2>1. Edit(op, a, p) = [p EXCEPT !.order = x, !.on = y, !.gone = z]
      BY <1>5 DEF Edit, Policy
    <2>2. x \in Seq(Accts) /\ Distinct(x)
      BY <1>1, WithoutOrder
    <2>3. y \in SUBSET Accts /\ z \in SUBSET Agents
      BY <1>1, AgentTyped DEF Dismissal
    <2> HIDE DEF x, y, z
    <2>4. /\ [p EXCEPT !.order = x, !.on = y, !.gone = z] \in Policy
          /\ [p EXCEPT !.order = x, !.on = y, !.gone = z].order = x
      BY <2>2, <2>3 DEF Policy
    <2> QED
      BY <2>1, <2>2, <2>4
  <1>6. CASE op = "system"
    <2> DEFINE q == Push(p, a)
               z == q.gone \ {AgentOf(a)}
    <2>1. q \in Policy /\ Distinct(q.order)
      BY PushTyped
    <2>2. Edit(op, a, p) = [q EXCEPT !.gone = z]
      BY <1>6, <2>1 DEF Edit, Policy
    <2>3. z \in SUBSET Agents
      BY <2>1 DEF Policy
    <2> HIDE DEF q, z
    <2>4. [q EXCEPT !.gone = z] \in Policy /\ [q EXCEPT !.gone = z].order = q.order
      BY <2>1, <2>3 DEF Policy
    <2> QED
      BY <2>1, <2>2, <2>4
  <1>7. CASE op = "switch"
    <2>1. Edit(op, a, p) = [p EXCEPT !.auto = ~p.auto]
      BY <1>7 DEF Edit, Policy
    <2>2. (~p.auto) \in BOOLEAN
      OBVIOUS
    <2>3. [p EXCEPT !.auto = ~p.auto] \in Policy /\ [p EXCEPT !.auto = ~p.auto].order = p.order
      BY <2>2 DEF Policy
    <2> QED
      BY <2>1, <2>3
  <1> QED
    BY <1>2, <1>3, <1>4, <1>5, <1>6, <1>7 DEF Edits

-----------------------------------------------------------------------------
(* Steps *)

(* What the history says after a step. *)
LEMMA TrackFacts ==
    ASSUME Types, Track
    PROVE  /\ SinceOK'
           /\ \A a \in since'.lim : a \in Accts /\ st'[a].av = "limited" /\ st'[a].reset # "due"
           /\ \A a \in since'.off : a \in Accts /\ ~(a \in policy'.on /\ a \in InPool(policy'))
           /\ job["launch"].pc # "idle" => since'.lim \subseteq since.lim /\ since'.off \subseteq since.off
  <1> DEFINE lim == {a \in Accts : st'[a].av = "limited" /\ st'[a].reset # "due"}
             off == Accts \ (policy'.on \cap InPool(policy'))
  <1>1. since \in [lim : SUBSET Accts, off : SUBSET Accts]
    BY DEF Types, SinceOK
  <1>2. CASE job["launch"].pc = "idle"
    <2>1. since' = [lim |-> lim, off |-> off]
      BY <1>2 DEF Track
    <2> QED
      BY <2>1, <1>2 DEF SinceOK
  <1>3. CASE job["launch"].pc # "idle"
    <2>1. since' = [lim |-> since.lim \cap lim, off |-> since.off \cap off]
      BY <1>3 DEF Track
    <2> QED
      BY <2>1, <1>1 DEF SinceOK
  <1> QED
    BY <1>2, <1>3

(* A step of another process leaves what a launch holds as good as it was. *)
LEMMA LaunchSame ==
    ASSUME Types, LaunchInv, Track, job'["launch"] = job["launch"]
    PROVE  LaunchInv'
  <1>1. Listed("launch")' = Listed("launch")
    BY DEF Listed, Wanted
  <1>2. job["launch"].pc # "idle" => since'.lim \subseteq since.lim /\ since'.off \subseteq since.off
    BY TrackFacts
  <1> QED
    BY <1>1, <1>2 DEF LaunchInv

(* A launch that has read nothing yet. *)
LEMMA LaunchEarly ==
    ASSUME job'["launch"].pc \in {"idle", "sync", "lock", "write", "list"},
           job'["launch"].pc # "idle" => job'["launch"].agent \in Agents
    PROVE  LaunchInv'
  BY DEF LaunchInv

LEMMA PutJob ==
    ASSUME JobsOK, NEW p \in Procs, NEW j \in Job, job' = [job EXCEPT ![p] = j]
    PROVE  /\ JobsOK' /\ job'[p] = j
           /\ \A q \in Procs \ {p} : job'[q] = job[q]
  BY DEF JobsOK

LEMMA JobTyped ==
    ASSUME JobsOK, NEW p \in Procs
    PROVE  /\ job[p] \in Job
           /\ job[p].who \in Accts \cup {None} /\ job[p].agent \in Agents \cup {None}
           /\ job[p].copy \in Policy /\ job[p].cand \in SUBSET System /\ job[p].list \in Seq(Accts)
           /\ job[p].on \in SUBSET Accts /\ job[p].due \in SUBSET Accts /\ job[p].ready \in SUBSET Accts
  BY DEF JobsOK, Job

LEMMA ListedTyped ==
    ASSUME JobsOK, NEW p \in Procs
    PROVE  Listed(p) \subseteq Accts
  <1>1. job[p].list \in Seq(Accts)
    BY JobTyped
  <1> QED
    BY <1>1 DEF Listed

LEMMA ProcsAre == "ui" \in Procs /\ "tick" \in Procs /\ "fallback" \in Procs /\ "launch" \in Procs
  BY DEF Procs

(* A step of one process keeps the copies without duplicates. *)
LEMMA CopiesKept ==
    ASSUME JobsOK, CopiesDistinct, NEW p \in Procs, NEW j, Distinct(j.copy.order),
           job' = [job EXCEPT ![p] = j], policy' = policy
    PROVE  CopiesDistinct'
  <1>1. job'[p] = j /\ \A q \in Procs \ {p} : job'[q] = job[q]
    BY DEF JobsOK
  <1> QED
    BY <1>1 DEF CopiesDistinct

LEMMA NoCopyDistinct == Distinct(NoCopy.order) /\ NoJob.copy = NoCopy
  BY DEF NoCopy, Distinct, NoJob

(* The steps that only move one process between its statuses. *)
LEMMA FailsTyped ==
    ASSUME CountsOK, NEW S, NEW bad \in SUBSET Flaky, Failing(S, bad)
    PROVE  fails + Cardinality(bad) \in 0 .. MaxFails /\ bad \subseteq Accts
  <1>1. IsFiniteSet(bad) /\ Flaky \subseteq Accts
    BY AcctsAssumption, FS_Subset
  <1>2. Cardinality(bad) \in Nat
    BY <1>1, FS_CardinalityType
  <1>3. fails \in Nat /\ MaxFails \in Nat /\ fails + Cardinality(bad) <= MaxFails
    BY AcctsAssumption DEF CountsOK, Failing
  <1> QED
    BY <1>1, <1>2, <1>3

(* PolicyRead: the job has the stored order and its switches. *)
LEMMA PolicyReadTyped ==
    ASSUME PolicyOK, JobsOK, NEW p \in Procs
    PROVE  /\ PolicyRead(p) \in Job
           /\ PolicyRead(p).pc = "rows" /\ PolicyRead(p).list = policy.order /\ PolicyRead(p).on = policy.on
           /\ PolicyRead(p).agent = job[p].agent /\ PolicyRead(p).copy = job[p].copy
  <1>1. job[p] \in Job /\ policy.order \in Seq(Accts) /\ policy.on \in SUBSET Accts
    BY JobTyped DEF PolicyOK, Policy
  <1> QED
    BY <1>1 DEF PolicyRead, Job

LEMMA LaunchRead ==
    ASSUME Types, Track, policy' = policy, job'["launch"] = PolicyRead("launch"),
           job["launch"].agent \in Agents
    PROVE  LaunchInv'
  <1>1. /\ PolicyRead("launch").pc = "rows" /\ PolicyRead("launch").list = policy.order
        /\ PolicyRead("launch").on = policy.on /\ PolicyRead("launch").agent = job["launch"].agent
    BY PolicyReadTyped, ProcsAre DEF Types
  <1>2. \A a \in since'.off : ~(a \in policy.on /\ a \in InPool(policy))
    BY TrackFacts
  <1>3. Listed("launch")' \subseteq InPool(policy)
    BY <1>1 DEF Listed, InPool
  <1> QED
    BY <1>1, <1>2, <1>3 DEF LaunchInv

(* What a step of one process that leaves the policy and the thread alone keeps. *)
LEMMA StatusMove ==
    ASSUME IInv, Track, NEW p \in Procs, NEW j \in Job, job' = [job EXCEPT ![p] = j],
           Distinct(j.copy.order), j.pc # "set", policy' = policy, th' = th
    PROVE  /\ PolicyOK' /\ JobsOK' /\ ThreadOK' /\ SinceOK'
           /\ CopiesDistinct' /\ EditInv' /\ ResumedInOwnProfile'
           /\ p # "launch" => LaunchInv'
           /\ job'[p] = j
  <1>1. JobsOK' /\ job'[p] = j /\ \A q \in Procs \ {p} : job'[q] = job[q]
    BY PutJob DEF IInv, Types
  <1>2. PolicyOK' /\ ThreadOK'
    BY DEF IInv, Types, PolicyOK, ThreadOK
  <1>3. SinceOK'
    BY TrackFacts DEF IInv
  <1>4. CopiesDistinct'
    BY CopiesKept DEF IInv, Types
  <1>5. EditInv'
    <2>1. CASE p = "ui"
      BY <2>1, <1>1 DEF EditInv
    <2>2. CASE p # "ui"
      BY <2>2, <1>1, ProcsAre DEF EditInv, IInv
    <2> QED
      BY <2>1, <2>2
  <1>6. ResumedInOwnProfile'
    BY DEF IInv, ResumedInOwnProfile, Profile
  <1>7. p # "launch" => LaunchInv'
    BY <1>1, ProcsAre, LaunchSame DEF IInv
  <1> QED
    BY <1>1, <1>2, <1>3, <1>4, <1>5, <1>6, <1>7

LEMMA Assembled ==
    ASSUME PolicyOK', RowsOK', JobsOK', ThreadOK', SetsOK', LockOK', CountsOK', SinceOK',
           CopiesDistinct', EditInv', LaunchInv', ResumedInOwnProfile'
    PROVE  IInv'
  BY DEF IInv, Types

LEMMA CandidatesKeep ==
    ASSUME IInv, Track, NEW p \in Procs, NEW bad \in SUBSET Flaky, Candidates(p, bad)
    PROVE  IInv'
  <1> DEFINE cand == {a \in System : /\ Wanted(p, a) /\ AgentOf(a) \notin policy.gone
                                     /\ a \notin InPool(policy)}
             yes == Probed(cand, bad)
             j == IF yes = {} THEN PolicyRead(p) ELSE [job[p] EXCEPT !.pc = "lock", !.cand = yes]
  <1>1. /\ job[p].pc = "sync" /\ Failing(cand, bad)
        /\ wrong' = wrong \cup bad /\ fails' = fails + Cardinality(bad)
        /\ job' = [job EXCEPT ![p] = j]
        /\ UNCHANGED <<policy, st, signed, lock, th, redeemed, ops, limits>>
    BY DEF Candidates
  <1>2. job[p] \in Job /\ Distinct(job[p].copy.order)
    BY JobTyped DEF IInv, Types, CopiesDistinct
  <1>3. yes \in SUBSET System
    BY DEF Probed
  <1> HIDE DEF yes
  <1>4. /\ [job[p] EXCEPT !.pc = "lock", !.cand = yes] \in Job
        /\ [job[p] EXCEPT !.pc = "lock", !.cand = yes].pc = "lock"
        /\ [job[p] EXCEPT !.pc = "lock", !.cand = yes].agent = job[p].agent
        /\ [job[p] EXCEPT !.pc = "lock", !.cand = yes].copy = job[p].copy
    BY <1>2, <1>3 DEF Job
  <1>5. /\ PolicyRead(p) \in Job /\ PolicyRead(p).pc = "rows" /\ PolicyRead(p).copy = job[p].copy
    BY PolicyReadTyped DEF IInv, Types
  <1>6. j \in Job /\ j.copy = job[p].copy /\ j.pc # "set"
    BY <1>4, <1>5
  <1>7. /\ PolicyOK' /\ JobsOK' /\ ThreadOK' /\ SinceOK'
        /\ CopiesDistinct' /\ EditInv' /\ ResumedInOwnProfile'
        /\ p # "launch" => LaunchInv'
        /\ job'[p] = j
    BY <1>1, <1>2, <1>6, StatusMove
  <1>8. p = "launch" => LaunchInv'
    <2> SUFFICES ASSUME p = "launch" PROVE LaunchInv'
      OBVIOUS
    <2>1. job["launch"].agent \in Agents
      BY <1>1 DEF IInv, LaunchInv
    <2>2. CASE yes = {}
      BY <2>1, <2>2, <1>1, <1>7, LaunchRead DEF IInv
    <2>3. CASE yes # {}
      BY <2>1, <2>3, <1>4, <1>7, LaunchEarly
    <2> QED
      BY <2>2, <2>3
  <1>9. RowsOK' /\ LockOK'
    BY <1>1 DEF IInv, Types, RowsOK, LockOK
  <1>10. fails + Cardinality(bad) \in 0 .. MaxFails /\ bad \subseteq Accts
    BY <1>1, FailsTyped DEF IInv, Types
  <1>11. SetsOK' /\ CountsOK'
    BY <1>1, <1>10 DEF IInv, Types, SetsOK, CountsOK
  <1> QED
    BY <1>7, <1>8, <1>9, <1>11, Assembled

LEMMA SyncReadKeep ==
    ASSUME IInv, Track, NEW p \in Procs, SyncRead(p)
    PROVE  IInv'
  <1> DEFINE j == [job[p] EXCEPT !.pc = "write", !.copy = policy]
  <1>1. job[p] \in Job /\ policy \in Policy /\ Distinct(policy.order)
    BY JobTyped DEF IInv, Types, PolicyOK, CopiesDistinct
  <1>2. /\ job[p].pc = "lock" /\ lock' = p /\ job' = [job EXCEPT ![p] = j]
        /\ UNCHANGED <<policy, st, signed, wrong, th, redeemed, ops, limits, fails>>
    BY DEF SyncRead
  <1>3. j \in Job /\ j.copy = policy /\ j.pc = "write" /\ j.agent = job[p].agent
    BY <1>1 DEF Job
  <1> HIDE DEF j
  <1>4. /\ PolicyOK' /\ JobsOK' /\ ThreadOK' /\ SinceOK'
        /\ CopiesDistinct' /\ EditInv' /\ ResumedInOwnProfile'
        /\ p # "launch" => LaunchInv'
        /\ job'[p] = j
    BY <1>1, <1>2, <1>3, StatusMove
  <1>5. p = "launch" => LaunchInv'
    <2> SUFFICES ASSUME p = "launch" PROVE LaunchInv'
      OBVIOUS
    <2>1. job["launch"].agent \in Agents
      BY <1>2 DEF IInv, LaunchInv
    <2> QED
      BY <2>1, <1>3, <1>4, LaunchEarly
  <1>6. RowsOK' /\ LockOK' /\ SetsOK' /\ CountsOK'
    BY <1>2 DEF IInv, Types, RowsOK, LockOK, SetsOK, CountsOK
  <1> QED
    BY <1>4, <1>5, <1>6, Assembled

LEMMA ListKeep ==
    ASSUME IInv, Track, NEW p \in Procs, List(p)
    PROVE  IInv'
  <1>1. /\ job[p].pc = "list" /\ job' = [job EXCEPT ![p] = PolicyRead(p)]
        /\ UNCHANGED <<policy, st, signed, wrong, lock, th, redeemed, ops, limits, fails>>
    BY DEF List
  <1>2. PolicyRead(p) \in Job /\ PolicyRead(p).copy = job[p].copy /\ PolicyRead(p).pc = "rows"
    BY PolicyReadTyped DEF IInv, Types
  <1>3. Distinct(job[p].copy.order)
    BY DEF IInv, CopiesDistinct
  <1>4. /\ PolicyOK' /\ JobsOK' /\ ThreadOK' /\ SinceOK'
        /\ CopiesDistinct' /\ EditInv' /\ ResumedInOwnProfile'
        /\ p # "launch" => LaunchInv'
        /\ job'[p] = PolicyRead(p)
    BY <1>1, <1>2, <1>3, StatusMove
  <1>5. p = "launch" => LaunchInv'
    <2> SUFFICES ASSUME p = "launch" PROVE LaunchInv'
      OBVIOUS
    <2>1. job["launch"].agent \in Agents
      BY <1>1 DEF IInv, LaunchInv
    <2> QED
      BY <2>1, <1>1, <1>4, LaunchRead DEF IInv
  <1>6. RowsOK' /\ LockOK' /\ SetsOK' /\ CountsOK'
    BY <1>1 DEF IInv, Types, RowsOK, LockOK, SetsOK, CountsOK
  <1> QED
    BY <1>4, <1>5, <1>6, Assembled

LEMMA MarkDueKeep ==
    ASSUME IInv, Track, NEW p \in Procs, MarkDue(p)
    PROVE  IInv'
  <1> DEFINE k == [job[p] EXCEPT !.pc = "use", !.due = {}]
             j == IF p = "ui" THEN NoJob ELSE k
  <1>1. /\ job[p].pc = "mark" /\ job' = [job EXCEPT ![p] = j]
        /\ st' = [a \in Accts |-> IF a \in job[p].due THEN [av |-> "available", reset |-> None] ELSE st[a]]
        /\ UNCHANGED <<policy, signed, wrong, lock, th, redeemed, ops, limits, fails>>
    BY DEF MarkDue
  <1>2. job[p] \in Job /\ Distinct(job[p].copy.order)
    BY JobTyped DEF IInv, Types, CopiesDistinct
  <1>3. k \in Job /\ k.copy = job[p].copy /\ k.pc = "use" /\ k.agent = job[p].agent /\ k.ready = job[p].ready
    BY <1>2 DEF Job
  <1> HIDE DEF k
  <1>4. j \in Job /\ Distinct(j.copy.order) /\ j.pc # "set"
    BY <1>2, <1>3, NoJobTyped, NoCopyDistinct DEF NoJob
  <1>5. /\ PolicyOK' /\ JobsOK' /\ ThreadOK' /\ SinceOK'
        /\ CopiesDistinct' /\ EditInv' /\ ResumedInOwnProfile'
        /\ p # "launch" => LaunchInv'
        /\ job'[p] = j
    BY <1>1, <1>4, StatusMove
  <1>6. p = "launch" => LaunchInv'
    <2> SUFFICES ASSUME p = "launch" PROVE LaunchInv'
      OBVIOUS
    <2>1. job["launch"].agent \in Agents /\ job["launch"].ready \cap (since.lim \cup since.off) = {}
      BY <1>1 DEF IInv, LaunchInv
    <2>2. since'.lim \subseteq since.lim /\ since'.off \subseteq since.off
      BY <1>1, TrackFacts DEF IInv
    <2>3. job'["launch"] = k
      BY <1>5
    <2> QED
      BY <2>1, <2>2, <2>3, <1>3 DEF LaunchInv
  <1>7. RowsOK'
    BY <1>1 DEF IInv, Types, RowsOK, Row
  <1>8. LockOK' /\ SetsOK' /\ CountsOK'
    BY <1>1 DEF IInv, Types, LockOK, SetsOK, CountsOK
  <1> QED
    BY <1>5, <1>6, <1>7, <1>8, Assembled

LEMMA SyncWriteKeep ==
    ASSUME IInv, Track, NEW p \in Procs, SyncWrite(p)
    PROVE  IInv'
  <1> DEFINE add == {a \in job[p].cand : /\ AgentOf(a) \notin job[p].copy.gone
                                         /\ a \notin InPool(job[p].copy)}
             one == IF CodexAccts \cap add # {} THEN CodexAccts \cap add ELSE add
             a == CHOOSE x \in one : TRUE
             b == CHOOSE x \in add \ one : TRUE
             first == Push(job[p].copy, a)
             j == [job[p] EXCEPT !.pc = "list", !.copy = NoCopy, !.cand = {}]
  <1>1. job[p] \in Job /\ job[p].copy \in Policy /\ Distinct(job[p].copy.order) /\ job[p].cand \in SUBSET System
    BY JobTyped DEF IInv, Types, CopiesDistinct
  <1>2. /\ job[p].pc = "write" /\ lock' = None /\ job' = [job EXCEPT ![p] = j]
        /\ policy' = IF add = {} THEN policy
                     ELSE Normalize(IF add = one THEN first ELSE Push(first, b))
        /\ UNCHANGED <<st, signed, wrong, th, redeemed, ops, limits, fails>>
    BY DEF SyncWrite
  <1>3. j \in Job /\ j.copy = NoCopy /\ j.pc = "list" /\ j.agent = job[p].agent
    BY <1>1, NoJobTyped DEF Job
  <1> HIDE DEF j
  <1>4. JobsOK' /\ job'[p] = j /\ \A q \in Procs \ {p} : job'[q] = job[q]
    BY <1>2, <1>3, PutJob DEF IInv, Types
  <1>5. PolicyOK' /\ Distinct(policy'.order)
    <2>1. CASE add = {}
      BY <2>1, <1>2 DEF IInv, Types, PolicyOK, CopiesDistinct
    <2>2. CASE add # {}
      <3>1. add \subseteq Accts /\ one \subseteq add /\ one # {}
        BY <2>2, <1>1 DEF Accts
      <3>2. a \in Accts
        BY <3>1
      <3>3. first \in Policy /\ Distinct(first.order)
        BY <3>2, <1>1, PushTyped
      <3>4. add # one => b \in Accts
        BY <3>1
      <3> HIDE DEF add, one, a, b, first
      <3>5. add # one => Push(first, b) \in Policy /\ Distinct(Push(first, b).order)
        BY <3>3, <3>4, PushTyped
      <3> DEFINE q == IF add = one THEN first ELSE Push(first, b)
      <3>6. q \in Policy /\ Distinct(q.order)
        BY <3>3, <3>5
      <3>7. policy' = Normalize(q)
        BY <2>2, <1>2
      <3> QED
        BY <3>6, <3>7, NormalizeTyped DEF PolicyOK
    <2> QED
      BY <2>1, <2>2
  <1> HIDE DEF add, one, a, b, first
  <1>6. CopiesDistinct'
    <2>1. \A q \in Procs : Distinct(job'[q].copy.order)
      BY <1>3, <1>4, NoCopyDistinct DEF IInv, CopiesDistinct
    <2> QED
      BY <2>1, <1>5 DEF CopiesDistinct
  <1>7. EditInv'
    <2>1. CASE p = "ui"
      BY <2>1, <1>3, <1>4 DEF EditInv
    <2>2. CASE p # "ui"
      BY <2>2, <1>4, ProcsAre DEF EditInv, IInv
    <2> QED
      BY <2>1, <2>2
  <1>8. LaunchInv'
    <2>1. CASE p = "launch"
      <3>1. job["launch"].agent \in Agents
        BY <2>1, <1>2 DEF IInv, LaunchInv
      <3> QED
        BY <3>1, <2>1, <1>3, <1>4, LaunchEarly
    <2>2. CASE p # "launch"
      BY <2>2, <1>4, ProcsAre, LaunchSame DEF IInv
    <2> QED
      BY <2>1, <2>2
  <1>9. RowsOK' /\ LockOK' /\ SetsOK' /\ CountsOK' /\ ThreadOK'
    BY <1>2 DEF IInv, Types, RowsOK, LockOK, SetsOK, CountsOK, ThreadOK
  <1>10. ResumedInOwnProfile'
    BY <1>2 DEF IInv, ResumedInOwnProfile, Profile
  <1>11. SinceOK'
    BY TrackFacts DEF IInv
  <1> QED
    BY <1>4, <1>5, <1>6, <1>7, <1>8, <1>9, <1>10, <1>11, Assembled

(* The account a launch takes is one of those that are ready. *)
LEMMA FirstOfIn == ASSUME NEW s, NEW S PROVE FirstOf(s, S) \subseteq S
  BY DEF FirstOf

LEMMA ReadRowsKeep ==
    ASSUME IInv, Track, NEW p \in Procs, NEW bad \in SUBSET Flaky, ReadRows(p, bad)
    PROVE  IInv'
  <1> DEFINE yes == Probed(Listed(p), bad)
             due == {a \in Listed(p) : Due(a)}
             able == {a \in Ready(p, yes) : Suits(p, a)}
             held == \E a \in Enabled(p, yes) : Suits(p, a) /\ Limited(a) /\ ~Due(a)
             rdy == CASE p = "ui" -> {} [] p = "tick" -> able [] OTHER -> FirstOf(job[p].list, able)
             pc == IF due = {} THEN "use" ELSE "mark"
             list == IF p = "tick" THEN job[p].list ELSE <<>>
             mng == Listed(p) # {}
             hld == p = "launch" /\ held
             k == [job[p] EXCEPT !.pc = pc, !.on = {}, !.due = due, !.managed = mng, !.list = list,
                                 !.ready = rdy, !.held = hld]
             j == IF p = "ui" /\ due = {} THEN NoJob ELSE k
  <1>1. /\ job[p].pc = "rows" /\ Failing(Listed(p), bad)
        /\ wrong' = wrong \cup bad /\ fails' = fails + Cardinality(bad)
        /\ UNCHANGED <<policy, st, signed, lock, th, redeemed, ops, limits>>
    BY DEF ReadRows
  <1>2. job[p] \in Job /\ Distinct(job[p].copy.order) /\ job[p].list \in Seq(Accts)
    BY JobTyped DEF IInv, Types, CopiesDistinct
  <1>3. job' = [job EXCEPT ![p] = j]
    BY DEF ReadRows
  <1>4. due \in SUBSET Accts
    BY ListedTyped DEF IInv, Types
  <1>5. able \subseteq Listed(p) /\ able \subseteq job[p].on /\ \A a \in able : Limited(a) => Due(a)
    BY DEF Ready, Enabled
  <1>6. able \in SUBSET Accts
    BY <1>5, ListedTyped DEF IInv, Types
  <1> HIDE DEF able, due
  <1>7. FirstOf(job[p].list, able) \subseteq able
    BY FirstOfIn
  <1>8. rdy \in SUBSET able
    BY <1>7
  <1>9. rdy \in SUBSET Accts
    BY <1>6, <1>8
  <1>10. pc \in {"use", "mark"} /\ list \in Seq(Accts) /\ mng \in BOOLEAN /\ hld \in BOOLEAN
    BY <1>2
  <1> HIDE DEF rdy, pc, list, mng, hld
  <1>11. k \in Job /\ k.copy = job[p].copy /\ k.pc = pc /\ k.agent = job[p].agent /\ k.ready = rdy
    BY <1>2, <1>4, <1>9, <1>10 DEF Job
  <1> HIDE DEF k
  <1>12. j \in Job /\ Distinct(j.copy.order) /\ j.pc # "set"
    BY <1>2, <1>10, <1>11, NoJobTyped, NoCopyDistinct DEF NoJob
  <1>13. /\ PolicyOK' /\ JobsOK' /\ ThreadOK' /\ SinceOK'
         /\ CopiesDistinct' /\ EditInv' /\ ResumedInOwnProfile'
         /\ p # "launch" => LaunchInv'
         /\ job'[p] = j
    BY <1>1, <1>3, <1>12, StatusMove
  <1>14. p = "launch" => LaunchInv'
    <2> SUFFICES ASSUME p = "launch" PROVE LaunchInv'
      OBVIOUS
    <2>1. job["launch"].agent \in Agents /\ Listed("launch") \cap job["launch"].on \cap since.off = {}
      BY <1>1 DEF IInv, LaunchInv
    <2>2. /\ since'.off \subseteq since.off
          /\ \A a \in since'.lim : st'[a].av = "limited" /\ st'[a].reset # "due"
      BY <1>1, TrackFacts DEF IInv
    <2>3. able \cap since'.off = {}
      BY <2>1, <2>2, <1>5
    <2>4. able \cap since'.lim = {}
      BY <2>2, <1>1, <1>5 DEF Limited, Due
    <2>5. job'["launch"] = k
      BY <1>13
    <2>6. rdy \cap (since'.lim \cup since'.off) = {}
      BY <2>3, <2>4, <1>8
    <2> QED
      BY <2>1, <2>5, <2>6, <1>10, <1>11 DEF LaunchInv
  <1>15. RowsOK' /\ LockOK'
    BY <1>1 DEF IInv, Types, RowsOK, LockOK
  <1>16. fails + Cardinality(bad) \in 0 .. MaxFails /\ bad \subseteq Accts
    BY <1>1, FailsTyped DEF IInv, Types
  <1>17. SetsOK' /\ CountsOK'
    BY <1>1, <1>16 DEF IInv, Types, SetsOK, CountsOK
  <1> QED
    BY <1>13, <1>14, <1>15, <1>17, Assembled

-----------------------------------------------------------------------------
(* The thread *)

(* What a step that leaves the policy and the copies alone keeps. *)
LEMMA ThreadMove ==
    ASSUME IInv, Track, policy' = policy, JobsOK', LaunchInv',
           \A q \in Procs : job'[q].copy = job[q].copy \/ job'[q].copy = NoCopy,
           job'["ui"] = job["ui"], UNCHANGED <<signed, wrong, lock>>
    PROVE  PolicyOK' /\ SinceOK' /\ CopiesDistinct' /\ EditInv' /\ LockOK'
           /\ (redeemed' = redeemed => SetsOK')
  <1>1. PolicyOK' /\ LockOK' /\ EditInv'
    BY DEF IInv, Types, PolicyOK, LockOK, EditInv
  <1>2. CopiesDistinct'
    BY NoCopyDistinct DEF IInv, CopiesDistinct
  <1>3. SinceOK'
    BY TrackFacts DEF IInv
  <1>4. redeemed' = redeemed => SetsOK'
    BY DEF IInv, Types, SetsOK
  <1> QED
    BY <1>1, <1>2, <1>3, <1>4

(* One process begins or ends, the others stay. *)
LEMMA LaunchPut ==
    ASSUME IInv, NEW j \in Job, j.copy = NoCopy, j.pc \in {"idle", "sync"}, j.pc = "sync" => j.agent \in Agents,
           job' = [job EXCEPT !["launch"] = j]
    PROVE  /\ JobsOK' /\ LaunchInv' /\ job'["ui"] = job["ui"]
           /\ \A q \in Procs : job'[q].copy = job[q].copy \/ job'[q].copy = NoCopy
  <1>1. JobsOK' /\ job'["launch"] = j /\ \A q \in Procs \ {"launch"} : job'[q] = job[q]
    BY PutJob, ProcsAre DEF IInv, Types
  <1>2. LaunchInv'
    BY <1>1, LaunchEarly
  <1> QED
    BY <1>1, <1>2, ProcsAre

LEMMA OtherPut ==
    ASSUME IInv, Track, NEW p \in {"tick", "fallback"}, NEW j \in Job, j.copy = NoCopy,
           job' = [job EXCEPT ![p] = j]
    PROVE  /\ JobsOK' /\ LaunchInv' /\ job'["ui"] = job["ui"]
           /\ \A q \in Procs : job'[q].copy = job[q].copy \/ job'[q].copy = NoCopy
  <1>1. p \in Procs /\ p # "launch" /\ p # "ui"
    BY DEF Procs
  <1>2. JobsOK' /\ job'[p] = j /\ \A q \in Procs \ {p} : job'[q] = job[q]
    BY <1>1, PutJob DEF IInv, Types
  <1>3. LaunchInv'
    BY <1>1, <1>2, ProcsAre, LaunchSame DEF IInv
  <1> QED
    BY <1>1, <1>2, <1>3, ProcsAre

LEMMA SameJobs ==
    ASSUME IInv, Track, job' = job
    PROVE  /\ JobsOK' /\ LaunchInv' /\ job'["ui"] = job["ui"]
           /\ \A q \in Procs : job'[q].copy = job[q].copy \/ job'[q].copy = NoCopy
  BY LaunchSame DEF IInv, Types, JobsOK

(* The rows and counters of a step that leaves them alone. *)
LEMMA StillRows == ASSUME IInv, UNCHANGED <<st, ops, limits, fails>> PROVE RowsOK' /\ CountsOK'
  BY DEF IInv, Types, RowsOK, CountsOK

LEMMA ThreadFields ==
    ASSUME ThreadOK
    PROVE  /\ th.agent \in Agents /\ th.acct \in Accts \cup {None}
           /\ th.refs \in SUBSET [agent : Agents, profile : Accts \cup Agents]
           /\ th.live \in BOOLEAN
  BY DEF ThreadOK, Thread

LEMMA UserLaunchKeep ==
    ASSUME IInv, Track, NEW ag \in Agents, UserLaunch(ag)
    PROVE  IInv'
  <1> DEFINE j == Begin("launch", "user", None, ag)
  <1>1. j \in Job /\ j.copy = NoCopy /\ j.pc = "sync" /\ j.agent = ag
    BY BeginTyped
  <1>2. /\ job' = [job EXCEPT !["launch"] = j] /\ th' = [th EXCEPT !.agent = ag]
        /\ UNCHANGED <<policy, st, signed, wrong, lock, redeemed, ops, limits, fails>>
    BY DEF UserLaunch, BeginLaunch
  <1> HIDE DEF j
  <1>3. /\ JobsOK' /\ LaunchInv' /\ job'["ui"] = job["ui"]
        /\ \A q \in Procs : job'[q].copy = job[q].copy \/ job'[q].copy = NoCopy
    BY <1>1, <1>2, LaunchPut
  <1>4. PolicyOK' /\ SinceOK' /\ CopiesDistinct' /\ EditInv' /\ LockOK' /\ SetsOK'
    BY <1>2, <1>3, ThreadMove
  <1>5. RowsOK' /\ CountsOK'
    BY <1>2, StillRows
  <1>6. ThreadOK'
    BY <1>2 DEF IInv, Types, ThreadOK, Thread
  <1>7. ResumedInOwnProfile'
    BY <1>2 DEF IInv, Types, ThreadOK, Thread, ResumedInOwnProfile, Profile
  <1> QED
    BY <1>3, <1>4, <1>5, <1>6, <1>7, Assembled

(* The end of a launch. *)
LEMMA LaunchDone ==
    ASSUME IInv, Track, Done("launch"), UNCHANGED <<policy, st, signed, wrong, lock, redeemed, ops, limits, fails>>,
           ThreadOK', ResumedInOwnProfile'
    PROVE  IInv'
  <1>1. job' = [job EXCEPT !["launch"] = NoJob]
    BY DEF Done
  <1>2. NoJob \in Job /\ NoJob.copy = NoCopy /\ NoJob.pc = "idle"
    BY NoJobTyped DEF NoJob
  <1>3. /\ JobsOK' /\ LaunchInv' /\ job'["ui"] = job["ui"]
        /\ \A q \in Procs : job'[q].copy = job[q].copy \/ job'[q].copy = NoCopy
    BY <1>1, <1>2, LaunchPut
  <1>4. PolicyOK' /\ SinceOK' /\ CopiesDistinct' /\ EditInv' /\ LockOK' /\ SetsOK'
    BY <1>3, ThreadMove
  <1>5. RowsOK' /\ CountsOK'
    BY StillRows
  <1> QED
    BY <1>3, <1>4, <1>5, Assembled

LEMMA ChosenIn ==
    ASSUME JobsOK, NEW p \in Procs, Chosen(p) # None
    PROVE  Chosen(p) \in job[p].ready /\ Chosen(p) \in Accts
  <1>1. job[p].ready \in SUBSET Accts
    BY JobTyped
  <1> QED
    BY <1>1 DEF Chosen

LEMMA SelectReadyKeep ==
    ASSUME IInv, Track, SelectReady
    PROVE  IInv'
  <1> DEFINE a == Chosen("launch")
             res == IF ResumeRefs(a) = {} THEN None ELSE (CHOOSE r \in ResumeRefs(a) : TRUE).profile
  <1>1. /\ a # None /\ Done("launch")
        /\ th' = [th EXCEPT !.status = "running", !.live = TRUE, !.agent = AgentOf(a), !.acct = a, !.resumed = res]
        /\ UNCHANGED <<policy, st, signed, wrong, lock, redeemed, ops, limits, fails>>
    BY DEF SelectReady
  <1>2. a \in Accts
    BY <1>1, ChosenIn, ProcsAre DEF IInv, Types
  <1>3. res = None \/ res = Profile(a)
    <2>1. CASE ResumeRefs(a) # {}
      <3>1. PICK r \in ResumeRefs(a) : r = (CHOOSE x \in ResumeRefs(a) : TRUE)
        BY <2>1
      <3>2. r.profile = Profile(a)
        BY <3>1 DEF ResumeRefs
      <3> QED
        BY <3>1, <3>2, <2>1
    <2> QED
      BY <2>1
  <1> HIDE DEF a, res
  <1>4. res \in Accts \cup Agents \cup {None} /\ AgentOf(a) \in Agents
    BY <1>2, <1>3, ProfileTyped, AgentTyped
  <1>5. ThreadOK'
    BY <1>1, <1>2, <1>4 DEF IInv, Types, ThreadOK, Thread
  <1>6. th'.acct = a /\ th'.resumed = res
    BY <1>1 DEF IInv, Types, ThreadOK, Thread
  <1>7. ResumedInOwnProfile'
    BY <1>1, <1>3, <1>6 DEF ResumedInOwnProfile, Profile
  <1> QED
    BY <1>1, <1>5, <1>7, LaunchDone

LEMMA SelectUnmanagedKeep ==
    ASSUME IInv, Track, SelectUnmanaged
    PROVE  IInv'
  <1>1. /\ Done("launch") /\ job["launch"].pc = "use"
        /\ th' = [th EXCEPT !.status = "running", !.live = TRUE, !.agent = job["launch"].agent,
                            !.acct = None, !.resumed = None]
        /\ UNCHANGED <<policy, st, signed, wrong, lock, redeemed, ops, limits, fails>>
    BY DEF SelectUnmanaged
  <1>2. job["launch"].agent \in Agents
    BY <1>1 DEF IInv, LaunchInv
  <1>3. ThreadOK' /\ ResumedInOwnProfile'
    BY <1>1, <1>2 DEF IInv, Types, ThreadOK, Thread, ResumedInOwnProfile
  <1> QED
    BY <1>1, <1>3, LaunchDone

LEMMA SelectSignedOutKeep ==
    ASSUME IInv, Track, SelectSignedOut
    PROVE  IInv'
  <1>1. /\ Done("launch")
        /\ th' = IF job["launch"].op = "tick" THEN [th EXCEPT !.status = "paused"] ELSE th
        /\ UNCHANGED <<policy, st, signed, wrong, lock, redeemed, ops, limits, fails>>
    BY DEF SelectSignedOut
  <1>2. ThreadOK' /\ ResumedInOwnProfile'
    BY <1>1 DEF IInv, Types, ThreadOK, Thread, ResumedInOwnProfile, Profile
  <1> QED
    BY <1>1, <1>2, LaunchDone

(* A step of the thread's processes that leaves the rest alone. *)
LEMMA Moved ==
    ASSUME IInv, Track, UNCHANGED <<policy, st, signed, wrong, lock, redeemed, ops, limits, fails>>,
           ThreadOK', ResumedInOwnProfile', JobsOK', LaunchInv', job'["ui"] = job["ui"],
           \A q \in Procs : job'[q].copy = job[q].copy \/ job'[q].copy = NoCopy
    PROVE  IInv'
  <1>1. PolicyOK' /\ SinceOK' /\ CopiesDistinct' /\ EditInv' /\ LockOK' /\ SetsOK'
    BY ThreadMove
  <1>2. RowsOK' /\ CountsOK'
    BY StillRows
  <1> QED
    BY <1>1, <1>2, Assembled

(* A launch and another process move together. *)
LEMMA TwoPut ==
    ASSUME IInv, NEW p \in {"tick", "fallback"}, NEW j \in Job, NEW k \in Job,
           j.copy = NoCopy, j.pc \in {"idle", "sync"}, j.pc = "sync" => j.agent \in Agents, k.copy = NoCopy,
           job' = [[job EXCEPT !["launch"] = j] EXCEPT ![p] = k]
    PROVE  /\ JobsOK' /\ LaunchInv' /\ job'["ui"] = job["ui"]
           /\ \A q \in Procs : job'[q].copy = job[q].copy \/ job'[q].copy = NoCopy
  <1>1. p \in Procs /\ p # "launch" /\ p # "ui" /\ "launch" \in Procs /\ "ui" \in Procs
    BY DEF Procs
  <1>2. job \in [Procs -> Job]
    BY DEF IInv, Types, JobsOK
  <1>3. /\ job'["launch"] = j /\ job'[p] = k
        /\ \A q \in Procs \ {"launch", p} : job'[q] = job[q]
        /\ job' \in [Procs -> Job]
    BY <1>1, <1>2
  <1>4. LaunchInv'
    BY <1>3, LaunchEarly
  <1> QED
    BY <1>1, <1>3, <1>4 DEF JobsOK

LEMMA WaitsKeep ==
    ASSUME IInv
    PROVE  /\ Waits(th) \in Thread
           /\ Waits(th).live = th.live /\ Waits(th).resumed = th.resumed /\ Waits(th).acct = th.acct
           /\ Waits(th).refs = th.refs /\ Waits(th).agent = th.agent /\ Waits(th).end = th.end
  BY DEF IInv, Types, ThreadOK, Thread, Waits

(* The session a thread resumed is its own as long as these fields stay. *)
LEMMA SameSession ==
    ASSUME IInv, th'.live => th.live, th'.live => th'.resumed \in {None, th.resumed}, th'.acct = th.acct
    PROVE  ResumedInOwnProfile'
  BY DEF IInv, ResumedInOwnProfile, Profile

LEMMA SelectLimitedKeep ==
    ASSUME IInv, Track, SelectLimited
    PROVE  IInv'
  <1>1. UNCHANGED <<policy, st, signed, wrong, lock, redeemed, ops, limits, fails>>
    BY DEF SelectLimited
  <1>2. NoJob \in Job /\ NoJob.copy = NoCopy /\ NoJob.pc = "idle"
    BY NoJobTyped DEF NoJob
  <1>3. CASE Switches
    <2> DEFINE k == Begin("fallback", "next", None, None)
    <2>1. k \in Job /\ k.copy = NoCopy
      BY BeginTyped
    <2>2. job' = [[job EXCEPT !["launch"] = NoJob] EXCEPT !["fallback"] = k] /\ th' = th
      BY <1>3 DEF SelectLimited
    <2> HIDE DEF k
    <2>3. /\ JobsOK' /\ LaunchInv' /\ job'["ui"] = job["ui"]
          /\ \A q \in Procs : job'[q].copy = job[q].copy \/ job'[q].copy = NoCopy
      BY <1>2, <2>1, <2>2, TwoPut
    <2>4. ThreadOK' /\ ResumedInOwnProfile'
      BY <2>2 DEF IInv, Types, ThreadOK, ResumedInOwnProfile, Profile
    <2> QED
      BY <1>1, <2>3, <2>4, Moved
  <1>4. CASE ~Switches
    <2>1. Done("launch") /\ th' = Waits(th)
      BY <1>4 DEF SelectLimited
    <2>2. ThreadOK' /\ ResumedInOwnProfile'
      BY <2>1, WaitsKeep, SameSession DEF ThreadOK
    <2> QED
      BY <1>1, <2>1, <2>2, LaunchDone
  <1> QED
    BY <1>3, <1>4

LEMMA KeptTyped ==
    ASSUME IInv
    PROVE  Kept \in SUBSET [agent : Agents, profile : Accts \cup Agents]
  <1>1. /\ th.agent \in Agents /\ th.acct \in Accts \cup {None}
        /\ th.refs \in SUBSET [agent : Agents, profile : Accts \cup Agents]
    BY ThreadFields DEF IInv, Types
  <1>2. CASE th.acct = None
    BY <1>1, <1>2 DEF Kept
  <1>3. CASE th.acct # None
    <2>1. Profile(th.acct) \in Accts \cup Agents
      BY <1>1, <1>3, ProfileTyped
    <2>2. [agent |-> th.agent, profile |-> Profile(th.acct)] \in [agent : Agents, profile : Accts \cup Agents]
      BY <1>1, <2>1
    <2> QED
      BY <1>1, <1>3, <2>2 DEF Kept
  <1> QED
    BY <1>2, <1>3

LEMMA RunEndsKeep ==
    ASSUME IInv, Track, RunEnds
    PROVE  IInv'
  <1>1. /\ th' = [th EXCEPT !.status = "idle", !.live = FALSE, !.resumed = None, !.refs = Kept]
        /\ UNCHANGED <<policy, st, signed, wrong, lock, job, redeemed, ops, limits, fails>>
    BY DEF RunEnds
  <1>2. ThreadOK'
    BY <1>1, KeptTyped DEF IInv, Types, ThreadOK, Thread
  <1>3. ResumedInOwnProfile'
    BY <1>1 DEF IInv, Types, ThreadOK, Thread, ResumedInOwnProfile
  <1>4. /\ JobsOK' /\ LaunchInv' /\ job'["ui"] = job["ui"]
        /\ \A q \in Procs : job'[q].copy = job[q].copy \/ job'[q].copy = NoCopy
    BY <1>1, SameJobs
  <1> QED
    BY <1>1, <1>2, <1>3, <1>4, Moved

LEMMA LimitReachedKeep ==
    ASSUME IInv, Track, NEW reset \in {"later", None}, NEW credit \in BOOLEAN, LimitReached(reset, credit)
    PROVE  IInv'
  <1> DEFINE a == th.acct
             row == IF credit THEN [av |-> "available", reset |-> None] ELSE [av |-> "limited", reset |-> reset]
             e == IF credit THEN "credit" ELSE "limit"
  <1>1. /\ a # None /\ limits < MaxLimits
        /\ st' = [st EXCEPT ![a] = row]
        /\ redeemed' = IF credit THEN redeemed \cup {a} ELSE redeemed
        /\ th' = [Waits(th) EXCEPT !.end = e, !.resumed = None, !.refs = Kept]
        /\ limits' = limits + 1
        /\ UNCHANGED <<policy, signed, wrong, lock, job, ops, fails>>
    BY DEF LimitReached
  <1>2. a \in Accts
    BY <1>1, ThreadFields DEF IInv, Types
  <1>3. row \in Row
    BY DEF Row
  <1>4. e \in {None, "limit", "credit"}
    OBVIOUS
  <1> HIDE DEF a, row, e
  <1>5. RowsOK'
    BY <1>1, <1>2, <1>3 DEF IInv, Types, RowsOK
  <1>6. ThreadOK' /\ th'.resumed = None
    BY <1>1, <1>4, WaitsKeep, KeptTyped DEF ThreadOK, Thread
  <1>7. ResumedInOwnProfile'
    BY <1>6 DEF ResumedInOwnProfile
  <1>8. CountsOK'
    BY <1>1, AcctsAssumption DEF IInv, Types, CountsOK
  <1>9. /\ JobsOK' /\ LaunchInv' /\ job'["ui"] = job["ui"]
        /\ \A q \in Procs : job'[q].copy = job[q].copy \/ job'[q].copy = NoCopy
    BY <1>1, SameJobs
  <1>10. PolicyOK' /\ SinceOK' /\ CopiesDistinct' /\ EditInv' /\ LockOK'
    BY <1>1, <1>9, ThreadMove
  <1>11. SetsOK'
    BY <1>1, <1>2 DEF IInv, Types, SetsOK
  <1> QED
    BY <1>5, <1>6, <1>7, <1>8, <1>9, <1>10, <1>11, Assembled

LEMMA RestartAfterCreditKeep ==
    ASSUME IInv, Track, RestartAfterCredit
    PROVE  IInv'
  <1> DEFINE j == Begin("launch", "spawned", None, th.agent)
  <1>1. /\ job' = [job EXCEPT !["launch"] = j]
        /\ th' = [th EXCEPT !.status = "queued", !.live = FALSE, !.end = None]
        /\ UNCHANGED <<policy, st, signed, wrong, lock, redeemed, ops, limits, fails>>
    BY DEF RestartAfterCredit, BeginLaunch
  <1>2. j \in Job /\ j.copy = NoCopy /\ j.pc = "sync" /\ j.agent \in Agents
    BY BeginTyped, ThreadFields DEF IInv, Types
  <1> HIDE DEF j
  <1>3. /\ JobsOK' /\ LaunchInv' /\ job'["ui"] = job["ui"]
        /\ \A q \in Procs : job'[q].copy = job[q].copy \/ job'[q].copy = NoCopy
    BY <1>1, <1>2, LaunchPut
  <1>4. ThreadOK' /\ ~th'.live
    BY <1>1 DEF IInv, Types, ThreadOK, Thread
  <1>5. ResumedInOwnProfile'
    BY <1>4 DEF ResumedInOwnProfile
  <1> QED
    BY <1>1, <1>3, <1>4, <1>5, Moved

LEMMA BeginFallbackKeep ==
    ASSUME IInv, Track, BeginFallback
    PROVE  IInv'
  <1> DEFINE k == Begin("fallback", "next", th.acct, None)
  <1>1. /\ job' = IF Switches THEN [job EXCEPT !["fallback"] = k] ELSE job
        /\ th' = [Waits(th) EXCEPT !.live = FALSE, !.end = None]
        /\ UNCHANGED <<policy, st, signed, wrong, lock, redeemed, ops, limits, fails>>
    BY DEF BeginFallback
  <1>2. k \in Job /\ k.copy = NoCopy
    BY BeginTyped, ThreadFields DEF IInv, Types
  <1> HIDE DEF k
  <1>3. /\ JobsOK' /\ LaunchInv' /\ job'["ui"] = job["ui"]
        /\ \A q \in Procs : job'[q].copy = job[q].copy \/ job'[q].copy = NoCopy
    <2>1. CASE Switches
      BY <2>1, <1>1, <1>2, OtherPut
    <2>2. CASE ~Switches
      BY <2>2, <1>1, SameJobs
    <2> QED
      BY <2>1, <2>2
  <1>4. ThreadOK' /\ ~th'.live
    BY <1>1, WaitsKeep DEF ThreadOK, Thread
  <1>5. ResumedInOwnProfile'
    BY <1>4 DEF ResumedInOwnProfile
  <1> QED
    BY <1>1, <1>3, <1>4, <1>5, Moved

LEMMA UseFallbackKeep ==
    ASSUME IInv, Track, UseFallback
    PROVE  IInv'
  <1> DEFINE next == Chosen("fallback")
             starts == next # None /\ job["launch"].pc = "idle" /\ ~th.live
             j == Begin("launch", "spawned", None, AgentOf(next))
  <1>1. /\ job' = [job EXCEPT !["fallback"] = NoJob, !["launch"] = IF starts THEN j ELSE job["launch"]]
        /\ th' = IF next # None THEN [th EXCEPT !.agent = AgentOf(next), !.status = "queued"] ELSE Waits(th)
        /\ UNCHANGED <<policy, st, signed, wrong, lock, redeemed, ops, limits, fails>>
    BY DEF UseFallback
  <1>2. AgentOf(next) \in Agents
    BY AgentTyped
  <1>3. j \in Job /\ j.copy = NoCopy /\ j.pc = "sync" /\ j.agent \in Agents
    BY <1>2, BeginTyped
  <1>4. NoJob \in Job /\ NoJob.copy = NoCopy
    BY NoJobTyped DEF NoJob
  <1>5. job \in [Procs -> Job] /\ th \in Thread
    BY DEF IInv, Types, JobsOK, ThreadOK
  <1> HIDE DEF next, starts, j
  <1>6. /\ JobsOK' /\ LaunchInv' /\ job'["ui"] = job["ui"]
        /\ \A q \in Procs : job'[q].copy = job[q].copy \/ job'[q].copy = NoCopy
    <2>1. CASE starts
      <3>1. job' = [[job EXCEPT !["launch"] = j] EXCEPT !["fallback"] = NoJob]
        BY <2>1, <1>1, <1>5 DEF Procs
      <3> QED
        BY <3>1, <1>3, <1>4, TwoPut
    <2>2. CASE ~starts
      <3>1. job' = [job EXCEPT !["fallback"] = NoJob]
        BY <2>2, <1>1, <1>5 DEF Procs
      <3> QED
        BY <3>1, <1>4, OtherPut
    <2> QED
      BY <2>1, <2>2
  <1>7. ThreadOK' /\ ResumedInOwnProfile'
    <2>1. CASE next # None
      <3>1. th' = [th EXCEPT !.agent = AgentOf(next), !.status = "queued"]
        BY <2>1, <1>1
      <3>2. ThreadOK' /\ th'.live = th.live /\ th'.resumed = th.resumed /\ th'.acct = th.acct
        BY <3>1, <1>2, <1>5 DEF ThreadOK, Thread
      <3> QED
        BY <3>2, SameSession
    <2>2. CASE next = None
      BY <2>2, <1>1, WaitsKeep, SameSession DEF ThreadOK
    <2> QED
      BY <2>1, <2>2
  <1> QED
    BY <1>1, <1>6, <1>7, Moved

LEMMA QueuedTickKeep ==
    ASSUME IInv, Track, QueuedTick
    PROVE  IInv'
  <1> DEFINE j == Begin("launch", "tick", None, th.agent)
  <1>1. /\ job' = [job EXCEPT !["launch"] = j]
        /\ UNCHANGED <<policy, st, signed, wrong, lock, th, redeemed, ops, limits, fails>>
    BY DEF QueuedTick, BeginLaunch
  <1>2. j \in Job /\ j.copy = NoCopy /\ j.pc = "sync" /\ j.agent \in Agents
    BY BeginTyped, ThreadFields DEF IInv, Types
  <1> HIDE DEF j
  <1>3. /\ JobsOK' /\ LaunchInv' /\ job'["ui"] = job["ui"]
        /\ \A q \in Procs : job'[q].copy = job[q].copy \/ job'[q].copy = NoCopy
    BY <1>1, <1>2, LaunchPut
  <1>4. ThreadOK' /\ ResumedInOwnProfile'
    BY <1>1 DEF IInv, Types, ThreadOK, ResumedInOwnProfile, Profile
  <1> QED
    BY <1>1, <1>3, <1>4, Moved

LEMMA TickBeginsKeep ==
    ASSUME IInv, Track, TickBegins
    PROVE  IInv'
  <1> DEFINE k == Begin("tick", "resume", None, None)
  <1>1. /\ job' = [job EXCEPT !["tick"] = k]
        /\ UNCHANGED <<policy, st, signed, wrong, lock, th, redeemed, ops, limits, fails>>
    BY DEF TickBegins
  <1>2. k \in Job /\ k.copy = NoCopy
    BY BeginTyped
  <1> HIDE DEF k
  <1>3. /\ JobsOK' /\ LaunchInv' /\ job'["ui"] = job["ui"]
        /\ \A q \in Procs : job'[q].copy = job[q].copy \/ job'[q].copy = NoCopy
    BY <1>1, <1>2, OtherPut
  <1>4. ThreadOK' /\ ResumedInOwnProfile'
    BY <1>1 DEF IInv, Types, ThreadOK, ResumedInOwnProfile, Profile
  <1> QED
    BY <1>1, <1>3, <1>4, Moved

LEMMA TickEndsKeep ==
    ASSUME IInv, Track, TickEnds
    PROVE  IInv'
  <1>1. UNCHANGED <<policy, st, signed, wrong, lock, redeemed, ops, limits, fails>>
    BY DEF TickEnds
  <1>2. NoJob \in Job /\ NoJob.copy = NoCopy
    BY NoJobTyped DEF NoJob
  <1>3. CASE ResumeAccount # {} /\ ~th.live /\ job["launch"].pc = "idle"
    <2>1. PICK a \in ResumeAccount :
               /\ job' = [BeginLaunch("tick", Required, AgentOf(a)) EXCEPT !["tick"] = NoJob]
               /\ th' = [th EXCEPT !.agent = AgentOf(a)]
      BY <1>3 DEF TickEnds
    <2> DEFINE j == Begin("launch", "tick", Required, AgentOf(a))
    <2>2. Required \in Accts \cup {None} /\ AgentOf(a) \in Agents
      BY ThreadFields, AgentTyped DEF Required, IInv, Types
    <2>3. j \in Job /\ j.copy = NoCopy /\ j.pc = "sync" /\ j.agent \in Agents
      BY <2>2, BeginTyped
    <2>4. job' = [[job EXCEPT !["launch"] = j] EXCEPT !["tick"] = NoJob]
      BY <2>1 DEF BeginLaunch
    <2> HIDE DEF j
    <2>5. /\ JobsOK' /\ LaunchInv' /\ job'["ui"] = job["ui"]
          /\ \A q \in Procs : job'[q].copy = job[q].copy \/ job'[q].copy = NoCopy
      BY <2>3, <2>4, <1>2, TwoPut
    <2>6. ThreadOK' /\ th'.live = th.live /\ th'.resumed = th.resumed /\ th'.acct = th.acct
      BY <2>1, <2>2 DEF IInv, Types, ThreadOK, Thread
    <2>7. ResumedInOwnProfile'
      BY <2>6, SameSession
    <2> QED
      BY <1>1, <2>5, <2>6, <2>7, Moved
  <1>4. CASE ~(ResumeAccount # {} /\ ~th.live /\ job["launch"].pc = "idle")
    <2>1. job' = [job EXCEPT !["tick"] = NoJob] /\ UNCHANGED th
      BY <1>4 DEF TickEnds, Done
    <2>2. /\ JobsOK' /\ LaunchInv' /\ job'["ui"] = job["ui"]
          /\ \A q \in Procs : job'[q].copy = job[q].copy \/ job'[q].copy = NoCopy
      BY <1>2, <2>1, OtherPut
    <2>3. ThreadOK' /\ ResumedInOwnProfile'
      BY <2>1 DEF IInv, Types, ThreadOK, ResumedInOwnProfile, Profile
    <2> QED
      BY <1>1, <2>2, <2>3, Moved
  <1> QED
    BY <1>3, <1>4

-----------------------------------------------------------------------------
(* The user and the providers *)

(* What a step of the workbench that leaves the thread alone keeps. *)
LEMMA UiMove ==
    ASSUME IInv, Track, NEW j \in Job, job' = [job EXCEPT !["ui"] = j], th' = th
    PROVE  JobsOK' /\ ThreadOK' /\ SinceOK' /\ LaunchInv' /\ ResumedInOwnProfile' /\ job'["ui"] = j
           /\ \A q \in Procs \ {"ui"} : job'[q] = job[q]
  <1>1. JobsOK' /\ job'["ui"] = j /\ \A q \in Procs \ {"ui"} : job'[q] = job[q]
    BY PutJob, ProcsAre DEF IInv, Types
  <1>2. LaunchInv'
    BY <1>1, LaunchSame, ProcsAre DEF IInv
  <1>3. ThreadOK' /\ ResumedInOwnProfile'
    BY DEF IInv, Types, ThreadOK, ResumedInOwnProfile, Profile
  <1>4. SinceOK'
    BY TrackFacts DEF IInv
  <1> QED
    BY <1>1, <1>2, <1>3, <1>4

LEMMA OpReadKeep ==
    ASSUME IInv, Track, NEW op \in UserOps \ {"token"}, NEW a \in Accts, OpRead(op, a)
    PROVE  IInv'
  <1> DEFINE j == [NoJob EXCEPT !.pc = "set", !.op = op, !.who = a, !.copy = policy]
  <1>1. /\ ops < MaxOps /\ job' = [job EXCEPT !["ui"] = j]
        /\ lock' = IF op = "system" THEN "ui" ELSE lock
        /\ ops' = ops + 1
        /\ UNCHANGED <<policy, st, signed, wrong, th, redeemed, limits, fails>>
    BY DEF OpRead
  <1>2. policy \in Policy /\ Distinct(policy.order)
    BY DEF IInv, Types, PolicyOK, CopiesDistinct
  <1>3. j \in Job /\ j.copy = policy /\ j.op = op /\ j.who = a
    BY <1>2, NoJobTyped DEF NoJob, Job
  <1>4. op \in Edits
    BY AcctsAssumption DEF Edits
  <1> HIDE DEF j
  <1>5. JobsOK' /\ ThreadOK' /\ SinceOK' /\ LaunchInv' /\ ResumedInOwnProfile' /\ job'["ui"] = j
    BY <1>1, <1>3, UiMove
  <1>6. CopiesDistinct'
    BY <1>1, <1>2, <1>3, CopiesKept, ProcsAre DEF IInv, Types
  <1>7. EditInv'
    BY <1>3, <1>4, <1>5 DEF EditInv
  <1>8. PolicyOK' /\ RowsOK' /\ SetsOK'
    BY <1>1 DEF IInv, Types, PolicyOK, RowsOK, SetsOK
  <1>9. LockOK'
    BY <1>1, ProcsAre DEF IInv, Types, LockOK
  <1>10. CountsOK'
    BY <1>1, AcctsAssumption DEF IInv, Types, CountsOK
  <1> QED
    BY <1>5, <1>6, <1>7, <1>8, <1>9, <1>10, Assembled

(* The refresh a message ends with. *)
LEMMA Refresh ==
    LET j == Begin("ui", "refresh", None, None)
    IN  j \in Job /\ Distinct(j.copy.order) /\ j.pc # "set"
  BY BeginTyped, NoCopyDistinct

LEMMA OpWriteKeep ==
    ASSUME IInv, Track, OpWrite
    PROVE  IInv'
  <1> DEFINE j == job["ui"]
             del == j.op = "delete"
             k == Begin("ui", "refresh", None, None)
             e == Edit(j.op, j.who, j.copy)
  <1>1. /\ j.pc = "set" /\ policy' = Normalize(e)
        /\ lock' = IF lock = "ui" THEN None ELSE lock
        /\ st' = IF del THEN [st EXCEPT ![j.who] = NoRow] ELSE st
        /\ signed' = IF del THEN signed \ ({j.who} \cap Isolated) ELSE signed
        /\ job' = [job EXCEPT !["ui"] = k]
        /\ UNCHANGED <<wrong, th, redeemed, ops, limits, fails>>
    BY DEF OpWrite
  <1>2. j.op \in Edits /\ j.who \in Accts
    BY <1>1 DEF IInv, EditInv
  <1>3. j.copy \in Policy /\ Distinct(j.copy.order)
    BY JobTyped, ProcsAre DEF IInv, Types, CopiesDistinct
  <1>4. e \in Policy /\ Distinct(e.order)
    BY <1>2, <1>3, EditTyped
  <1>5. k \in Job /\ Distinct(k.copy.order) /\ k.pc # "set"
    BY Refresh
  <1> HIDE DEF e, k
  <1>6. PolicyOK' /\ Distinct(policy'.order)
    BY <1>1, <1>4, NormalizeTyped DEF PolicyOK
  <1>7. JobsOK' /\ ThreadOK' /\ SinceOK' /\ LaunchInv' /\ ResumedInOwnProfile' /\ job'["ui"] = k
        /\ \A q \in Procs \ {"ui"} : job'[q] = job[q]
    BY <1>1, <1>5, UiMove
  <1>8. CopiesDistinct' /\ EditInv'
    BY <1>5, <1>6, <1>7 DEF IInv, CopiesDistinct, EditInv
  <1>9. RowsOK'
    <2>1. NoRow \in Row
      BY DEF NoRow, Row
    <2>2. CASE del
      BY <2>1, <2>2, <1>1, <1>2 DEF IInv, Types, RowsOK
    <2>3. CASE ~del
      BY <2>3, <1>1 DEF IInv, Types, RowsOK
    <2> QED
      BY <2>2, <2>3
  <1>10. LockOK' /\ SetsOK' /\ CountsOK'
    BY <1>1 DEF IInv, Types, LockOK, SetsOK, CountsOK
  <1> QED
    BY <1>6, <1>7, <1>8, <1>9, <1>10, Assembled

LEMMA SetTokenKeep ==
    ASSUME IInv, Track, NEW a \in Accts, SetToken(a)
    PROVE  IInv'
  <1> DEFINE k == Begin("ui", "refresh", None, None)
             row == [av |-> "available", reset |-> None]
  <1>1. /\ ops < MaxOps /\ signed' = signed \cup {a} /\ wrong' = wrong \ {a}
        /\ st' = [st EXCEPT ![a] = row]
        /\ job' = [job EXCEPT !["ui"] = k]
        /\ ops' = ops + 1
        /\ UNCHANGED <<policy, lock, th, redeemed, limits, fails>>
    BY DEF SetToken
  <1>2. k \in Job /\ Distinct(k.copy.order) /\ k.pc # "set"
    BY Refresh
  <1>3. row \in Row
    BY DEF Row
  <1> HIDE DEF k, row
  <1>4. JobsOK' /\ ThreadOK' /\ SinceOK' /\ LaunchInv' /\ ResumedInOwnProfile' /\ job'["ui"] = k
    BY <1>1, <1>2, UiMove
  <1>5. CopiesDistinct' /\ EditInv'
    BY <1>1, <1>2, <1>4, CopiesKept, ProcsAre DEF IInv, Types, EditInv
  <1>6. RowsOK'
    BY <1>1, <1>3 DEF IInv, Types, RowsOK
  <1>7. PolicyOK' /\ LockOK' /\ SetsOK'
    BY <1>1 DEF IInv, Types, PolicyOK, LockOK, SetsOK
  <1>8. CountsOK'
    BY <1>1, AcctsAssumption DEF IInv, Types, CountsOK
  <1> QED
    BY <1>4, <1>5, <1>6, <1>7, <1>8, Assembled

(* Steps of the world outside: no process and no policy moves. *)
LEMMA OutsideMove ==
    ASSUME IInv, Track, UNCHANGED <<policy, lock, job, th, redeemed>>, RowsOK', CountsOK',
           signed' \subseteq Accts, wrong' \subseteq Accts
    PROVE  IInv'
  <1>1. JobsOK' /\ LaunchInv'
    BY SameJobs
  <1>2. PolicyOK' /\ ThreadOK' /\ LockOK' /\ SetsOK' /\ CopiesDistinct' /\ EditInv' /\ ResumedInOwnProfile'
    BY DEF IInv, Types, PolicyOK, ThreadOK, LockOK, SetsOK, CopiesDistinct, EditInv, ResumedInOwnProfile, Profile
  <1>3. SinceOK'
    BY TrackFacts DEF IInv
  <1> QED
    BY <1>1, <1>2, <1>3, Assembled

LEMMA OutsideKeep ==
    ASSUME IInv, Track,
           \/ \E a \in Accts : ResetPasses(a) \/ SignInOut(a)
           \/ \E S \in SUBSET wrong : CacheExpires(S)
    PROVE  IInv'
  <1>1. ASSUME NEW a \in Accts, ResetPasses(a) PROVE IInv'
    <2>1. st' = [st EXCEPT ![a].reset = "due"] /\ UNCHANGED <<policy, signed, wrong, lock, job, th, redeemed, ops, limits, fails>>
      BY <1>1 DEF ResetPasses
    <2>2. RowsOK'
      BY <2>1 DEF IInv, Types, RowsOK, Row
    <2>3. CountsOK' /\ signed' \subseteq Accts /\ wrong' \subseteq Accts
      BY <2>1 DEF IInv, Types, CountsOK, SetsOK
    <2> QED
      BY <2>1, <2>2, <2>3, OutsideMove
  <1>2. ASSUME NEW a \in Accts, SignInOut(a) PROVE IInv'
    <2>1. /\ ops < MaxOps /\ ops' = ops + 1
          /\ signed' = (IF a \in signed THEN signed \ {a} ELSE signed \cup {a})
          /\ wrong' = (IF a \in wrong THEN wrong \ {a} ELSE wrong \cup {a})
          /\ UNCHANGED <<policy, st, lock, job, th, redeemed, limits, fails>>
      BY <1>2 DEF SignInOut
    <2>2. signed' \subseteq Accts /\ wrong' \subseteq Accts
      BY <2>1 DEF IInv, Types, SetsOK
    <2>3. CountsOK'
      BY <2>1, AcctsAssumption DEF IInv, Types, CountsOK
    <2>4. RowsOK'
      BY <2>1 DEF IInv, Types, RowsOK
    <2> QED
      BY <2>1, <2>2, <2>3, <2>4, OutsideMove
  <1>3. ASSUME NEW S \in SUBSET wrong, CacheExpires(S) PROVE IInv'
    <2>1. wrong' = wrong \ S /\ UNCHANGED <<policy, st, signed, lock, job, th, redeemed, ops, limits, fails>>
      BY <1>3 DEF CacheExpires
    <2>2. signed' \subseteq Accts /\ wrong' \subseteq Accts /\ RowsOK' /\ CountsOK'
      BY <2>1 DEF IInv, Types, SetsOK, RowsOK, CountsOK
    <2> QED
      BY <2>1, <2>2, OutsideMove
  <1> QED
    BY <1>1, <1>2, <1>3

-----------------------------------------------------------------------------
(* Theorems *)

LEMMA InitHolds == Init => IInv
  <1> SUFFICES ASSUME Init PROVE IInv
    OBVIOUS
  <1>1. Start \in Seq(Accts) /\ Distinct(Start)
    BY AcctsAssumption DEF Distinct
  <1>2. policy.order = Start /\ PolicyOK
    BY <1>1 DEF Init, PolicyOK, Policy
  <1>3. RowsOK
    BY DEF Init, RowsOK, Row, NoRow
  <1>4. JobsOK /\ \A p \in Procs : job[p] = NoJob
    BY NoJobTyped DEF Init, JobsOK
  <1>5. ThreadOK /\ ResumedInOwnProfile
    BY DEF Init, ThreadOK, Thread, Agents, ResumedInOwnProfile
  <1>6. SetsOK /\ LockOK
    BY AcctsAssumption DEF Init, SetsOK, LockOK
  <1>7. CountsOK
    BY AcctsAssumption DEF Init, CountsOK
  <1>8. SinceOK
    BY DEF Init, SinceOK
  <1>9. CopiesDistinct
    BY <1>1, <1>2, <1>4, NoCopyDistinct DEF CopiesDistinct
  <1>10. EditInv /\ LaunchInv
    BY <1>4, ProcsAre DEF EditInv, LaunchInv, NoJob
  <1> QED
    BY <1>2, <1>3, <1>4, <1>5, <1>6, <1>7, <1>8, <1>9, <1>10 DEF IInv, Types

LEMMA StatusStepKeep == ASSUME IInv, Track, NEW p \in Procs, StatusStep(p) PROVE IInv'
  BY CandidatesKeep, SyncReadKeep, SyncWriteKeep, ListKeep, ReadRowsKeep, MarkDueKeep DEF StatusStep

LEMMA UseStepKeep == ASSUME IInv, Track, NEW p \in Procs, UseStep(p) PROVE IInv'
  BY SelectReadyKeep, SelectLimitedKeep, SelectSignedOutKeep, SelectUnmanagedKeep, UseFallbackKeep,
     TickEndsKeep, OpWriteKeep DEF UseStep

LEMMA NextHolds == IInv /\ [Next]_vars => IInv'
  <1>1. ASSUME IInv, Next PROVE IInv'
    BY <1>1, StatusStepKeep, UseStepKeep, RestartAfterCreditKeep, BeginFallbackKeep, UserLaunchKeep,
       RunEndsKeep, TickBeginsKeep, QueuedTickKeep, LimitReachedKeep, OpReadKeep, SetTokenKeep, OutsideKeep
       DEF Next, Step, SessionEnd
  <1>2. ASSUME IInv, UNCHANGED vars PROVE IInv'
    <2>1. UNCHANGED <<policy, st, signed, wrong, lock, job, th, redeemed, ops, limits, fails, since>>
      BY <1>2 DEF vars
    <2>2. Listed("launch")' = Listed("launch")
      BY <2>1 DEF Listed, Wanted
    <2> QED
      BY <1>2, <2>1, <2>2 DEF IInv, Types, PolicyOK, RowsOK, JobsOK, ThreadOK, SetsOK, LockOK, CountsOK, SinceOK,
           CopiesDistinct, EditInv, LaunchInv, ResumedInOwnProfile, Profile
  <1> QED
    BY <1>1, <1>2

(* The state stays well typed, the stored pool names each account once although
   it is written back from copies read earlier, and a provider session is only
   resumed in the profile that created it.                                   *)
THEOREM AccountsAreSound == Spec => []AccountsSound
  <1>1. IInv => AccountsSound
    BY TypesIsTypeOK DEF IInv, AccountsSound, PoolDistinct, CopiesDistinct, Distinct
  <1> QED
    BY <1>1, InitHolds, NextHolds, PTL DEF Spec

(* A step that makes the thread live is a launch that has picked. *)
LEMMA StatusIsNoStart == ASSUME NEW p \in Procs, StatusStep(p) PROVE th' = th
  BY DEF StatusStep, SyncRead, SyncWrite, List, MarkDue, Candidates, ReadRows

LEMMA OnlySelectsStart ==
    ASSUME IInv, Next, ~th.live, th'.live
    PROVE  SelectReady \/ SelectUnmanaged
  <1>1. th \in Thread /\ Waits(th).live = th.live /\ Waits(th) \in Thread
    BY WaitsKeep DEF IInv, Types, ThreadOK
  <1>2. \A p \in Procs : ~StatusStep(p)
    BY StatusIsNoStart
  <1>3. ~SelectLimited /\ ~SelectSignedOut
    BY <1>1 DEF SelectLimited, SelectSignedOut, Thread
  <1>4. ~UseFallback
    BY <1>1 DEF UseFallback, Thread
  <1>5. ~TickEnds
    BY <1>1 DEF TickEnds, Thread
  <1>6. ~OpWrite /\ ~RunEnds /\ ~TickBegins /\ ~QueuedTick
    BY DEF OpWrite, RunEnds, TickBegins, QueuedTick
  <1>7. ~RestartAfterCredit
    BY <1>1 DEF RestartAfterCredit, Thread
  <1>8. ~BeginFallback
    BY <1>1 DEF BeginFallback, Thread
  <1>9. \A ag \in Agents : ~UserLaunch(ag)
    BY <1>1 DEF UserLaunch, Thread
  <1>10. \A reset, credit : ~LimitReached(reset, credit)
    BY DEF LimitReached
  <1>11. \A op, a : ~OpRead(op, a)
    BY DEF OpRead
  <1>12. \A a : ~SetToken(a) /\ ~ResetPasses(a) /\ ~SignInOut(a)
    BY DEF SetToken, ResetPasses, SignInOut
  <1>13. \A S : ~CacheExpires(S)
    BY DEF CacheExpires
  <1> QED
    BY <1>2, <1>3, <1>4, <1>5, <1>6, <1>7, <1>8, <1>9, <1>10, <1>11, <1>12, <1>13
       DEF Next, Step, SessionEnd, UseStep

LEMMA PickIsUsable ==
    ASSUME IInv, [Next]_vars
    PROVE  ~th.live /\ th'.live => th'.acct \notin since.lim \cup since.off
  <1> SUFFICES ASSUME ~th.live, th'.live PROVE th'.acct \notin since.lim \cup since.off
    OBVIOUS
  <1>1. Next
    BY DEF vars
  <1>2. SelectReady \/ SelectUnmanaged
    BY <1>1, OnlySelectsStart
  <1>3. th \in Thread /\ since.lim \subseteq Accts /\ since.off \subseteq Accts
    BY DEF IInv, Types, ThreadOK, SinceOK
  <1>4. CASE SelectReady
    <2>1. job["launch"].pc = "use" /\ Chosen("launch") # None /\ th'.acct = Chosen("launch")
      BY <1>4, <1>3 DEF SelectReady, Thread
    <2>2. Chosen("launch") \in job["launch"].ready
      BY <2>1, ChosenIn, ProcsAre DEF IInv, Types
    <2> QED
      BY <2>1, <2>2 DEF IInv, LaunchInv
  <1>5. CASE SelectUnmanaged
    <2>1. th'.acct = None
      BY <1>5, <1>3 DEF SelectUnmanaged, Thread
    <2> QED
      BY <2>1, <1>3, AcctsAssumption
  <1> QED
    BY <1>2, <1>4, <1>5

(* A launch never starts on an account that was limited, off or out of the pool
   all along since it began, whatever messages, probes and other launches came
   between its reads of the policy, the sign-ins and the rows.               *)
THEOREM LaunchesPickUsable == Spec => PickedUsable
  <1>1. IInv /\ [Next]_vars => [~th.live /\ th'.live => th'.acct \notin since.lim \cup since.off]_vars
    BY PickIsUsable
  <1> QED
    BY <1>1, InitHolds, NextHolds, PTL DEF Spec, PickedUsable
=============================================================================
