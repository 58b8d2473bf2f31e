------------------------------ MODULE Admission ------------------------------
(***************************************************************************)
(* The resizable admission controller of crates/am-core/src/admission.rs:  *)
(* session and sandbox slots with a runtime-adjustable capacity, optional  *)
(* per-scope caps, and a FIFO queue with skip-over.                        *)
(*                                                                         *)
(* The controller's State lives behind one mutex, so every action below is *)
(* one critical section or one step outside it.  What makes the component  *)
(* hard is that drain_waiters leaves the mutex between reserving a slot    *)
(* for a waiter and sending it the permit: several drains, cancellations   *)
(* and barging acquisitions interleave in that gap.                        *)
(*                                                                         *)
(* A client is one call of try_acquire or acquire_queued with the permit   *)
(* it may end up holding; Admin is the caller of resize/set_scope_cap.     *)
(***************************************************************************)
EXTENDS Integers, Sequences, FiniteSets

CONSTANTS
    Client,       \* callers that want a slot
    Scope,        \* project ids
    NoScope,      \* Option::None as a scope
    ScopeOf,      \* the scope each client passes
    MaxCapacity,  \* bound on the capacities resize is called with
    Admin         \* the caller of resize and set_scope_cap

ASSUME ScopeAssumption ==
    /\ NoScope \notin Scope
    /\ ScopeOf \in [Client -> Scope \cup {NoScope}]
ASSUME CapacityAssumption == MaxCapacity \in Nat \ {0}
ASSUME ClientAssumption == IsFiniteSet(Client) /\ Admin \notin Client

VARIABLES
    running,    \* State.running
    capacity,   \* State.capacity
    perScope,   \* State.per_scope (an absent entry is 0)
    scopeCap,   \* State.scope_caps (an absent entry is NoCap)
    waiters,    \* State.waiters: the clients queued, oldest first
    phase,      \* where each client is in its acquire call
    drain       \* where each caller of drain_waiters is in the loop

admissionVars == <<running, capacity, perScope, scopeCap, waiters, phase, drain>>

NoCap == 0                       \* set_scope_cap stores cap.max(1): 0 is free
Drainer == Client \cup {Admin}
Queued == {waiters[i] : i \in 1..Len(waiters)}

(* idle: no call; waiting: queued with a live receiver; granted: the permit
   is in the oneshot channel; holding: the caller owns the permit;
   dropped: the receiver is gone and WaiterGuard::drop has not run yet. *)
Phase == {"idle", "waiting", "granted", "holding", "dropped"}

(* off: not draining; loop: about to call pop_and_reserve; a client w: w was
   popped and its slot reserved, the send has not happened. *)
DrainState == [at : {"off", "loop"}] \cup [at : {"send", "takeback"}, w : Client]
Off == [at |-> "off"]
Loop == [at |-> "loop"]

(* The counters, the queue and every caller have their types. *)
AdmissionTypeOK ==
    /\ running \in Nat
    /\ capacity \in 1..MaxCapacity
    /\ perScope \in [Scope -> Nat]
    /\ scopeCap \in [Scope -> 0..MaxCapacity]
    /\ waiters \in Seq(Client)
    /\ phase \in [Client -> Phase]
    /\ drain \in [Drainer -> DrainState]

(* Seeded fault: the scope's cap is compared after the slot is taken. *)
CanAdmitOffByOne(s) ==
    /\ running < capacity
    /\ s \in Scope => scopeCap[s] = NoCap \/ perScope[s] <= scopeCap[s]

CanAdmit(s) ==
    /\ running < capacity
    /\ s \in Scope => scopeCap[s] = NoCap \/ perScope[s] < scopeCap[s]

SatSub(n) == IF n = 0 THEN 0 ELSE n - 1

Admit(s) ==
    /\ running' = running + 1
    /\ perScope' = [t \in Scope |-> IF t = s THEN perScope[t] + 1 ELSE perScope[t]]

Release(s) ==
    /\ running' = SatSub(running)
    /\ perScope' = [t \in Scope |-> IF t = s THEN SatSub(perScope[t]) ELSE perScope[t]]

RemoveAt(q, i) == SubSeq(q, 1, i - 1) \o SubSeq(q, i + 1, Len(q))

AdmissionInit ==
    /\ running = 0
    /\ capacity \in 1..MaxCapacity
    /\ perScope = [s \in Scope |-> 0]
    /\ scopeCap = [s \in Scope |-> NoCap]
    /\ waiters = << >>
    /\ phase = [c \in Client |-> "idle"]
    /\ drain = [d \in Drainer |-> Off]

(* A client's name stands for a new call once nothing of its last call is
   left: its own drain is over and no drain holds the old call's sender. *)
Free(c) ==
    /\ phase[c] = "idle"
    /\ drain[c] = Off
    /\ \A d \in Drainer : drain[d].at \in {"send", "takeback"} => drain[d].w # c

(* try_acquire when a slot is free (its refusal changes nothing), and the
   first branch of acquire_queued, which is the same critical section. *)
Acquire(c) ==
    /\ Free(c)
    /\ CanAdmit(ScopeOf[c])
    /\ Admit(ScopeOf[c])
    /\ phase' = [phase EXCEPT ![c] = "holding"]
    /\ UNCHANGED <<capacity, scopeCap, waiters, drain>>

(* acquire_queued at capacity: the check and the push are one section. *)
Enqueue(c) ==
    /\ Free(c)
    /\ ~CanAdmit(ScopeOf[c])
    /\ waiters' = Append(waiters, c)
    /\ phase' = [phase EXCEPT ![c] = "waiting"]
    /\ UNCHANGED <<running, capacity, perScope, scopeCap, drain>>

(* rx.await returns the permit. *)
Receive(c) ==
    /\ phase[c] = "granted"
    /\ phase' = [phase EXCEPT ![c] = "holding"]
    /\ UNCHANGED <<running, capacity, perScope, scopeCap, waiters, drain>>

(* The acquire future is dropped at rx.await with an empty channel: the
   receiver goes first, WaiterGuard::drop is a later critical section.  (The
   Err branch of rx.await is dead: a sender is only dropped by a failed send,
   which needs a dropped receiver.) *)
DropReceiver(c) ==
    /\ phase[c] = "waiting"
    /\ phase' = [phase EXCEPT ![c] = "dropped"]
    /\ UNCHANGED <<running, capacity, perScope, scopeCap, waiters, drain>>

(* The future is dropped with a permit already in the channel: dropping the
   receiver drops the permit, which releases the slot and starts a drain;
   the guard then finds no queue entry. *)
DropGranted(c) ==
    /\ phase[c] = "granted"
    /\ drain[c] = Off
    /\ Release(ScopeOf[c])
    /\ drain' = [drain EXCEPT ![c] = Loop]
    /\ phase' = [phase EXCEPT ![c] = "dropped"]
    /\ UNCHANGED <<capacity, scopeCap, waiters>>

(* WaiterGuard::drop. *)
DropGuard(c) ==
    /\ phase[c] = "dropped"
    /\ drain[c] = Off
    /\ waiters' = IF c \in Queued
                  THEN RemoveAt(waiters, CHOOSE i \in 1..Len(waiters) : waiters[i] = c)
                  ELSE waiters
    /\ phase' = [phase EXCEPT ![c] = "idle"]
    /\ UNCHANGED <<running, capacity, perScope, scopeCap, drain>>

(* AdmissionPermit::drop of a permit in use: release_slot, then its drain. *)
DropPermit(c) ==
    /\ phase[c] = "holding"
    /\ Release(ScopeOf[c])
    /\ drain' = [drain EXCEPT ![c] = Loop]
    /\ phase' = [phase EXCEPT ![c] = "idle"]
    /\ UNCHANGED <<capacity, scopeCap, waiters>>

(* resize: the new capacity is at least 1; growing and shrinking both drain. *)
Resize(n) ==
    /\ drain[Admin] = Off
    /\ capacity' = n
    /\ drain' = [drain EXCEPT ![Admin] = Loop]
    /\ UNCHANGED <<running, perScope, scopeCap, waiters, phase>>

(* set_scope_cap; n = NoCap removes the cap. *)
SetScopeCap(s, n) ==
    /\ drain[Admin] = Off
    /\ scopeCap' = [scopeCap EXCEPT ![s] = n]
    /\ drain' = [drain EXCEPT ![Admin] = Loop]
    /\ UNCHANGED <<running, capacity, perScope, waiters, phase>>

Eligible(i) == CanAdmit(ScopeOf[waiters[i]])
FirstEligible(i) ==
    /\ i \in 1..Len(waiters)
    /\ Eligible(i)
    /\ \A j \in 1..(i - 1) : ~Eligible(j)

(* pop_and_reserve finds a waiter: it leaves the queue with a slot reserved. *)
PopAndReserve(d) ==
    /\ drain[d] = Loop
    /\ \E i \in 1..Len(waiters) :
         /\ FirstEligible(i)
         /\ Admit(ScopeOf[waiters[i]])
         /\ waiters' = RemoveAt(waiters, i)
         /\ drain' = [drain EXCEPT ![d] = [at |-> "send", w |-> waiters[i]]]
    /\ UNCHANGED <<capacity, scopeCap, phase>>

(* pop_and_reserve finds none: drain_waiters returns. *)
DrainDone(d) ==
    /\ drain[d] = Loop
    /\ \A i \in 1..Len(waiters) : ~Eligible(i)
    /\ drain' = [drain EXCEPT ![d] = Off]
    /\ UNCHANGED <<running, capacity, perScope, scopeCap, waiters, phase>>

(* waiter.tx.send(permit), outside the mutex: it reaches a live receiver, or
   fails and hands the unsent permit back to the loop. *)
Send(d) ==
    /\ drain[d].at = "send"
    /\ LET c == drain[d].w IN
         \/ /\ phase[c] = "waiting"
            /\ phase' = [phase EXCEPT ![c] = "granted"]
            /\ drain' = [drain EXCEPT ![d] = Loop]
         \/ /\ phase[c] # "waiting"
            /\ drain' = [drain EXCEPT ![d] = [at |-> "takeback", w |-> c]]
            /\ UNCHANGED phase
    /\ UNCHANGED <<running, capacity, perScope, scopeCap, waiters>>

(* Seeded faults: an unsent permit is disarmed and its slot forgotten; the
   loop is left after a failed send. *)
TakeBackLeaks(d) ==
    /\ drain[d].at = "takeback"
    /\ drain' = [drain EXCEPT ![d] = Loop]
    /\ UNCHANGED <<running, perScope, capacity, scopeCap, waiters, phase>>

TakeBackReturns(d) ==
    /\ drain[d].at = "takeback"
    /\ Release(ScopeOf[drain[d].w])
    /\ drain' = [drain EXCEPT ![d] = Off]
    /\ UNCHANGED <<capacity, scopeCap, waiters, phase>>

(* The reserved slot of an unsent permit is released and the loop goes on. *)
TakeBack(d) ==
    /\ drain[d].at = "takeback"
    /\ Release(ScopeOf[drain[d].w])
    /\ drain' = [drain EXCEPT ![d] = Loop]
    /\ UNCHANGED <<capacity, scopeCap, waiters, phase>>

AdmissionNext ==
    \/ \E c \in Client :
         \/ Acquire(c) \/ Enqueue(c) \/ Receive(c)
         \/ DropReceiver(c) \/ DropGranted(c) \/ DropGuard(c) \/ DropPermit(c)
    \/ \E n \in 1..MaxCapacity : Resize(n)
    \/ \E s \in Scope, n \in 0..MaxCapacity : SetScopeCap(s, n)
    \/ \E d \in Drainer : PopAndReserve(d) \/ DrainDone(d) \/ Send(d) \/ TakeBack(d)

AdmissionSpec == AdmissionInit /\ [][AdmissionNext]_admissionVars

------------------------------------------------------------------------------
(* The clients that own a slot: a permit in hand or in a channel, or a slot
   reserved by a drain that has not resolved its send yet. *)
Holders == {c \in Client : phase[c] \in {"granted", "holding"}}
Reserving == {d \in Drainer : drain[d].at \in {"send", "takeback"}}
Owners == Holders \cup {drain[d].w : d \in Reserving}

(* Every counted slot is owned by one permit or one pending hand-over:
   cancelling an acquire at any point, also between pop_and_reserve and the
   send, neither leaks a slot nor frees one twice (Drop, drain_waiters'
   take-back and WaiterGuard::drop together). *)
SlotAccounting ==
    /\ running = Cardinality(Owners)
    /\ \A s \in Scope : perScope[s] = Cardinality({c \in Owners : ScopeOf[c] = s})

(* The controller implements a pool of slots: whatever the interleaving of
   hand-overs, cancellations and resizes, a slot is only given out below the
   capacity and the scope's cap of that moment, and only to one owner. *)
Pool == INSTANCE SlotPool WITH owners <- Owners
ImplementsPool == Pool!Spec

(* No lost wake-up: when no caller is inside drain_waiters, no queued waiter
   could be admitted.  The send happens outside the mutex, so this is what
   the re-check after every send and take-back is for. *)
NoStrandedWaiter ==
    (\A d \in Drainer : drain[d] = Off) => \A i \in 1..Len(waiters) : ~Eligible(i)

(* A queue entry belongs to exactly one live or just-cancelled call, and no
   call is both queued and about to be handed a slot: each waiter gets at most
   one permit. *)
OneGrantPerWaiter ==
    /\ \A i, j \in 1..Len(waiters) : waiters[i] = waiters[j] => i = j
    /\ \A c \in Queued : phase[c] \in {"waiting", "dropped"}
    /\ \A d \in Reserving :
         /\ drain[d].w \notin Queued
         /\ phase[drain[d].w] \in {"waiting", "dropped", "idle"}
    /\ \A d, e \in Reserving : drain[d].w = drain[e].w => d = e
    /\ \A c \in Client : phase[c] = "waiting" =>
         c \in Queued \/ \E d \in Reserving : drain[d].at = "send" /\ drain[d].w = c
==============================================================================
