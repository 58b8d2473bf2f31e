------------------------------ MODULE SlotPool ------------------------------
(***************************************************************************)
(* What the admission controller promises its callers: a pool of slots.  A *)
(* slot is taken only below the capacity and below the cap of the caller's *)
(* scope, by a caller that has none, and is given back once.  Queueing and *)
(* hand-over are not visible here.                                         *)
(***************************************************************************)
EXTENDS Naturals, FiniteSets

CONSTANTS Client, Scope, ScopeOf, MaxCapacity

VARIABLES
    capacity,  \* slots in all
    scopeCap,  \* slots per scope, 0 for no cap
    owners     \* the callers that own a slot

Init ==
    /\ capacity \in 1..MaxCapacity
    /\ scopeCap = [s \in Scope |-> 0]
    /\ owners = {}

InScope(s) == {c \in owners : ScopeOf[c] = s}

Take(c) ==
    /\ c \notin owners
    /\ Cardinality(owners) < capacity
    /\ LET s == ScopeOf[c] IN
         s \in Scope => scopeCap[s] = 0 \/ Cardinality(InScope(s)) < scopeCap[s]
    /\ owners' = owners \cup {c}
    /\ UNCHANGED <<capacity, scopeCap>>

Give(c) ==
    /\ c \in owners
    /\ owners' = owners \ {c}
    /\ UNCHANGED <<capacity, scopeCap>>

Resize(n) == capacity' = n /\ UNCHANGED <<scopeCap, owners>>

SetScopeCap(s, n) ==
    scopeCap' = [scopeCap EXCEPT ![s] = n] /\ UNCHANGED <<capacity, owners>>

Next ==
    \/ \E c \in Client : Take(c) \/ Give(c)
    \/ \E n \in 1..MaxCapacity : Resize(n)
    \/ \E s \in Scope, n \in 0..MaxCapacity : SetScopeCap(s, n)

Spec == Init /\ [][Next]_<<capacity, scopeCap, owners>>
=============================================================================
