------------------------------ MODULE SlotPool ------------------------------
(***************************************************************************)
(* What the fragmented-send semaphore promises the sends to one peer:      *)
(* never more than Capacity of them hold a slot, a send waits only while   *)
(* all slots are held, and a slot that is given up while others wait goes, *)
(* at once, to one that asked at the most urgent tier.                     *)
(***************************************************************************)
EXTENDS Naturals, FiniteSets

CONSTANTS
    Tasks,      \* the sends to the peer
    Tiers,      \* the urgency of a request; smaller is more urgent
    Capacity,   \* the number of slots
    NoTier      \* not waiting

VARIABLES
    users,      \* the sends that hold a slot
    want        \* want[t]: the tier at which t waits, or NoTier

vars == <<users, want>>

Waiting == {t \in Tasks : want[t] # NoTier}
MostUrgent(u) == u \in Waiting /\ \A v \in Waiting : want[u] <= want[v]

Init ==
    /\ users = {}
    /\ want = [t \in Tasks |-> NoTier]

\* A slot is free: t takes it at once.
Take(t) ==
    /\ t \notin users \union Waiting /\ Cardinality(users) < Capacity
    /\ users' = users \union {t}
    /\ UNCHANGED want

\* Every slot is held: t waits.
Join(t, k) ==
    /\ t \notin users \union Waiting /\ Cardinality(users) = Capacity
    /\ want' = [want EXCEPT ![t] = k]
    /\ UNCHANGED users

\* t waits no longer: it was cancelled, or it sends without a slot.
Leave(t) ==
    /\ t \in Waiting
    /\ want' = [want EXCEPT ![t] = NoTier]
    /\ UNCHANGED users

\* t gives its slot up; nobody wants it.
Drop(t) ==
    /\ t \in users /\ Waiting = {}
    /\ users' = users \ {t}
    /\ UNCHANGED want

\* t gives its slot up to a most urgent waiter.
Pass(t, u) ==
    /\ t \in users /\ MostUrgent(u)
    /\ users' = (users \ {t}) \union {u}
    /\ want' = [want EXCEPT ![u] = NoTier]

Next ==
    \/ \E t \in Tasks : Take(t) \/ Leave(t) \/ Drop(t)
    \/ \E t \in Tasks, k \in Tiers : Join(t, k)
    \/ \E t, u \in Tasks : Pass(t, u)

Spec == Init /\ [][Next]_vars
=============================================================================
