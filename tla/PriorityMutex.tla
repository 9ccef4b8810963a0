---------------------------- MODULE PriorityMutex ----------------------------
(***************************************************************************)
(* What the radio lock promises its users: at most one task owns the       *)
(* radio, and whenever ownership is granted while others want it, it goes  *)
(* to a task that asked at the most urgent tier.  How the promise is kept  *)
(* -- deques of futures, direct hand-off, cancelled futures left in line,  *)
(* the registries of pre-empting waiters -- is PriorityLock's business.    *)
(***************************************************************************)
EXTENDS Naturals

CONSTANTS
    Tasks,      \* the tasks that use the radio
    NoTask,     \* nobody
    Tiers,      \* the urgency of a request; smaller is more urgent
    NoTier      \* not waiting

VARIABLES
    owner,      \* the task the radio belongs to, or NoTask
    want        \* want[t]: the tier at which t waits, or NoTier

vars == <<owner, want>>

Waiting == {t \in Tasks : want[t] # NoTier}

\* Nobody waits at a more urgent tier than u.
MostUrgent(u) == u \in Waiting /\ \A v \in Waiting : want[u] <= want[v]

Init ==
    /\ owner = NoTask
    /\ want = [t \in Tasks |-> NoTier]

\* The radio is free and nobody waits for it: t takes it at once.
Take(t) ==
    /\ owner = NoTask /\ Waiting = {}
    /\ owner' = t
    /\ UNCHANGED want

\* The radio is taken: t waits at tier k.
Join(t, k) ==
    /\ owner \notin {NoTask, t} /\ want[t] = NoTier
    /\ want' = [want EXCEPT ![t] = k]
    /\ UNCHANGED owner

\* t gives up waiting.
Leave(t) ==
    /\ want[t] # NoTier
    /\ want' = [want EXCEPT ![t] = NoTier]
    /\ UNCHANGED owner

\* The owner gives the radio up; nobody wants it.
Drop ==
    /\ owner # NoTask /\ Waiting = {}
    /\ owner' = NoTask
    /\ UNCHANGED want

\* The owner hands the radio to a most urgent waiter.
Pass(u) ==
    /\ owner # NoTask /\ MostUrgent(u)
    /\ owner' = u
    /\ want' = [want EXCEPT ![u] = NoTier]

\* The owner lends the radio to a most urgent waiter and waits at tier k for it.
Lend(u, k) ==
    /\ owner \in Tasks /\ MostUrgent(u) /\ u # owner
    /\ owner' = u
    /\ want' = [want EXCEPT ![u] = NoTier, ![owner] = k]

Next ==
    \/ \E t \in Tasks : Take(t) \/ Leave(t) \/ Pass(t)
    \/ \E t \in Tasks, k \in Tiers : Join(t, k) \/ Lend(t, k)
    \/ Drop

Spec == Init /\ [][Next]_vars
=============================================================================
