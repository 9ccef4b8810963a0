-------------------------- MODULE PrioritySemaphore --------------------------
(***************************************************************************)
(* The fragmented-send semaphore of smci/_locks.py                         *)
(* (_PriorityAsyncSemaphore) with the sends to one peer that use it: a     *)
(* fragmented send and a raw window each ask for a slot with a time-out,   *)
(* and go on without one when it passes.  An action is the code a task     *)
(* runs from one await to the next; as with the radio lock, a slot that is *)
(* granted and a task that knows of it are two states.                     *)
(***************************************************************************)
EXTENDS Naturals, Sequences, FiniteSets

CONSTANTS
    Tasks,          \* the sends that share the semaphore
    Tiers,          \* priorities in use
    Tier,           \* Tier[t]: the priority t asks at
    Capacity,       \* _capacity: direct_fragmented_max_in_flight, or 1
    NoTier

ASSUME TasksAssumption == IsFiniteSet(Tasks)
ASSUME TierAssumption == Tiers \subseteq Nat /\ Tier \in [Tasks -> Tiers] /\ NoTier \notin Nat
ASSUME CapacityAssumption == Capacity \in Nat \ {0}

VARIABLES
    holders,        \* _holders
    waiters,        \* _waiters: per tier, the tasks whose futures are in line
    pc              \* pc[t]: where t is, see States

vars == <<holders, waiters, pc>>

\* As in PriorityLock: waiting, a pending future; granted, done but the task
\* not resumed; dropped, cancelled in line; doomed, granted and then cancelled;
\* holding, sending with a slot.  A send without a slot is idle here.
States == {"idle", "waiting", "granted", "dropped", "doomed", "holding"}

Owners == {t \in Tasks : pc[t] \in {"granted", "doomed", "holding"}}

-----------------------------------------------------------------------------
(* The line. *)

\* Entries of q whose future is still pending: _wake_next skips the others.
Pending(q, p, k) == {i \in DOMAIN q[k] : p[q[k][i]] = "waiting"}

\* Mutant: waiters are served in the order of the dictionary, oldest tier first.
IsNextAnyTier(q, p, k, i) ==
    /\ i \in Pending(q, p, k)
    /\ \A j \in Pending(q, p, k) : i <= j

\* Position i of tier k is the first pending entry of the most urgent tier.
IsNext(q, p, k, i) ==
    /\ i \in Pending(q, p, k)
    /\ \A j \in Pending(q, p, k) : i <= j
    /\ \A h \in Tiers : h < k => Pending(q, p, h) = {}

\* The entry at (k, i) gets the slot; every entry passed on the way is popped.
Grant(q, p, k, i) ==
    [woken |-> TRUE,
     waiters |-> [h \in Tiers |->
        IF h < k THEN <<>> ELSE IF h = k THEN SubSeq(q[k], i + 1, Len(q[k])) ELSE q[h]],
     pc |-> [p EXCEPT ![q[k][i]] = "granted"]]

\* _wake_next: the one outcome it has.
WakeNext(q, p) ==
    IF \A k \in Tiers : Pending(q, p, k) = {}
    THEN {[woken |-> FALSE, waiters |-> [k \in Tiers |-> <<>>], pc |-> p]}
    ELSE UNION {{Grant(q, p, k, i) : i \in {j \in DOMAIN q[k] : IsNext(q, p, k, j)}}
                : k \in Tiers}

\* dq.remove(fut)
Without(s, t) ==
    IF \E i \in DOMAIN s : s[i] = t
    THEN LET i == CHOOSE j \in DOMAIN s : s[j] = t
         IN  SubSeq(s, 1, i - 1) \o SubSeq(s, i + 1, Len(s))
    ELSE s

\* t's slot passes to the next in line or, if there is none, is freed.
GiveUp(t) ==
    \E s \in WakeNext(waiters, [pc EXCEPT ![t] = "idle"]) :
        /\ waiters' = s.waiters /\ pc' = s.pc
        /\ holders' = IF s.woken THEN holders ELSE holders - 1

-----------------------------------------------------------------------------
(* What a send does. *)

\* "if self._holders < self._capacity and not self._waiters"
Free == holders < Capacity /\ \A k \in Tiers : waiters[k] = <<>>

AcquireFree(t) ==
    /\ pc[t] = "idle" /\ Free
    /\ holders' = holders + 1
    /\ pc' = [pc EXCEPT ![t] = "holding"]
    /\ UNCHANGED waiters

AcquireWait(t) ==
    /\ pc[t] = "idle" /\ ~Free
    /\ waiters' = [waiters EXCEPT ![Tier[t]] = Append(@, t)]
    /\ pc' = [pc EXCEPT ![t] = "waiting"]
    /\ UNCHANGED holders

Resume(t) ==
    /\ pc[t] = "granted"
    /\ pc' = [pc EXCEPT ![t] = "holding"]
    /\ UNCHANGED <<holders, waiters>>

\* The send is over, by whatever way.
Release(t) ==
    /\ pc[t] = "holding"
    /\ GiveUp(t)

\* The time-out passes, or the send is cancelled: a pending future is
\* cancelled, a granted task is told at its next step.
Cancel(t) ==
    /\ \/ pc[t] = "waiting" /\ pc' = [pc EXCEPT ![t] = "dropped"]
       \/ pc[t] = "granted" /\ pc' = [pc EXCEPT ![t] = "doomed"]
    /\ UNCHANGED <<holders, waiters>>

\* CancelledError, still in line: leave it.
LeaveLine(t) ==
    /\ pc[t] = "dropped"
    /\ waiters' = [waiters EXCEPT ![Tier[t]] = Without(@, t)]
    /\ pc' = [pc EXCEPT ![t] = "idle"]
    /\ UNCHANGED holders

\* Mutant: acquire without the clause for a grant that came with the cancellation.
PassOnLeak(t) ==
    /\ pc[t] = "doomed"
    /\ pc' = [pc EXCEPT ![t] = "idle"]
    /\ UNCHANGED <<holders, waiters>>

\* CancelledError in the instant of the grant: hand the slot on, or free it.
PassOn(t) ==
    /\ pc[t] = "doomed"
    /\ GiveUp(t)

Init ==
    /\ holders = 0
    /\ waiters = [k \in Tiers |-> <<>>]
    /\ pc = [t \in Tasks |-> "idle"]

Step(t) ==
    \/ AcquireFree(t) \/ AcquireWait(t) \/ Resume(t) \/ Release(t)
    \/ Cancel(t) \/ LeaveLine(t) \/ PassOn(t)

Next == \E t \in Tasks : Step(t)

Spec == Init /\ [][Next]_vars

-----------------------------------------------------------------------------
(* Properties. *)

TypeOK ==
    /\ holders \in 0..Capacity
    /\ waiters \in [Tiers -> Seq(Tasks)]
    /\ pc \in [Tasks -> States]

\* Whatever is cancelled, and when: the count is the number of sends that have
\* a slot or are about to learn of it, and a send waits, or is in line at all,
\* only while every slot is taken -- no slot is leaked, none freed twice, and
\* none lies idle beside a waiter.
SlotsAccounted ==
    /\ holders = Cardinality(Owners)
    /\ holders < Capacity => /\ \A k \in Tiers : waiters[k] = <<>>
                             /\ \A t \in Tasks : pc[t] # "waiting"

\* The semaphore keeps SlotPool's promise: Capacity, no wait without need, and
\* the most urgent first.
Pool == INSTANCE SlotPool WITH
    users <- Owners,
    want <- [t \in Tasks |-> IF pc[t] = "waiting" THEN Tier[t] ELSE NoTier]

ImplementsPool == Pool!Spec
=============================================================================
