----------------------------- MODULE PriorityLock -----------------------------
(***************************************************************************)
(* The radio lock of smci/_locks.py (_PriorityAsyncLock) with the tasks    *)
(* that use it: one-frame exchanges (async with lock(tier, preempt,        *)
(* report)) and raw windows (acquire, yield between frames, release).      *)
(* Everything runs on one asyncio loop, so an action is the code a task    *)
(* runs from one await to the next.  A granted future does not run its     *)
(* task: the task resumes in a later step, and may be cancelled before.    *)
(*                                                                         *)
(* Tiers are twice the numbers of the code, which uses 0.5 and 1.5 for a   *)
(* holder that yielded.                                                    *)
(***************************************************************************)
EXTENDS Naturals, Sequences

CONSTANTS
    Tasks,
    Tier,           \* Tier[t]: the tier at which t asks for the radio
    Preempting,     \* tasks that ask with preempt=True (handshakes, fresh proofs)
    Reporting,      \* tasks that ask with report=True (completion reports)
    Windows,        \* raw windows: the tasks that yield the radio mid-way
    Cancellable,    \* tasks that may be cancelled while they wait
    NoTask, NoTier

HANDSHAKE == 0
YIELDED == 1
ANSWER == 2
REPORT_YIELDED == 3
NORMAL == 4
LOW == 6
Tiers == 0..6

ASSUME TierAssumption == Tier \in [Tasks -> Tiers]
\* Only handshakes and fresh proofs pre-empt (_direct.py 569 and 1034).
ASSUME KindAssumption ==
    /\ Preempting \subseteq {t \in Tasks : Tier[t] \in {HANDSHAKE, ANSWER}}
    /\ Reporting \subseteq Tasks
    /\ Windows \subseteq Tasks \ (Preempting \union Reporting)
    /\ Cancellable \subseteq Tasks
ASSUME NobodyAssumption == NoTask \notin Tasks /\ NoTier \notin Nat

VARIABLES
    locked,         \* _locked
    waiters,        \* _waiters: per tier, the tasks whose futures are in line
    tier,           \* tier[t]: the tier of t's latest place in line
    pc,             \* pc[t]: where t is, see States
    resuming,       \* the windows whose acquire is the second half of a yield
    preempters,     \* keys of _preempt_waiters
    reporters,      \* _report_waiters
    event,          \* the asyncio.Events a holder watches in its idle phases
    owed            \* history: owed[w], the pre-emptors w yielded to, still in line

vars == <<locked, waiters, tier, pc, resuming, preempters, reporters, event, owed>>

\* idle: not using the lock.  waiting: its future is pending.  granted: its
\* future is done, the task not yet resumed.  dropped: its future was
\* cancelled, the task not yet resumed.  doomed: granted, then cancelled
\* before it resumed.  holding: inside the critical section.
States == {"idle", "waiting", "granted", "dropped", "doomed", "holding"}
InAcquire == {"waiting", "granted", "dropped", "doomed"}

Events == {"preempt", "handshake", "report"}
EventStates == {"absent", "clear", "set"}

Owners == {t \in Tasks : pc[t] \in {"granted", "doomed", "holding"}}

-----------------------------------------------------------------------------
(* The waiter queues. *)

\* Mutant: _wake_next without the fut.done() test.
PendingNoSkip(q, p, k) == DOMAIN q[k]

\* Entries of q whose future is still pending: _wake_next skips the others.
Pending(q, p, k) == {i \in DOMAIN q[k] : p[q[k][i]] = "waiting"}

\* Mutant: tiers scanned from the least urgent.
IsNextReversed(q, p, k, i) ==
    /\ i \in Pending(q, p, k)
    /\ \A j \in Pending(q, p, k) : i <= j
    /\ \A h \in Tiers : h > k => Pending(q, p, h) = {}

\* Position i of tier k is the first pending entry of the most urgent tier.
IsNext(q, p, k, i) ==
    /\ i \in Pending(q, p, k)
    /\ \A j \in Pending(q, p, k) : i <= j
    /\ \A h \in Tiers : h < k => Pending(q, p, h) = {}

\* Mutant: release clears _locked although it handed the lock over.
GrantUnlocked(q, p, k, i) ==
    [locked |-> FALSE,
     waiters |-> [q EXCEPT ![k] = SubSeq(@, i + 1, Len(@))],
     pc |-> [p EXCEPT ![q[k][i]] = "granted"]]

\* The entry at (k, i) is granted; every entry passed on the way is popped.
Grant(q, p, k, i) ==
    [locked |-> TRUE,
     waiters |-> [h \in Tiers |->
        IF h < k THEN <<>> ELSE IF h = k THEN SubSeq(q[k], i + 1, Len(q[k])) ELSE q[h]],
     pc |-> [p EXCEPT ![q[k][i]] = "granted"]]

\* _wake_next, then "if not woken: _locked = False": the one state it leads to.
WakeNext(q, p) ==
    IF \A k \in Tiers : Pending(q, p, k) = {}
    THEN {[locked |-> FALSE, waiters |-> [k \in Tiers |-> <<>>], pc |-> p]}
    ELSE UNION {{Grant(q, p, k, i) : i \in {j \in DOMAIN q[k] : IsNext(q, p, k, j)}}
                : k \in Tiers}

\* dq.remove(fut)
Without(s, t) ==
    IF \E i \in DOMAIN s : s[i] = t
    THEN LET i == CHOOSE j \in DOMAIN s : s[j] = t
         IN  SubSeq(s, 1, i - 1) \o SubSeq(s, i + 1, Len(s))
    ELSE s

\* Mutant: a holder always resumes at YIELDED_PRIORITY, as before alpha 0.1.7.
ResumeTierFixed == YIELDED

\* preempt_resume_priority: half a step behind the most urgent pre-emptor.
ResumeTier ==
    IF preempters = {} THEN YIELDED
    ELSE 1 + (CHOOSE k \in Tiers :
                /\ \E t \in preempters : Tier[t] = k
                /\ \A t \in preempters : k <= Tier[t])

-----------------------------------------------------------------------------
(* The registries and their events. *)

\* _preempt_add, _report_add
Register(t) ==
    /\ preempters' = IF t \in Preempting THEN preempters \union {t} ELSE preempters
    /\ reporters' = IF t \in Reporting THEN reporters \union {t} ELSE reporters
    /\ event' = [e \in Events |->
        IF /\ event[e] # "absent"
           /\ \/ e = "preempt" /\ t \in Preempting
              \/ e = "handshake" /\ t \in Preempting /\ Tier[t] <= HANDSHAKE
              \/ e = "report" /\ t \in Reporting
        THEN "set" ELSE event[e]]

\* Whether the registries give event e a reason to be set.
Wanted(e, ps, rs) ==
    CASE e = "preempt" -> ps # {}
      [] e = "handshake" -> \E t \in ps : Tier[t] <= HANDSHAKE
      [] OTHER -> rs # {}

\* Mutant: leaving the line forgets to clear the events.
DeregisterNoClear(t) ==
    /\ preempters' = preempters \ {t}
    /\ reporters' = reporters \ {t}
    /\ UNCHANGED event

\* _preempt_remove, _report_remove: the finally clause of acquire.  The second
\* half of a yield asks with no flag and so has nothing to take back.
Deregister(t) ==
    /\ preempters' = preempters \ {t}
    /\ reporters' = reporters \ {t}
    /\ event' = [e \in Events |->
        IF /\ event[e] # "absent"
           /\ IF e = "report" THEN t \in Reporting ELSE t \in Preempting
           /\ ~Wanted(e, preempters', reporters')
        THEN "clear" ELSE event[e]]

KeepOwed == owed' = [w \in Tasks |-> {t \in owed[w] : pc'[t] = "waiting"}]

-----------------------------------------------------------------------------
(* What a task does. *)

\* acquire on a free lock: no await, no queue.
AcquireFree(t) ==
    /\ pc[t] = "idle" /\ ~locked
    /\ locked' = TRUE
    /\ pc' = [pc EXCEPT ![t] = "holding"]
    /\ KeepOwed
    /\ UNCHANGED <<waiters, tier, resuming, preempters, reporters, event>>

\* acquire on a taken lock: the future joins its tier's deque.
AcquireWait(t) ==
    /\ pc[t] = "idle" /\ locked
    /\ waiters' = [waiters EXCEPT ![Tier[t]] = Append(@, t)]
    /\ tier' = [tier EXCEPT ![t] = Tier[t]]
    /\ pc' = [pc EXCEPT ![t] = "waiting"]
    /\ Register(t)
    /\ KeepOwed
    /\ UNCHANGED <<locked, resuming>>

\* The loop runs a task whose future was granted.
Resume(t) ==
    /\ pc[t] = "granted"
    /\ pc' = [pc EXCEPT ![t] = "holding"]
    /\ resuming' = resuming \ {t}
    /\ Deregister(t)
    /\ KeepOwed
    /\ UNCHANGED <<locked, waiters, tier>>

\* release: the end of an exchange, of a burst, or of a report wait that was cut.
Release(t) ==
    /\ pc[t] = "holding"
    /\ \E s \in WakeNext(waiters, [pc EXCEPT ![t] = "idle"]) :
        /\ locked' = s.locked /\ waiters' = s.waiters /\ pc' = s.pc
    /\ KeepOwed
    /\ UNCHANGED <<tier, resuming, preempters, reporters, event>>

\* The tier a window re-queues at: behind the pre-emptors when one asks, or when
\* the event that cut the gate's wait was set by one; else behind a report.
YieldTier(k) ==
    \/ event["preempt"] # "absent" /\ k = ResumeTier
    \/ preempters = {} /\ reporters # {} /\ k = REPORT_YIELDED

\* yield_to_preempt: release and acquire again with no await between them.
Yield(w) ==
    /\ w \in Windows /\ pc[w] = "holding"
    /\ \E k \in Tiers, s \in WakeNext(waiters, [pc EXCEPT ![w] = "idle"]) :
        /\ YieldTier(k)
        /\ locked' = TRUE
        /\ IF s.locked
           THEN /\ waiters' = [s.waiters EXCEPT ![k] = Append(@, w)]
                /\ tier' = [tier EXCEPT ![w] = k]
                /\ pc' = [s.pc EXCEPT ![w] = "waiting"]
                /\ resuming' = resuming \union {w}
                /\ owed' = [v \in Tasks |->
                    IF v = w
                    THEN {t \in preempters : /\ pc'[t] = "waiting"
                                             /\ \A u \in preempters : Tier[t] <= Tier[u]}
                    ELSE {t \in owed[v] : pc'[t] = "waiting"}]
           ELSE /\ waiters' = s.waiters
                /\ pc' = [s.pc EXCEPT ![w] = "holding"]
                /\ KeepOwed
                /\ UNCHANGED <<tier, resuming>>
    /\ UNCHANGED <<preempters, reporters, event>>

\* task.cancel(): a pending future is cancelled at once, the task learns later;
\* a granted task is told at its next step.
Cancel(t) ==
    /\ t \in Cancellable
    /\ \/ pc[t] = "waiting" /\ pc' = [pc EXCEPT ![t] = "dropped"]
       \/ pc[t] = "granted" /\ pc' = [pc EXCEPT ![t] = "doomed"]
    /\ KeepOwed
    /\ UNCHANGED <<locked, waiters, tier, resuming, preempters, reporters, event>>

\* Mutant: a cancelled grant calls _wake_next and ignores its result.
ResumeCancelledStuck(t) ==
    /\ pc[t] \in {"dropped", "doomed"}
    /\ LET away == [pc EXCEPT ![t] = "idle"]
       IN IF pc[t] = "doomed"
          THEN \E s \in WakeNext(waiters, away) :
                  waiters' = s.waiters /\ pc' = s.pc
          ELSE /\ pc' = away
               /\ waiters' = [waiters EXCEPT ![tier[t]] = Without(@, t)]
    /\ resuming' = resuming \ {t}
    /\ Deregister(t)
    /\ KeepOwed
    /\ UNCHANGED <<tier, locked>>

\* CancelledError in acquire: leave the line, or pass a grant on.  A window
\* cancelled in the middle of a yield then runs its own finally clause, which
\* still believes it holds the lock (_run_raw_window_rounds: lock_held).
ResumeCancelled(t) ==
    /\ pc[t] \in {"dropped", "doomed"}
    /\ LET away == [pc EXCEPT ![t] = "idle"]
           left == IF pc[t] = "doomed" THEN WakeNext(waiters, away)
                   ELSE {[locked |-> locked, pc |-> away,
                          waiters |-> [waiters EXCEPT ![tier[t]] = Without(@, t)]]}
       IN \E s \in left :
            \E r \in IF t \in resuming THEN WakeNext(s.waiters, s.pc) ELSE {s} :
                locked' = r.locked /\ waiters' = r.waiters /\ pc' = r.pc
    /\ resuming' = resuming \ {t}
    /\ Deregister(t)
    /\ KeepOwed
    /\ UNCHANGED tier

\* preempt_event, report_event: a holder asks for an event, created on first use.
AskEvent(e) ==
    /\ event[e] = "absent"
    /\ \E t \in Tasks : pc[t] = "holding"
    /\ event' = [event EXCEPT ![e] = IF Wanted(e, preempters, reporters) THEN "set" ELSE "clear"]
    /\ UNCHANGED <<locked, waiters, tier, pc, resuming, preempters, reporters, owed>>

-----------------------------------------------------------------------------
Init ==
    /\ locked = FALSE
    /\ waiters = [k \in Tiers |-> <<>>]
    /\ tier = Tier
    /\ pc = [t \in Tasks |-> "idle"]
    /\ resuming = {}
    /\ preempters = {} /\ reporters = {}
    /\ event = [e \in Events |-> "absent"]
    /\ owed = [t \in Tasks |-> {}]

Step(t) ==
    \/ AcquireFree(t) \/ AcquireWait(t) \/ Resume(t) \/ Release(t)
    \/ Yield(t) \/ Cancel(t) \/ ResumeCancelled(t)

Next == (\E t \in Tasks : Step(t)) \/ (\E e \in Events : AskEvent(e))

Spec == Init /\ [][Next]_vars

\* The loop runs every ready task, and every holder's awaits have timeouts.
Fairness == \A t \in Tasks :
    WF_vars(Resume(t)) /\ WF_vars(ResumeCancelled(t)) /\ WF_vars(Release(t))

FairSpec == Spec /\ Fairness

-----------------------------------------------------------------------------
(* Properties. *)

\* Every variable stays in its range.
TypeOK ==
    /\ locked \in BOOLEAN
    /\ waiters \in [Tiers -> Seq(Tasks)]
    /\ tier \in [Tasks -> Tiers]
    /\ pc \in [Tasks -> States]
    /\ resuming \in SUBSET Windows
    /\ preempters \in SUBSET Preempting
    /\ reporters \in SUBSET Reporting
    /\ event \in [Events -> EventStates]
    /\ owed \in [Tasks -> SUBSET Tasks]

\* Two exchanges never own the radio at once, a grant that is still on its way
\* to its task included (_PriorityAsyncLock).
MutualExclusion == \A t, u \in Owners : t = u

\* The lock is taken exactly when some task will release it, and nobody waits
\* for a lock nobody owns: no cancellation strands the radio (acquire, 187-209).
NoLostWakeup ==
    /\ locked <=> Owners # {}
    /\ (\E t \in Tasks : pc[t] = "waiting") => locked

\* A holder sees a pre-emption or report request exactly while a task that made
\* one is still inside acquire, and the events it sleeps on say the same.
RequestsAreLive ==
    /\ preempters = {t \in Preempting : pc[t] \in InAcquire}
    /\ reporters = {t \in Reporting : pc[t] \in InAcquire}
    /\ \A e \in Events : event[e] # "absent" =>
        (event[e] = "set" <=> Wanted(e, preempters, reporters))

\* A window that yielded owns the radio again only after every most urgent
\* pre-emptor it yielded to was served or gave up (preempt_resume_priority).
YieldServesPreemptor ==
    \A w \in Windows : pc[w] \in {"granted", "holding"} => owed[w] = {}

\* A handshake in line for the radio gets it or is cancelled: neither a window
\* nor a stream of other requests holds it off.
HandshakeServed ==
    \A t \in Tasks :
        (pc[t] = "waiting" /\ tier[t] = HANDSHAKE) ~> (pc[t] # "waiting")

\* The lock implements the abstract priority mutex.
Mutex == INSTANCE PriorityMutex WITH
    owner <- IF Owners = {} THEN NoTask ELSE CHOOSE t \in Owners : TRUE,
    want <- [t \in Tasks |-> IF pc[t] = "waiting" THEN tier[t] ELSE NoTier]

ImplementsMutex == Mutex!Spec
=============================================================================
