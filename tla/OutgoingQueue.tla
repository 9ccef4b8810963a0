---------------------------- MODULE OutgoingQueue ----------------------------
(***************************************************************************)
(* The way of a packet from RNS to the radio (smci/_routing.py):           *)
(* process_outgoing runs on RNS's threads, drops bytes that are already in *)
(* flight and queues the rest; _outgoing_worker runs on the asyncio loop,  *)
(* takes the most urgent packet, and lets its bytes be sent again once     *)
(* every send task spawned for it has finished.                            *)
(*                                                                         *)
(* A copy of a packet is in exactly one place: with a caller between the   *)
(* registration of its bytes and queue.put, in the queue, with the worker, *)
(* or with its send tasks.                                                 *)
(***************************************************************************)
EXTENDS Naturals, FiniteSets

CONSTANTS
    Packets,        \* distinct bytes (truncated hashes)
    Tier,           \* Tier[p]: _priority_tier
    Callers,        \* threads of RNS
    Capacity,       \* OUTQUEUE_MAXSIZE
    Limit,          \* outgoing_duplicate_suppress_limit
    MaxTasks,       \* bound: send tasks spawned for one copy
    MaxCalls,       \* bound: calls of process_outgoing
    Slow,           \* packets whose sends may take over ten minutes
    None            \* no packet and no copy

ASSUME TierAssumption == Tier \in [Packets -> 0..3]
ASSUME BoundAssumption ==
    /\ Capacity \in Nat \ {0} /\ Limit \in Nat \ {0}
    /\ MaxTasks \in Nat /\ MaxCalls \in Nat
ASSUME SetAssumption == Slow \subseteq Packets /\ None \notin Packets \union Nat

VARIABLES
    inflight,       \* keys of _outgoing_inflight
    suppressed,     \* _outgoing_duplicate_suppressed
    forced,         \* history: packets ever let through while in flight
    caller,         \* caller[c]: the packet c has registered and not yet queued
    queue,          \* _outqueue: copies [seq, packet]
    seq,            \* _outqueue_seq
    worker,         \* "waiting", "sending" or "stopped"
    current,        \* the copy the worker sends
    working,        \* working[s]: live send tasks of the copy numbered s
    packetOf,       \* packetOf[s]: the bytes of the copy numbered s
    sentinel,       \* whether the shutdown sentinel is in the queue
    detached,
    calls           \* calls so far

vars == <<inflight, suppressed, forced, caller, queue, seq, worker, current, working,
          packetOf, sentinel, detached, calls>>

\* The places a copy of p can be.
WithCaller(p) == {c \in Callers : caller[c] = p}
Queued(p) == {s \in queue : packetOf[s] = p}
Sending(p) == {s \in {current} \ {None} : packetOf[s] = p}
Working(p) == {s \in DOMAIN working : packetOf[s] = p}
Handled(p) == Queued(p) \union Sending(p) \union Working(p)
Copies(p) == Cardinality(WithCaller(p)) + Cardinality(Handled(p))

-----------------------------------------------------------------------------
(* RNS's threads. *)

\* Mutant: nothing is remembered of a packet that goes through.
AdmitUnregistered(c, p) ==
    /\ suppressed' = [suppressed EXCEPT ![p] = 0]
    /\ caller' = [caller EXCEPT ![c] = p]
    /\ UNCHANGED inflight

\* The bytes are registered, replacing a stuck entry if there is one.
Admit(c, p) ==
    /\ suppressed' = [suppressed EXCEPT ![p] = 0]
    /\ inflight' = inflight \union {p}
    /\ caller' = [caller EXCEPT ![c] = p]

\* The call drops bytes in flight, until RNS has asked for them Limit times.
Suppress(p) == p \in inflight /\ suppressed[p] + 1 < Limit

\* The first half of process_outgoing, under _outgoing_inflight_lock.
Offer(c, p) ==
    /\ ~detached /\ caller[c] = None /\ calls < MaxCalls
    /\ calls' = calls + 1
    /\ IF Suppress(p)
       THEN /\ suppressed' = [suppressed EXCEPT ![p] = @ + 1]
            /\ UNCHANGED <<inflight, caller, forced>>
       ELSE /\ Admit(c, p)
            /\ forced' = IF p \in inflight THEN forced \union {p} ELSE forced
    /\ UNCHANGED <<queue, seq, worker, current, working, packetOf, sentinel, detached>>

\* _release_inflight
Release(p) ==
    /\ inflight' = inflight \ {p}
    /\ suppressed' = [suppressed EXCEPT ![p] = 0]

Keep == UNCHANGED <<inflight, suppressed>>

QueueSize == Cardinality(queue) + (IF sentinel THEN 1 ELSE 0)

\* Mutant: a full queue drops the packet and keeps its bytes registered.
PutUnreleased(c) ==
    /\ caller[c] # None
    /\ packetOf' = [s \in 0..seq |-> IF s = seq THEN caller[c] ELSE packetOf[s]]
    /\ seq' = seq + 1
    /\ queue' = IF QueueSize < Capacity THEN queue \union {seq} ELSE queue
    /\ Keep
    /\ caller' = [caller EXCEPT ![c] = None]
    /\ UNCHANGED <<forced, worker, current, working, sentinel, detached, calls>>

\* The second half: the copy gets its number and is queued, or the queue is full.
\* (The number is taken just before put_nowait; one step here.)
Put(c) ==
    /\ caller[c] # None
    /\ packetOf' = [s \in 0..seq |-> IF s = seq THEN caller[c] ELSE packetOf[s]]
    /\ seq' = seq + 1
    /\ IF QueueSize < Capacity THEN queue' = queue \union {seq} /\ Keep
       ELSE UNCHANGED queue /\ Release(caller[c])
    /\ caller' = [caller EXCEPT ![c] = None]
    /\ UNCHANGED <<forced, worker, current, working, sentinel, detached, calls>>

-----------------------------------------------------------------------------
(* The worker and the send tasks, on the loop. *)

\* The order of the PriorityQueue.
IsNext(s) ==
    /\ s \in queue
    /\ \A r \in queue \ {s} :
        \/ Tier[packetOf[s]] < Tier[packetOf[r]]
        \/ Tier[packetOf[s]] = Tier[packetOf[r]] /\ s < r

\* The sentinel sorts before every packet, so it is taken first.
Take ==
    /\ worker = "waiting" /\ ~sentinel
    /\ \E s \in queue :
        /\ IsNext(s)
        /\ queue' = queue \ {s}
        /\ current' = s
    /\ worker' = "sending"
    /\ UNCHANGED <<forced, inflight, suppressed, caller, seq, working, packetOf, sentinel, detached, calls>>

\* Mutant: the bytes are free as soon as the worker has dispatched them.
DoneAtOnce(n) ==
    /\ current' = None
    /\ Release(packetOf[current])
    /\ working' = [s \in DOMAIN working \union {current} |-> IF s = current THEN n ELSE working[s]]

\* The worker's finally clause, _release_inflight_when_done: n of the copy's send
\* tasks are live, and with none its bytes are free again.
Done(n) ==
    /\ current' = None
    /\ IF n = 0 THEN Release(packetOf[current]) /\ UNCHANGED working
       ELSE /\ working' = [s \in DOMAIN working \union {current} |->
                            IF s = current THEN n ELSE working[s]]
            /\ Keep

\* The packet was dropped (its Link closed, too old), failed, or was dispatched.
Finish(n) ==
    /\ worker = "sending" /\ worker' = "waiting"
    /\ Done(n)
    /\ UNCHANGED <<forced, caller, queue, seq, packetOf, sentinel, detached, calls>>

\* A send task ends, well or badly.
TaskEnds(s) ==
    /\ s \in DOMAIN working /\ working[s] > 0
    /\ working' = [working EXCEPT ![s] = @ - 1]
    /\ UNCHANGED <<forced, inflight, suppressed, caller, queue, seq, worker, current, packetOf,
                   sentinel, detached, calls>>

\* Mutant: nothing is released when the send tasks end.
WaitThenForget(s) ==
    /\ s \in DOMAIN working /\ working[s] = 0
    /\ working' = [r \in DOMAIN working \ {s} |-> working[r]]
    /\ UNCHANGED <<forced, inflight, suppressed, caller, queue, seq, worker, current, packetOf,
                   sentinel, detached, calls>>

\* _wait_then_release: all of them have ended.
WaitThenRelease(s) ==
    /\ s \in DOMAIN working /\ working[s] = 0
    /\ working' = [r \in DOMAIN working \ {s} |-> working[r]]
    /\ Release(packetOf[s])
    /\ UNCHANGED <<forced, caller, queue, seq, worker, current, packetOf, sentinel, detached, calls>>

\* _outgoing_inflight_sweep: an entry older than ten minutes is dropped; the
\* count of its suppressions stays.
Sweep(p) ==
    /\ p \in Slow /\ p \in inflight
    /\ inflight' = inflight \ {p}
    /\ UNCHANGED <<forced, suppressed, caller, queue, seq, worker, current, working, packetOf,
                   sentinel, detached, calls>>

\* detach: no more packets are taken in; the sentinel goes in if there is room.
Detach ==
    /\ ~detached /\ detached' = TRUE
    /\ sentinel' = (QueueSize < Capacity)
    /\ UNCHANGED <<forced, inflight, suppressed, caller, queue, seq, worker, current, working, packetOf, calls>>

\* _async_teardown cancels the background tasks, the releasing ones included.
CancelTasks ==
    /\ detached /\ DOMAIN working # {}
    /\ working' = [s \in {} |-> 0]
    /\ UNCHANGED <<forced, inflight, suppressed, caller, queue, seq, worker, current, packetOf,
                   sentinel, detached, calls>>

\* The idle worker takes the sentinel, finds the queue empty after detach, or is
\* cancelled when it has done neither within five seconds.
Stop ==
    /\ detached /\ worker = "waiting" /\ worker' = "stopped"
    /\ sentinel' \in {FALSE, sentinel}
    /\ UNCHANGED <<forced, inflight, suppressed, caller, queue, seq, current, working, packetOf,
                   detached, calls>>

\* The worker is cancelled while it sends.
StopSending(n) ==
    /\ detached /\ worker = "sending" /\ worker' = "stopped"
    /\ Done(n)
    /\ UNCHANGED <<forced, caller, queue, seq, packetOf, sentinel, detached, calls>>

-----------------------------------------------------------------------------
Init ==
    /\ inflight = {} /\ forced = {} /\ suppressed = [p \in Packets |-> 0]
    /\ caller = [c \in Callers |-> None]
    /\ queue = {} /\ seq = 0 /\ packetOf = [s \in {} |-> None]
    /\ worker = "waiting" /\ current = None /\ working = [s \in {} |-> 0]
    /\ sentinel = FALSE /\ detached = FALSE
    /\ calls = 0

Next ==
    \/ \E c \in Callers : Put(c) \/ \E p \in Packets : Offer(c, p)
    \/ Take
    \/ \E n \in 0..MaxTasks : Finish(n) \/ StopSending(n)
    \/ \E s \in DOMAIN working : TaskEnds(s) \/ WaitThenRelease(s)
    \/ \E p \in Packets : Sweep(p)
    \/ Detach \/ CancelTasks \/ Stop

Spec == Init /\ [][Next]_vars

\* Threads and the loop run; every send task's awaits have timeouts.
Fairness ==
    /\ \A c \in Callers : WF_vars(Put(c))
    /\ WF_vars(Take) /\ WF_vars(\E n \in 0..MaxTasks : Finish(n))
    /\ \A s \in 0..MaxCalls : WF_vars(TaskEnds(s)) /\ WF_vars(WaitThenRelease(s))

FairSpec == Spec /\ Fairness

-----------------------------------------------------------------------------
(* Properties. *)

\* Every variable stays in its range; a copy is in one place.
TypeOK ==
    /\ inflight \subseteq Packets /\ suppressed \in [Packets -> Nat]
    /\ forced \subseteq Packets /\ caller \in [Callers -> Packets \union {None}]
    /\ seq \in Nat /\ calls \in 0..MaxCalls
    /\ packetOf \in [0..seq - 1 -> Packets]
    /\ queue \subseteq 0..seq - 1 /\ DOMAIN working \subseteq 0..seq - 1
    /\ \A s \in DOMAIN working : working[s] \in 0..MaxTasks
    /\ worker \in {"waiting", "sending", "stopped"}
    /\ current \in 0..seq - 1 \union {None} /\ (worker = "sending" <=> current # None)
    /\ sentinel \in BOOLEAN /\ detached \in BOOLEAN
    /\ queue \intersect DOMAIN working = {}
    /\ current \notin queue \union DOMAIN working

\* Bytes are refused only on account of a copy that is really on its way: no
\* entry of _outgoing_inflight outlives the last copy of its packet ("an entry
\* should always be released by _release_inflight_when_done").
NoStuckEntry ==
    ~detached => \A p \in inflight : WithCaller(p) # {} \/ Handled(p) # {}

\* Unless a packet was let through on RNS's insistence, or is sent for longer than
\* the sweep allows, at most one copy of it is queued or being sent, whatever the
\* threads do.
OneCopy == \A p \in Packets \ (forced \union Slow) : Copies(p) <= 1

\* A packet that was taken in is not refused for ever: its bytes become free
\* again, or the interface is detached.
BytesFreed == \A p \in Packets : p \in inflight ~> (p \notin inflight \/ detached)
=============================================================================
