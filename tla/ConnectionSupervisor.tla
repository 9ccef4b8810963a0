------------------------- MODULE ConnectionSupervisor -------------------------
(***************************************************************************)
(* The connection to the radio: the supervisor task of interface.py, which *)
(* opens, sets up, watches, closes and reopens it; the library's           *)
(* DISCONNECTED callback; and detach, on a thread of RNS, with the         *)
(* teardown it schedules on the loop.  An action is the code a task runs   *)
(* from one await to the next.                                             *)
(*                                                                         *)
(* The library and the radio are external: a connection opens or not,      *)
(* answers the handshake or not, drops at any moment, and its DISCONNECTED *)
(* reaches the callback some time later.  Lengths of waits are left out.   *)
(***************************************************************************)
EXTENDS Naturals, FiniteSets

CONSTANTS
    Links,          \* MeshCore objects; one is used again once it is closed
    Limits,         \* values of max_reconnect_attempts; 0 is "for ever"
    MaxLeft,        \* bound: connections whose close may fail
    None

ASSUME NoneAssumption == None \notin Links
ASSUME LimitAssumption == Limits \subseteq Nat
ASSUME SpareAssumption == IsFiniteSet(Links) /\ MaxLeft \in Nat /\ Cardinality(Links) > MaxLeft + 1

VARIABLES
    opt,        \* options: transport = serial, auto_reconnect, max_reconnect_attempts
    sup,        \* where the supervisor is, see Places
    link,       \* the supervisor's local mc
    mc,         \* _mc
    port,       \* port[c]: the state of connection c
    words,      \* connections whose DISCONNECTED has not reached its callback
    event,      \* _disconnect_event: none, clear or set
    stray,      \* history: event was set for a connection given up before
    online, detached,
    gate,       \* _startup_gate is done: the constructor returns
    attempt,
    tasks,      \* the process-lifetime loops that run
    starts,     \* history: how often the outgoing worker was started
    tear,       \* where detach and _async_teardown are, see Teardown
    cut         \* history: connections whose opening or closing was cut off

options == <<opt, detached>>
told == <<event, stray>>
vars == <<opt, sup, link, mc, port, words, event, stray, online, detached,
          gate, attempt, tasks, starts, tear, cut>>

\* start: the task has not run yet.  opening: in _open_connection.
\* handshake, settings, contacts, polling, repolling: in _setup_connection --
\* settling or asking, in the device settings, in the contact refresh and the
\* start of message fetching, in the radio statistics of the first and of a
\* later connection.  waiting: for _disconnect_event.  losing, failing: in
\* _close_connection, after a loss or a failed set-up.  pausing: between
\* attempts.  ended: the task is done.
SettingUp == {"handshake", "settings", "contacts", "polling", "repolling"}
Closing == {"losing", "failing"}
Places == {"start", "opening", "waiting", "pausing", "ended"} \union SettingUp \union Closing

\* none: not detached.  flagged: detached is set.  asked: the teardown is
\* scheduled.  polling: the supervisor is gone, the last statistics are read.
\* draining: the loops are cancelled, the worker is awaited.  hanging up: _mc
\* is disconnected.  done: detach returns.
Teardown == {"none", "flagged", "asked", "polling", "draining", "hangingup", "done"}

Loops == {"stats", "radio", "worker", "housekeeping"}

\* Not in use, and nothing of it is still to be heard.
Spare == {c \in Links : port[c] = "closed" /\ c \notin words /\ c # link}

-----------------------------------------------------------------------------
(* The supervisor. *)

\* The head of the loop: a new attempt, with n made before it.
Head(n) ==
    /\ IF detached
         THEN /\ sup' = "ended" /\ gate' = TRUE /\ link' = None
              /\ UNCHANGED <<port, attempt>>
         ELSE /\ \E c \in Spare :
                    /\ link' = c
                    /\ port' = [port EXCEPT ![c] = "opening"]
              /\ sup' = "opening"
              /\ attempt' = IF opt.limit = 0 THEN 0 ELSE n + 1
              /\ UNCHANGED gate
    /\ UNCHANGED <<options, mc, words, told, online, tasks, starts, tear, cut>>

\* The foot of the loop, after n attempts in a row.
GivesUp(n) == detached \/ (opt.limit # 0 /\ n >= opt.limit)

Foot(n) ==
    /\ sup' = IF GivesUp(n) THEN "ended" ELSE "pausing"
    /\ attempt' = n
    /\ link' = None

Start == sup = "start" /\ Head(0)

\* connection_failed, or connect() returned None: the dispatcher is stopped.
OpenFails ==
    /\ sup = "opening"
    /\ port' = [port EXCEPT ![link] = "closed"]
    /\ Foot(attempt)
    /\ gate' = TRUE
    /\ UNCHANGED <<options, mc, words, told, online, tasks, starts, tear, cut>>

\* Mutant: _disconnect_event made once, and not for each connection.
FreshEventOnce == IF event = "none" THEN "clear" ELSE event

\* Each connection gets a _disconnect_event of its own.
FreshEvent == "clear"

\* The port is open; the set-up runs until it settles or asks for SELF_INFO.
Opened ==
    /\ sup = "opening"
    /\ port' = [port EXCEPT ![link] = "up"]
    /\ mc' = link
    /\ event' = FreshEvent
    /\ stray' = (stray /\ event' = "set")
    /\ gate' = (gate \/ opt.serial)
    /\ sup' = "handshake"
    /\ UNCHANGED <<options, link, words, online, attempt, tasks, starts, tear, cut>>

\* _close_connection up to its first await.
BeginClose(why) ==
    /\ sup' = why
    /\ online' = FALSE
    /\ mc' = None

\* Mutant: a set-up that failed is tried again without closing its port.
SetupFailsOpen ==
    /\ sup \in {"handshake", "contacts"}
    /\ Foot(attempt)
    /\ online' = FALSE /\ mc' = None
    /\ gate' = TRUE
    /\ UNCHANGED <<options, port, words, told, tasks, starts, tear, cut>>

\* No SELF_INFO in handshake_attempts tries, or detached between two of them,
\* or an answer that cannot be applied; or, online already, a cache that cannot be
\* loaded or a subscription that the library refuses.
SetupFails ==
    /\ sup \in {"handshake", "contacts"}
    /\ BeginClose("failing")
    /\ gate' = TRUE
    /\ UNCHANGED <<options, link, port, words, told, attempt, tasks, starts, tear, cut>>

HandshakeAnswered ==
    /\ sup = "handshake" /\ port[link] = "up"
    /\ sup' = "settings"
    /\ UNCHANGED <<options, link, mc, port, words, told, online, gate, attempt, tasks,
                   starts, tear, cut>>

\* The radio has its settings, or each command failed: online in either case,
\* whatever a DISCONNECTED said meanwhile.
SettingsDone ==
    /\ sup = "settings"
    /\ online' = TRUE
    /\ sup' = "contacts"
    /\ UNCHANGED <<options, link, mc, port, words, told, gate, attempt, tasks, starts,
                   tear, cut>>

\* _outgoing_worker_task is None.
FirstConnection == starts = 0

\* Contacts refreshed and message fetching started, as far as they could be.
ContactsDone ==
    /\ sup = "contacts"
    /\ IF FirstConnection
         THEN tasks' = tasks \union {"stats"} /\ sup' = "polling"
         ELSE sup' = "repolling" /\ UNCHANGED tasks
    /\ UNCHANGED <<options, link, mc, port, words, told, online, gate, attempt, starts,
                   tear, cut>>

\* _disconnect_event.wait() returns at once.
AlreadyLost == event = "set"

\* The set-up is over; the supervisor watches, or finds the connection lost.
SetupDone ==
    /\ sup \in {"polling", "repolling"}
    /\ IF sup = "polling"
         THEN tasks' = tasks \union Loops /\ starts' = starts + 1
         ELSE UNCHANGED <<tasks, starts>>
    /\ gate' = TRUE
    /\ IF AlreadyLost
         THEN BeginClose("losing")
         ELSE sup' = "waiting" /\ UNCHANGED <<mc, online>>
    /\ UNCHANGED <<options, link, port, words, told, attempt, tear, cut>>

Lost ==
    /\ sup = "waiting" /\ event = "set"
    /\ BeginClose("losing")
    /\ UNCHANGED <<options, link, port, words, told, gate, attempt, tasks, starts, tear, cut>>

\* The two commands of _close_connection are over.  Closed, the library may
\* say DISCONNECTED once more; if one of them failed or took longer than five
\* seconds, the port may still be open and the callback subscribed.
Closes(c) ==
    \/ /\ port' = [port EXCEPT ![c] = "closed"]
       /\ words' \in {words, words \union {c}}
       /\ UNCHANGED cut
    \/ /\ port[c] = "up" /\ Cardinality(cut) < MaxLeft
       /\ cut' = cut \union {c}
       /\ UNCHANGED <<port, words>>

CloseDone ==
    /\ sup \in Closing
    /\ Closes(link)
    /\ IF sup = "losing" /\ ~opt.auto
         THEN sup' = "ended" /\ link' = None /\ UNCHANGED attempt
         ELSE Foot(IF sup = "losing" THEN 0 ELSE attempt)
    /\ gate' = TRUE
    /\ UNCHANGED <<options, mc, told, online, tasks, starts, tear>>

\* connect_retry_min or more later: the words of a closed connection have come.
Retry ==
    /\ sup = "pausing"
    /\ \A c \in words : port[c] # "closed"
    /\ Head(attempt)

-----------------------------------------------------------------------------
(* The library: connections drop, and _on_mc_disconnected hears of it. *)

Drop(c) ==
    /\ port[c] = "up"
    /\ port' = [port EXCEPT ![c] = "down"]
    /\ words' = words \union {c}
    /\ UNCHANGED <<options, sup, link, mc, told, online, gate, attempt, tasks, starts,
                   tear, cut>>

\* Mutant: a DISCONNECTED is of no account while the interface is offline.
WakesOnline == online

\* Mutant: the callback only takes the interface offline.
WakesNobody == FALSE

\* The callback sets the event there is, whichever connection the word is of.
Wakes == event # "none"

OnDisconnected(c) ==
    /\ c \in words
    /\ words' = words \ {c}
    /\ IF detached
         THEN UNCHANGED <<online, told>>
         ELSE /\ online' = FALSE
              /\ event' = IF Wakes THEN "set" ELSE event
              /\ stray' = IF event' = event THEN stray ELSE c # link /\ c \in cut
    /\ IF port[c] = "down" /\ c \in cut
         THEN port' = [port EXCEPT ![c] = "closed"] /\ cut' = cut \ {c}
         ELSE UNCHANGED <<port, cut>>
    /\ UNCHANGED <<options, sup, link, mc, gate, attempt, tasks, starts, tear>>

-----------------------------------------------------------------------------
(* detach and _async_teardown. *)

\* RNS detaches an interface it has constructed.
Detach ==
    /\ tear = "none" /\ sup # "start"
    /\ tear' = "flagged"
    /\ detached' = TRUE
    /\ UNCHANGED <<opt, sup, link, mc, port, words, told, online, gate, attempt, tasks,
                   starts, cut>>

DetachOffline ==
    /\ tear = "flagged"
    /\ tear' = "asked"
    /\ online' = FALSE
    /\ UNCHANGED <<options, sup, link, mc, port, words, told, gate, attempt, tasks,
                   starts, cut>>

\* Mutant: the teardown cancels the supervisor and does not wait for it.
CancelNoWait == UNCHANGED <<sup, link, port, cut, gate>>

\* The supervisor is cancelled at its await and awaited: a connection that was
\* being opened may be open, one that was being closed stays as it is.
CancelSupervisor ==
    /\ sup' = "ended" /\ gate' = TRUE /\ link' = None
    /\ IF sup = "opening"
         THEN \/ port' = [port EXCEPT ![link] = "closed"] /\ UNCHANGED cut
              \/ port' = [port EXCEPT ![link] = "up"] /\ cut' = cut \union {link}
         ELSE /\ cut' = IF sup \in Closing THEN cut \union {link} ELSE cut
              /\ UNCHANGED port

TeardownBegins ==
    /\ tear = "asked"
    /\ CancelSupervisor
    /\ tasks' = tasks \ {"radio"}
    /\ tear' = "polling"
    /\ UNCHANGED <<options, mc, words, told, online, attempt, starts>>

\* The last statistics are read, or five seconds have passed.
TeardownPolled ==
    /\ tear = "polling"
    /\ tasks' = tasks \intersect {"worker"}
    /\ tear' = "draining"
    /\ UNCHANGED <<options, sup, link, mc, port, words, told, online, gate, attempt, starts,
                   cut>>

\* The worker finds the sentinel, or sees that the interface is detached.
WorkerEnds ==
    /\ detached /\ "worker" \in tasks
    /\ tasks' = tasks \ {"worker"}
    /\ UNCHANGED <<options, sup, link, mc, port, words, told, online, gate, attempt, starts,
                   tear, cut>>

\* Mutant: the worker is awaited for as long as it takes.
TeardownDrainedPatient ==
    /\ tear = "draining" /\ "worker" \notin tasks
    /\ tear' = IF mc = None THEN "done" ELSE "hangingup"
    /\ UNCHANGED <<options, sup, link, mc, port, words, told, online, gate, attempt, tasks,
                   starts, cut>>

\* The worker has ended, or is cancelled after five seconds.
TeardownDrained ==
    /\ tear = "draining"
    /\ tasks' = tasks \ {"worker"}
    /\ tear' = IF mc = None THEN "done" ELSE "hangingup"
    /\ UNCHANGED <<options, sup, link, mc, port, words, told, online, gate, attempt, starts,
                   cut>>

\* _mc is disconnected; or that fails, or detach waits no longer for it.
HungUp ==
    /\ tear = "hangingup"
    /\ Closes(mc)
    /\ tear' = "done"
    /\ UNCHANGED <<options, sup, link, mc, told, online, gate, attempt, tasks, starts>>

-----------------------------------------------------------------------------

Init ==
    /\ opt \in [serial : BOOLEAN, auto : BOOLEAN, limit : Limits]
    /\ sup = "start" /\ link = None /\ mc = None
    /\ port = [c \in Links |-> "closed"]
    /\ words = {} /\ event = "none" /\ stray = FALSE
    /\ online = FALSE /\ detached = FALSE /\ gate = FALSE
    /\ attempt = 0 /\ tasks = {} /\ starts = 0
    /\ tear = "none" /\ cut = {}

Supervise ==
    \/ Start \/ OpenFails \/ Opened \/ SetupFails \/ HandshakeAnswered
    \/ SettingsDone \/ ContactsDone \/ SetupDone \/ Lost \/ CloseDone \/ Retry

TearDown == DetachOffline \/ TeardownBegins \/ TeardownPolled \/ TeardownDrained \/ HungUp

\* Detached, and nothing left to do or to hear: the process goes on without it.
Gone ==
    /\ tear = "done" /\ words = {} /\ "worker" \notin tasks
    /\ UNCHANGED vars

Next ==
    \/ Supervise
    \/ \E c \in Links : Drop(c) \/ OnDisconnected(c)
    \/ Detach \/ TearDown \/ WorkerEnds \/ Gone

Spec == Init /\ [][Next]_vars

\* The loop runs its ready tasks, each await has a time-out or is for the
\* event; of the radio, that it can be opened and answers if asked again and
\* again.
FairSpec ==
    /\ Spec
    /\ WF_vars(Supervise) /\ WF_vars(TearDown)
    /\ SF_vars(Opened) /\ SF_vars(HandshakeAnswered)
    /\ \A c \in Links : WF_vars(OnDisconnected(c))

-----------------------------------------------------------------------------
(* Properties. *)

TypeOK ==
    /\ opt \in [serial : BOOLEAN, auto : BOOLEAN, limit : Limits]
    /\ sup \in Places
    /\ link \in Links \union {None} /\ mc \in Links \union {None}
    /\ port \in [Links -> {"closed", "opening", "up", "down"}]
    /\ words \subseteq Links
    /\ event \in {"none", "clear", "set"} /\ stray \in BOOLEAN
    /\ online \in BOOLEAN /\ detached \in BOOLEAN /\ gate \in BOOLEAN
    /\ attempt \in 0..opt.limit
    /\ tasks \subseteq Loops
    /\ starts \in Nat
    /\ tear \in Teardown
    /\ cut \subseteq Links

\* A connection that drops, at whatever moment of its set-up or after it, is
\* noticed: its DISCONNECTED is still to come, or the event that wakes the
\* supervisor is set (interface.py 1575 against 1720).
LossNoticed ==
    sup \in SettingUp \union {"waiting"} /\ port[link] = "down" /\ ~detached
        => link \in words \/ event = "set"

\* The supervisor gives a connection up only when it dropped, unless an earlier
\* one could not be closed and is heard of now: the callback does not ask
\* which connection a DISCONNECTED is of (1717-1724).
LossIsReal ==
    [][sup' = "losing" /\ sup # "losing" => port[link] # "up" \/ stray]_vars

\* One of each, however often the connection is lost and however a set-up
\* fails: whoever opens a connection has closed the one before, except for
\* those whose opening or closing was cut off; and the worker and the loops
\* of the process are started for the first connection only (1590-1602).
OneOfEach ==
    /\ \A c \in Links : port[c] \in {"opening", "up"} =>
           c = link \/ c \in cut \/ (sup = "ended" /\ c = mc)
    /\ starts <= 1

\* When detach is done nothing is left of the interface: no loop runs, nobody
\* waits for the gate, no connection is open but one whose opening or closing
\* was cut off (1949-2000).
DetachClean ==
    tear = "done" =>
        /\ tasks = {} /\ sup = "ended" /\ gate
        /\ \A c \in Links : port[c] \in {"opening", "up"} => c \in cut

\* Unless told to stop, the interface comes back on line after every loss.
BackOnline ==
    opt.auto /\ opt.limit = 0 ~> online \/ detached

\* detach ends, though the worker may hang and the radio not answer.
DetachEnds == detached ~> tear = "done"
=============================================================================
