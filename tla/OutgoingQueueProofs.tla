------------------------- MODULE OutgoingQueueProofs -------------------------
(***************************************************************************)
(* Proofs about the way of a packet to the air: OutgoingQueue, and the     *)
(* gate before each transmission, DutyCycle.                               *)
(*                                                                         *)
(* OutgoingQueue, for any packets, callers, capacity, limit and number of  *)
(* send tasks: the type invariant; that no entry of _outgoing_inflight     *)
(* outlives the last copy of its packet, which is inductive with the       *)
(* types; and that a packet has one copy, which is not: what carries it    *)
(* from step to step is OnlyCopy, that the copy there is has its bytes     *)
(* registered.                                                             *)
(*                                                                         *)
(* DutyCycle, for any senders, frames, window and budgets: the types, and  *)
(* AirBudget.  It is not inductive, for it says nothing of the ledgers:    *)
(* what carries it is Covered, that each frame charged whose keying may    *)
(* still count has a sample of its own in its ledgers, and no older than   *)
(* the time the frame has been held, or MaxHold more than since it was     *)
(* keyed.  So it is never pruned while it matters, and the ledger's sum,   *)
(* which the limiter looks at, bounds the airtime of those frames.  The    *)
(* sums are folds over sets; the lemmas of the first part say of them,     *)
(* by induction on the numbers, what a sum does.                           *)
(***************************************************************************)
EXTENDS OutgoingQueue, DutyCycle, FiniteSetTheorems, SequenceTheorems, WellFoundedInduction, TLAPS

\* The type invariant holds initially.
LEMMA InitType == Init => TypeOK
  <1> SUFFICES ASSUME Init PROVE TypeOK
    OBVIOUS
  <1>1. packetOf \in [0..seq - 1 -> Packets] /\ queue = {} /\ DOMAIN working = {}
    <2>1. 0..seq - 1 = {}
      BY DEF Init
    <2>2. QED BY <2>1 DEF Init
  <1>2. seq \in Nat /\ calls \in 0..MaxCalls
    BY BoundAssumption DEF Init
  <1>3. QED BY <1>1, <1>2 DEF Init, TypeOK

\* Initially nothing is registered.
LEMMA InitNoStuck == Init => NoStuckEntry
  BY DEF Init, NoStuckEntry

\* A release, and its absence, keep the types of the two tables.
LEMMA ReleaseType ==
  ASSUME TypeOK, NEW p, Release(p) \/ Keep
  PROVE  inflight' \subseteq Packets /\ suppressed' \in [Packets -> Nat]
  <1>1. CASE Keep
    BY <1>1 DEF Keep, TypeOK
  <1>2. CASE Release(p)
    BY <1>2 DEF Release, TypeOK
  <1>3. QED BY <1>1, <1>2

\* A registration keeps the types.
LEMMA OfferType ==
  ASSUME TypeOK, NEW c \in Callers, NEW p \in Packets, Offer(c, p) PROVE TypeOK'
  <1>1. CASE Suppress(p)
    BY <1>1, BoundAssumption DEF Offer, TypeOK
  <1>2. CASE ~Suppress(p)
    <2>1. Admit(c, p) /\ calls' \in 0..MaxCalls
      BY <1>2, BoundAssumption DEF Offer, TypeOK
    <2>2. /\ inflight' \subseteq Packets /\ suppressed' \in [Packets -> Nat]
          /\ caller' \in [Callers -> Packets \union {None}]
      BY <2>1 DEF Admit, TypeOK
    <2>4. forced' \subseteq Packets
      BY <1>2 DEF Offer, TypeOK
    <2>3. UNCHANGED <<queue, seq, worker, current, working, packetOf, sentinel, detached>>
      BY DEF Offer
    <2>5. QED BY <2>1, <2>2, <2>3, <2>4 DEF TypeOK
  <1>3. QED BY <1>1, <1>2

\* Queuing a copy keeps the types: its number is new.
LEMMA PutType ==
  ASSUME TypeOK, NEW c \in Callers, Put(c) PROVE TypeOK'
  <1>1. caller[c] \in Packets /\ caller' \in [Callers -> Packets \union {None}]
    BY DEF Put, TypeOK
  <1>2. seq' = seq + 1 /\ seq' \in Nat /\ 0..seq' - 1 = 0..seq
    BY DEF Put, TypeOK
  <1>3. packetOf' \in [0..seq' - 1 -> Packets]
    <2>1. \A s \in 0..seq : s = seq \/ s \in 0..seq - 1
      BY DEF TypeOK
    <2>2. QED BY <1>1, <1>2, <2>1 DEF Put, TypeOK
  <1>4. inflight' \subseteq Packets /\ suppressed' \in [Packets -> Nat]
    BY ReleaseType DEF Put
  <1>5. queue' \subseteq queue \union {seq} /\ seq \in 0..seq /\ 0..seq - 1 \subseteq 0..seq
    BY DEF Put, TypeOK
  <1>6. seq \notin DOMAIN working /\ current # seq
    BY SetAssumption DEF TypeOK
  <1>7. UNCHANGED <<forced, worker, current, working, sentinel, detached, calls>>
    BY DEF Put
  <1>8. queue' \subseteq 0..seq' - 1 /\ DOMAIN working' \subseteq 0..seq' - 1
    BY <1>2, <1>5, <1>7 DEF TypeOK
  <1>9. current' \in 0..seq' - 1 \union {None}
    BY <1>2, <1>5, <1>7 DEF TypeOK
  <1>10. queue' \intersect DOMAIN working' = {} /\ current' \notin queue' \union DOMAIN working'
    BY <1>5, <1>6, <1>7 DEF TypeOK
  <1>11. QED BY <1>1, <1>2, <1>3, <1>4, <1>7, <1>8, <1>9, <1>10 DEF TypeOK

\* Taking a copy from the queue keeps the types.
LEMMA TakeType ==
  ASSUME TypeOK, Take PROVE TypeOK'
  <1>1. PICK s \in queue : queue' = queue \ {s} /\ current' = s
    BY DEF Take
  <1>2. s # None
    BY SetAssumption DEF TypeOK
  <1>3. QED BY <1>1, <1>2 DEF Take, TypeOK

\* The worker's finally clause keeps the types.
LEMMA DoneType ==
  ASSUME TypeOK, NEW n \in 0..MaxTasks, worker = "sending", Done(n),
         worker' \in {"waiting", "stopped"},
         UNCHANGED <<forced, caller, queue, seq, packetOf, sentinel, detached, calls>>
  PROVE  TypeOK'
  <1>1. current \in 0..seq - 1 /\ current \notin queue \union DOMAIN working
    BY DEF TypeOK
  <1>2. inflight' \subseteq Packets /\ suppressed' \in [Packets -> Nat]
    BY ReleaseType DEF Done
  <1>3. /\ DOMAIN working' \subseteq DOMAIN working \union {current}
        /\ \A s \in DOMAIN working' : working'[s] \in 0..MaxTasks
    BY DEF Done, TypeOK
  <1>4. current' = None /\ None \notin 0..seq - 1
    BY SetAssumption DEF Done, TypeOK
  <1>5. QED BY <1>1, <1>2, <1>3, <1>4 DEF TypeOK

\* The end of a send task, and of the last of a copy's, keep the types.
LEMMA TaskType ==
  ASSUME TypeOK, NEW s \in DOMAIN working, TaskEnds(s) \/ WaitThenRelease(s)
  PROVE  TypeOK'
  <1>1. CASE TaskEnds(s)
    <2>1. /\ DOMAIN working' = DOMAIN working
          /\ \A r \in DOMAIN working' : working'[r] \in 0..MaxTasks
      BY <1>1, BoundAssumption DEF TaskEnds, TypeOK
    <2>2. QED BY <1>1, <2>1 DEF TaskEnds, TypeOK
  <1>2. CASE WaitThenRelease(s)
    <2>1. DOMAIN working' = DOMAIN working \ {s}
      BY <1>2 DEF WaitThenRelease
    <2>2. \A r \in DOMAIN working' : working'[r] \in 0..MaxTasks
      BY <1>2 DEF WaitThenRelease, TypeOK
    <2>3. inflight' \subseteq Packets /\ suppressed' \in [Packets -> Nat]
      BY <1>2, ReleaseType DEF WaitThenRelease
    <2>4. QED BY <1>2, <2>1, <2>2, <2>3 DEF WaitThenRelease, TypeOK
  <1>3. QED BY <1>1, <1>2

\* Every step keeps the types.
LEMMA NextType == TypeOK /\ [Next]_vars => TypeOK'
  <1> SUFFICES ASSUME TypeOK, [Next]_vars PROVE TypeOK'
    OBVIOUS
  <1>1. CASE \E c \in Callers : Put(c)
    BY <1>1, PutType
  <1>2. CASE \E c \in Callers, p \in Packets : Offer(c, p)
    BY <1>2, OfferType
  <1>3. CASE Take
    BY <1>3, TakeType
  <1>4. CASE \E n \in 0..MaxTasks : Finish(n) \/ StopSending(n)
    BY <1>4, DoneType DEF Finish, StopSending
  <1>5. CASE \E s \in DOMAIN working : TaskEnds(s) \/ WaitThenRelease(s)
    BY <1>5, TaskType
  <1>6. CASE \E p \in Packets : Sweep(p)
    BY <1>6 DEF Sweep, TypeOK
  <1>7. CASE Detach
    BY <1>7 DEF Detach, TypeOK
  <1>8. CASE CancelTasks
    BY <1>8 DEF CancelTasks, TypeOK
  <1>9. CASE Stop
    BY <1>9 DEF Stop, TypeOK
  <1>10. CASE UNCHANGED vars
    BY <1>10 DEF vars, TypeOK
  <1>11. QED
    BY <1>1, <1>2, <1>3, <1>4, <1>5, <1>6, <1>7, <1>8, <1>9, <1>10 DEF Next

-----------------------------------------------------------------------------
\* A copy of p is somewhere.
Carried(p) == WithCaller(p) # {} \/ Handled(p) # {}

\* Carried in terms of the places a copy can be.
LEMMA CarriedPlaces ==
  ASSUME NEW p
  PROVE  Carried(p) <=> \/ \E c \in Callers : caller[c] = p
                        \/ \E s \in queue \union ({current} \ {None}) \union DOMAIN working :
                              packetOf[s] = p
  BY DEF Carried, WithCaller, Handled, Queued, Sending, Working

\* The same of the next state.
LEMMA CarriedPlacesNext ==
  ASSUME NEW p
  PROVE  Carried(p)' <=> \/ \E c \in Callers : caller'[c] = p
                         \/ \E s \in queue' \union ({current'} \ {None}) \union DOMAIN working' :
                               packetOf'[s] = p
  BY DEF Carried, WithCaller, Handled, Queued, Sending, Working

\* Every step before detach leaves every registered packet with a copy: a step
\* that takes a packet's last copy away also frees its bytes.
LEMMA NextNoStuck == TypeOK /\ NoStuckEntry /\ [Next]_vars => NoStuckEntry'
  <1> SUFFICES ASSUME TypeOK, NoStuckEntry, [Next]_vars, ~detached',
                      NEW p \in Packets, p \in inflight'
               PROVE  Carried(p)'
    BY NextType DEF NoStuckEntry, Carried, TypeOK
  <1>0. ~detached
    BY DEF Next, Put, Offer, Take, Finish, StopSending, TaskEnds, WaitThenRelease, Sweep,
           Detach, CancelTasks, Stop, vars
  <1>old. ASSUME p \in inflight PROVE Carried(p)
    BY <1>old, <1>0 DEF NoStuckEntry, Carried
  <1>1. ASSUME NEW c \in Callers, Put(c) PROVE Carried(p)'
    <2>1. p \in inflight /\ Carried(p)
      BY <1>1, <1>old DEF Put, Release, Keep
    <2>2. /\ \A s \in queue \union ({current} \ {None}) \union DOMAIN working :
                s \in 0..seq - 1
          /\ \A s \in 0..seq - 1 : packetOf'[s] = packetOf[s]
          /\ packetOf'[seq] = caller[c]
      BY <1>1 DEF Put, TypeOK
    <2>3. CASE \E s \in queue \union ({current} \ {None}) \union DOMAIN working : packetOf[s] = p
      <3>1. queue \subseteq queue' /\ current' = current /\ working' = working
        BY <1>1 DEF Put
      <3>2. QED BY <2>2, <2>3, <3>1, CarriedPlacesNext
    <2>4. CASE \E d \in Callers \ {c} : caller[d] = p
      <3>1. \A d \in Callers \ {c} : caller'[d] = caller[d]
        BY <1>1 DEF Put, TypeOK
      <3>2. QED BY <2>4, <3>1, CarriedPlacesNext
    <2>5. CASE caller[c] = p
      <3>1. seq \in queue'
        BY <1>1, <2>5 DEF Put, Release
      <3>2. QED BY <2>2, <2>5, <3>1, CarriedPlacesNext
    <2>6. QED BY <2>1, <2>3, <2>4, <2>5, CarriedPlaces
  <1>2. ASSUME NEW c \in Callers, NEW q \in Packets, Offer(c, q) PROVE Carried(p)'
    <2>1. UNCHANGED <<queue, current, working, packetOf>>
      BY <1>2 DEF Offer
    <2>2. \A d \in Callers : caller[d] = p => caller'[d] = p
      BY <1>2, SetAssumption DEF Offer, Admit, TypeOK
    <2>3. CASE p \in inflight
      BY <1>old, <2>1, <2>2, <2>3, CarriedPlaces, CarriedPlacesNext
    <2>4. CASE p \notin inflight
      <3>1. q = p /\ caller'[c] = p
        BY <1>2, <2>4 DEF Offer, Admit, TypeOK
      <3>2. QED BY <3>1, CarriedPlacesNext
    <2>5. QED BY <2>3, <2>4
  <1>3. CASE Take
    <2>1. PICK s \in queue : queue' = queue \ {s} /\ current' = s /\ s # None
      BY <1>3, SetAssumption DEF Take, TypeOK
    <2>2. current = None /\ UNCHANGED <<inflight, caller, working, packetOf>>
      BY <1>3 DEF Take, TypeOK
    <2>3. QED BY <1>old, <2>1, <2>2, CarriedPlaces, CarriedPlacesNext
  <1>4. ASSUME NEW n \in 0..MaxTasks, Finish(n) PROVE Carried(p)'
    <2>1. p \in inflight /\ Carried(p)
      BY <1>4, <1>old DEF Finish, Done, Release, Keep
    <2>2. UNCHANGED <<caller, queue, packetOf>>
      BY <1>4 DEF Finish
    <2>3. CASE n = 0
      <3>1. packetOf[current] # p /\ working' = working /\ current' = None
        BY <1>4, <2>3 DEF Finish, Done, Release
      <3>2. QED BY <2>1, <2>2, <3>1, CarriedPlaces, CarriedPlacesNext
    <2>4. CASE n # 0
      <3>1. DOMAIN working' = DOMAIN working \union {current}
        BY <1>4, <2>4 DEF Finish, Done
      <3>2. QED BY <2>1, <2>2, <3>1, CarriedPlaces, CarriedPlacesNext
    <2>5. QED BY <2>3, <2>4
  <1>5. ASSUME NEW s \in DOMAIN working, TaskEnds(s) PROVE Carried(p)'
    <2>1. DOMAIN working' = DOMAIN working /\ UNCHANGED <<inflight, caller, queue, current, packetOf>>
      BY <1>5 DEF TaskEnds
    <2>2. QED BY <1>old, <2>1, CarriedPlaces, CarriedPlacesNext
  <1>6. ASSUME NEW s \in DOMAIN working, WaitThenRelease(s) PROVE Carried(p)'
    <2>1. /\ DOMAIN working' = DOMAIN working \ {s} /\ packetOf[s] # p /\ p \in inflight
          /\ UNCHANGED <<caller, queue, current, packetOf>>
      BY <1>6 DEF WaitThenRelease, Release
    <2>2. QED BY <1>old, <2>1, CarriedPlaces, CarriedPlacesNext
  <1>7. ASSUME NEW q \in Packets, Sweep(q) PROVE Carried(p)'
    <2>1. p \in inflight /\ UNCHANGED <<caller, queue, current, working, packetOf>>
      BY <1>7 DEF Sweep
    <2>2. QED BY <1>old, <2>1, CarriedPlaces, CarriedPlacesNext
  <1>8. CASE Detach \/ CancelTasks \/ Stop \/ \E n \in 0..MaxTasks : StopSending(n)
    BY <1>8, <1>0 DEF Detach, CancelTasks, Stop, StopSending
  <1>9. CASE UNCHANGED vars
    <2>1. p \in inflight /\ UNCHANGED <<caller, queue, current, working, packetOf>>
      BY <1>9 DEF vars
    <2>2. QED BY <1>old, <2>1, CarriedPlaces, CarriedPlacesNext
  <1>10. QED
    BY <1>1, <1>2, <1>3, <1>4, <1>5, <1>6, <1>7, <1>8, <1>9 DEF Next

-----------------------------------------------------------------------------
\* Type correctness of the outgoing queue in every reachable state.
THEOREM TypeCorrect == Spec => []TypeOK
  <1>1. QED BY InitType, NextType, PTL DEF Spec

\* No entry of _outgoing_inflight outlives the last copy of its packet (until
\* detach), whatever the number of threads, copies and send tasks.
THEOREM NoStuckEntryHolds == Spec => []NoStuckEntry
  <1>1. Init => TypeOK /\ NoStuckEntry
    BY InitType, InitNoStuck
  <1>2. (TypeOK /\ NoStuckEntry) /\ [Next]_vars => (TypeOK /\ NoStuckEntry)'
    BY NextType, NextNoStuck
  <1>3. QED BY <1>1, <1>2, PTL DEF Spec

-----------------------------------------------------------------------------
\* The places of the copies that are out of their callers' hands.
Places == queue \union ({current} \ {None}) \union DOMAIN working

\* At most one copy of p is anywhere.
Alone(p) ==
    /\ \A c, d \in WithCaller(p) : c = d
    /\ \A s, t \in Handled(p) : s = t
    /\ WithCaller(p) = {} \/ Handled(p) = {}

\* The copy of p, if there is one, is the only one and its bytes are registered.
OnlyCopy(p) == Alone(p) /\ (Carried(p) => p \in inflight)

\* So it is with every packet that OneCopy speaks of.
CopiesRegistered == \A p \in Packets \ (forced \union Slow) : OnlyCopy(p)

\* Handled in terms of the places, now and in the next state.
LEMMA HandledPlaces ==
  ASSUME NEW p
  PROVE  /\ Handled(p) = {s \in Places : packetOf[s] = p}
         /\ Handled(p)' = {s \in Places' : packetOf'[s] = p}
  BY DEF Handled, Queued, Sending, Working, Places

\* A step that makes no copy of p, and frees its bytes only when none is left,
\* keeps the only copy.
LEMMA NoNewCopy ==
  ASSUME NEW p, OnlyCopy(p),
         WithCaller(p)' \subseteq WithCaller(p), Handled(p)' \subseteq Handled(p),
         p \in inflight => p \in inflight' \/ ~Carried(p)'
  PROVE  OnlyCopy(p)'
  BY DEF OnlyCopy, Alone, Carried

\* A registration makes the only copy of a packet that was not in flight.
LEMMA OfferOnlyCopy ==
  ASSUME TypeOK, CopiesRegistered, NEW c \in Callers, NEW q \in Packets, Offer(c, q),
         NEW p \in Packets \ (forced' \union Slow)
  PROVE  OnlyCopy(p)'
  <1>1. Handled(p)' = Handled(p) /\ forced \subseteq forced'
    BY HandledPlaces DEF Offer, Places
  <1>2. OnlyCopy(p)
    BY <1>1 DEF CopiesRegistered
  <1>3. CASE Suppress(q)
    BY <1>1, <1>2, <1>3 DEF Offer, OnlyCopy, Alone, Carried, WithCaller
  <1>4. CASE ~Suppress(q) /\ q # p
    <2>1. WithCaller(p)' \subseteq WithCaller(p) /\ inflight \subseteq inflight'
      BY <1>4 DEF Offer, Admit, WithCaller, TypeOK
    <2>2. QED BY <1>1, <1>2, <2>1, NoNewCopy
  <1>5. CASE ~Suppress(q) /\ q = p
    <2>1. p \notin inflight /\ p \in inflight'
      BY <1>5 DEF Offer, Admit
    <2>2. WithCaller(p) = {} /\ Handled(p) = {}
      BY <1>2, <2>1 DEF OnlyCopy, Carried
    <2>3. WithCaller(p)' \subseteq {c}
      BY <1>5, <2>2 DEF Offer, Admit, WithCaller, TypeOK
    <2>4. QED BY <1>1, <2>1, <2>2, <2>3 DEF OnlyCopy, Alone, Carried
  <1>6. QED BY <1>3, <1>4, <1>5

\* Queuing moves the only copy from its caller to the queue, or drops it and its
\* registration together.
LEMMA PutOnlyCopy ==
  ASSUME TypeOK, NEW c \in Callers, Put(c), NEW p \in Packets, OnlyCopy(p)
  PROVE  OnlyCopy(p)'
  <1>1. /\ Places \subseteq 0..seq - 1 /\ seq \notin 0..seq - 1
        /\ queue' \in {queue, queue \union {seq}} /\ UNCHANGED <<current, working>>
        /\ \A s \in 0..seq - 1 : packetOf'[s] = packetOf[s]
        /\ packetOf'[seq] = caller[c]
    <2>1. Places \subseteq 0..seq - 1
      BY DEF Places, TypeOK
    <2>5. seq \notin 0..seq - 1 /\ 0..seq - 1 \subseteq 0..seq
      BY DEF TypeOK
    <2>2. queue' \in {queue, queue \union {seq}} /\ UNCHANGED <<current, working>>
      BY DEF Put
    <2>3. packetOf' = [s \in 0..seq |-> IF s = seq THEN caller[c] ELSE packetOf[s]]
          /\ seq \in 0..seq
      BY DEF Put, TypeOK
    <2>4. QED BY <2>1, <2>2, <2>3, <2>5
  <1>2. Places' \subseteq Places \union {seq}
    BY <1>1 DEF Places
  <1>3. WithCaller(p)' = WithCaller(p) \ {c}
    BY SetAssumption DEF Put, WithCaller, TypeOK
  <1>4. CASE caller[c] # p
    <2>1. ASSUME NEW s \in Handled(p)' PROVE s \in Handled(p)
      <3>1. s \in Places \union {seq} /\ packetOf'[s] = p
        BY <1>2, <2>1, HandledPlaces
      <3>2. s \in Places /\ packetOf[s] = p
        BY <1>1, <1>4, <3>1
      <3>3. QED BY <3>2, HandledPlaces
    <2>2. p \in inflight => p \in inflight'
      BY <1>4 DEF Put, Release, Keep
    <2>3. QED BY <1>3, <2>1, <2>2, NoNewCopy
  <1>5. CASE caller[c] = p
    <2>1. c \in WithCaller(p) /\ p \in inflight
      BY <1>5 DEF WithCaller, OnlyCopy, Carried
    <2>2. Handled(p) = {} /\ WithCaller(p)' = {}
      BY <1>3, <2>1 DEF OnlyCopy, Alone
    <2>3. ASSUME NEW s \in Handled(p)' PROVE s = seq
      <3>1. s \in Places \union {seq} /\ packetOf'[s] = p
        BY <1>2, <2>3, HandledPlaces
      <3>2. s \in Places => s \in Handled(p)
        BY <1>1, <3>1, HandledPlaces
      <3>3. QED BY <2>2, <3>1, <3>2
    <2>4. CASE QueueSize < Capacity
      BY <2>1, <2>2, <2>3, <2>4 DEF Put, Keep, OnlyCopy, Alone, Carried
    <2>5. CASE ~(QueueSize < Capacity)
      <3>1. Places' = Places
        BY <1>1, <2>5 DEF Put, Places
      <3>2. Handled(p)' = {}
        BY <1>1, <2>2, <3>1, HandledPlaces
      <3>3. QED BY <2>2, <3>2 DEF OnlyCopy, Alone, Carried
    <2>6. QED BY <2>4, <2>5
  <1>6. QED BY <1>4, <1>5

\* The end of the worker's turn moves the copy to its send tasks, or lets go of
\* the copy and of its bytes.
LEMMA DoneOnlyCopy ==
  ASSUME TypeOK, NEW n \in 0..MaxTasks, Finish(n) \/ StopSending(n),
         NEW p \in Packets, OnlyCopy(p)
  PROVE  OnlyCopy(p)'
  <1>1. UNCHANGED <<caller, queue, packetOf>> /\ Done(n) /\ current # None
    BY DEF Finish, StopSending, TypeOK
  <1>2. WithCaller(p)' = WithCaller(p)
    BY <1>1 DEF WithCaller
  <1>3. Places' \subseteq Places /\ (n = 0 => Places' = Places \ {current})
    BY <1>1 DEF Done, Places, TypeOK
  <1>4. Handled(p)' \subseteq Handled(p) /\ (n = 0 => Handled(p)' = Handled(p) \ {current})
    BY <1>1, <1>3, HandledPlaces
  <1>5. CASE n = 0 /\ packetOf[current] = p
    <2>1. current \in Handled(p)
      BY <1>1, <1>5, HandledPlaces DEF Places
    <2>2. WithCaller(p) = {} /\ Handled(p)' = {}
      BY <1>4, <1>5, <2>1 DEF OnlyCopy, Alone
    <2>3. QED BY <1>2, <2>2 DEF OnlyCopy, Alone, Carried
  <1>6. CASE ~(n = 0 /\ packetOf[current] = p)
    <2>1. p \in inflight => p \in inflight'
      BY <1>1, <1>6 DEF Done, Release, Keep
    <2>2. QED BY <1>2, <1>4, <2>1, NoNewCopy
  <1>7. QED BY <1>5, <1>6

\* When a copy's last send task has ended the copy and its registration go.
LEMMA WaitOnlyCopy ==
  ASSUME TypeOK, NEW s \in DOMAIN working, WaitThenRelease(s),
         NEW p \in Packets, OnlyCopy(p)
  PROVE  OnlyCopy(p)'
  <1>1. UNCHANGED <<caller, queue, current, packetOf>> /\ DOMAIN working' = DOMAIN working \ {s}
    BY DEF WaitThenRelease
  <1>2. WithCaller(p)' = WithCaller(p)
    BY <1>1 DEF WithCaller
  <1>3. Places' = Places \ {s}
    BY <1>1 DEF Places, TypeOK
  <1>4. Handled(p)' = Handled(p) \ {s}
    BY <1>1, <1>3, HandledPlaces
  <1>5. CASE packetOf[s] = p
    <2>1. s \in Handled(p)
      BY <1>5, HandledPlaces DEF Places
    <2>2. WithCaller(p) = {} /\ Handled(p)' = {}
      BY <1>4, <2>1 DEF OnlyCopy, Alone
    <2>3. QED BY <1>2, <2>2 DEF OnlyCopy, Alone, Carried
  <1>6. CASE packetOf[s] # p
    <2>1. p \in inflight => p \in inflight'
      BY <1>6 DEF WaitThenRelease, Release
    <2>2. QED BY <1>2, <1>4, <2>1, NoNewCopy
  <1>7. QED BY <1>5, <1>6

\* Every step keeps the only copies.
LEMMA NextCopies == TypeOK /\ CopiesRegistered /\ [Next]_vars => CopiesRegistered'
  <1> SUFFICES ASSUME TypeOK, CopiesRegistered, [Next]_vars,
                      NEW p \in Packets \ (forced' \union Slow)
               PROVE  OnlyCopy(p)'
    BY DEF CopiesRegistered
  <1>0. forced \subseteq forced'
    BY DEF Next, Put, Offer, Take, Finish, StopSending, TaskEnds, WaitThenRelease, Sweep,
           Detach, CancelTasks, Stop, vars
  <1>old. OnlyCopy(p)
    BY <1>0 DEF CopiesRegistered
  <1>same. ASSUME UNCHANGED <<caller, packetOf>>, Places' \subseteq Places,
                  p \in inflight => p \in inflight'
           PROVE  OnlyCopy(p)'
    <2>1. WithCaller(p)' = WithCaller(p) /\ Handled(p)' \subseteq Handled(p)
      BY <1>same, HandledPlaces DEF WithCaller
    <2>2. QED BY <1>old, <1>same, <2>1, NoNewCopy
  <1>1. CASE \E c \in Callers : Put(c)
    BY <1>1, <1>old, PutOnlyCopy
  <1>2. CASE \E c \in Callers, q \in Packets : Offer(c, q)
    BY <1>2, OfferOnlyCopy
  <1>3. CASE Take
    BY <1>3, <1>same DEF Take, Places
  <1>4. CASE \E n \in 0..MaxTasks : Finish(n) \/ StopSending(n)
    BY <1>4, <1>old, DoneOnlyCopy
  <1>5. CASE \E s \in DOMAIN working : TaskEnds(s)
    BY <1>5, <1>same DEF TaskEnds, Places
  <1>6. CASE \E s \in DOMAIN working : WaitThenRelease(s)
    BY <1>6, <1>old, WaitOnlyCopy
  <1>7. CASE \E q \in Packets : Sweep(q)
    BY <1>7, <1>same DEF Sweep, Places
  <1>8. CASE Detach \/ Stop
    BY <1>8, <1>same DEF Detach, Stop, Places
  <1>9. CASE CancelTasks
    BY <1>9, <1>same DEF CancelTasks, Places
  <1>10. CASE UNCHANGED vars
    BY <1>10, <1>same DEF vars, Places
  <1>11. QED
    BY <1>1, <1>2, <1>3, <1>4, <1>5, <1>6, <1>7, <1>8, <1>9, <1>10 DEF Next

\* Initially there is no copy.
LEMMA InitCopies == Init => CopiesRegistered
  <1> SUFFICES ASSUME Init, NEW p \in Packets PROVE OnlyCopy(p)
    BY DEF CopiesRegistered
  <1>1. WithCaller(p) = {}
    BY SetAssumption DEF Init, WithCaller
  <1>2. Handled(p) = {}
    BY HandledPlaces DEF Init, Places
  <1>3. QED BY <1>1, <1>2 DEF OnlyCopy, Alone, Carried

\* A set whose elements are all equal has at most one.
LEMMA AtMostOne ==
  ASSUME NEW S, \A x, y \in S : x = y
  PROVE  Cardinality(S) \in 0..1 /\ (S = {} => Cardinality(S) = 0)
  <1>1. CASE S = {}
    BY <1>1, FS_EmptySet
  <1>2. ASSUME NEW x \in S PROVE Cardinality(S) = 1
    <2>1. S = {x}
      BY <1>2
    <2>2. QED BY <2>1, FS_Singleton
  <1>3. QED BY <1>1, <1>2

\* One copy at most is one copy counted.
LEMMA CopiesCounted == CopiesRegistered => OneCopy
  <1> SUFFICES ASSUME NEW p \in Packets \ (forced \union Slow), Alone(p)
               PROVE  Copies(p) <= 1
    BY DEF CopiesRegistered, OnlyCopy, OneCopy
  <1>1. /\ Cardinality(WithCaller(p)) \in 0..1
        /\ WithCaller(p) = {} => Cardinality(WithCaller(p)) = 0
    BY AtMostOne DEF Alone
  <1>2. /\ Cardinality(Handled(p)) \in 0..1
        /\ Handled(p) = {} => Cardinality(Handled(p)) = 0
    BY AtMostOne DEF Alone
  <1>3. QED BY <1>1, <1>2 DEF Alone, Copies

\* Unless RNS insists or a send outlives the sweep, at most one copy of a packet
\* is queued or being sent, whatever the threads of process_outgoing, the worker,
\* the send tasks and a detach do.
THEOREM OneCopyHolds == Spec => []OneCopy
  <1>1. Init => TypeOK /\ CopiesRegistered
    BY InitType, InitCopies
  <1>2. (TypeOK /\ CopiesRegistered) /\ [Next]_vars => (TypeOK /\ CopiesRegistered)'
    BY NextType, NextCopies
  <1>3. QED BY <1>1, <1>2, CopiesCounted, PTL DEF Spec

-----------------------------------------------------------------------------
(* The gate: sums over sets. *)

\* A set of numbers has a least.
LEMMA LeastOf ==
  ASSUME NEW T, T \subseteq Nat, T # {}
  PROVE  \E m \in T : \A y \in T : m <= y
  <1>1. PICK m \in T : \A y \in T : <<y, m>> \notin OpToRel(<, Nat)
    BY WFMin, NatLessThanWellFounded, Zenon
  <1>2. \A y \in T : ~(y \in Nat /\ m \in Nat /\ y < m)
    BY <1>1, Zenon DEF OpToRel
  <1> QED BY <1>2

\* Induction over the naturals, for a set.
LEMMA NatClosed ==
  ASSUME NEW T, 0 \in T, \A n \in Nat : n \in T => n + 1 \in T
  PROVE  Nat \subseteq T
  <1> DEFINE U == Nat \ T
  <1>1. SUFFICES ASSUME U # {} PROVE FALSE
    OBVIOUS
  <1>2. U \subseteq Nat /\ \A x \in U : x \notin T
    OBVIOUS
  <1>3. \A x \in Nat : x \notin T => x \in U
    OBVIOUS
  <1> HIDE DEF U
  <1>4. PICK x \in U : \A y \in U : x <= y
    BY <1>1, <1>2, LeastOf
  <1>5. x \in Nat /\ x # 0
    BY <1>2
  <1>6. x - 1 \in Nat /\ (x - 1) + 1 = x /\ ~(x <= x - 1)
    BY <1>5
  <1>7. x - 1 \in T
    BY <1>3, <1>4, <1>6
  <1> QED BY <1>2, <1>6, <1>7

\* The sum of w over the first k numbers of T, for k up to n.
Steps(w, T, n, g) == g = [k \in 0..n |-> IF k = 0 THEN 0 ELSE g[k - 1] + (IF k \in T THEN w[k] ELSE 0)]

\* There is one for every length.
LEMMA StepsExist ==
  ASSUME NEW w, NEW T, NEW N \in Nat
  PROVE  \E g : Steps(w, T, N, g)
  <1> DEFINE U == {n \in Nat : \E g : Steps(w, T, n, g)}
  <1>1. 0 \in U
    <2> DEFINE g == [k \in 0..0 |-> 0]
    <2>1. Steps(w, T, 0, g)
      BY DEF Steps
    <2> QED BY <2>1
  <1>2. ASSUME NEW n \in Nat, n \in U PROVE n + 1 \in U
    <2>1. PICK g : Steps(w, T, n, g)
      BY <1>2
    <2> DEFINE h == [k \in 0..n + 1 |-> IF k = 0 THEN 0 ELSE g[k - 1] + (IF k \in T THEN w[k] ELSE 0)]
    <2>2. \A k \in 0..n : h[k] = g[k]
      BY <2>1 DEF Steps
    <2>3. \A k \in 0..n + 1 : k # 0 => k - 1 \in 0..n
      OBVIOUS
    <2>4. \A k \in 0..n + 1 : k # 0 => h[k - 1] = g[k - 1]
      BY <2>2, <2>3
    <2>5. Steps(w, T, n + 1, h)
      BY <2>4 DEF Steps
    <2>6. n + 1 \in Nat
      OBVIOUS
    <2> HIDE DEF h
    <2> QED BY <2>5, <2>6
  <1> HIDE DEF U
  <1>3. Nat \subseteq U
    BY <1>1, <1>2, NatClosed
  <1> QED BY <1>3 DEF U

\* In one symbol: cited, the sum itself escapes the provers.
Exceeds(a, b, c) == a = b + c

\* Every prefix of the sum is a number, and without x it is less by x's weight.
LEMMA StepsFacts ==
  ASSUME NEW N \in Nat, NEW T, NEW w, \A i \in T : w[i] \in Nat, NEW g, Steps(w, T, N, g),
         NEW x \in T, NEW R, R = T \ {x}, NEW h, Steps(w, R, N, h), x \in 1..N
  PROVE  g[N] \in Nat /\ h[N] \in Nat /\ Exceeds(g[N], h[N], w[x])
  <1> DEFINE U == {k \in Nat : k \in 0..N => /\ g[k] \in Nat /\ h[k] \in Nat
                                             /\ g[k] = h[k] + (IF x <= k /\ x # 0 THEN w[x] ELSE 0)}
  <1>1. /\ \A k \in 0..N : g[k] = IF k = 0 THEN 0 ELSE g[k - 1] + (IF k \in T THEN w[k] ELSE 0)
        /\ \A k \in 0..N : h[k] = IF k = 0 THEN 0 ELSE h[k - 1] + (IF k \in T \ {x} THEN w[k] ELSE 0)
    BY DEF Steps
  <1>2. 0 \in U
    <2>1. 0 \in 0..N /\ (x <= 0 => x = 0)
      OBVIOUS
    <2>2. g[0] = 0 /\ h[0] = 0
      BY <1>1, <2>1
    <2> QED BY <2>1, <2>2
  <1>3. ASSUME NEW n \in Nat, n \in U PROVE n + 1 \in U
    <2>1. CASE n + 1 \in 0..N
      <3>1. n \in 0..N /\ n + 1 # 0 /\ (n + 1) - 1 = n
        BY <2>1
      <3>2. g[n] \in Nat /\ h[n] \in Nat /\ g[n] = h[n] + (IF x <= n /\ x # 0 THEN w[x] ELSE 0)
        BY <1>3, <3>1
      <3>3. /\ g[n + 1] = g[n] + (IF n + 1 \in T THEN w[n + 1] ELSE 0)
            /\ h[n + 1] = h[n] + (IF n + 1 \in T \ {x} THEN w[n + 1] ELSE 0)
        BY <1>1, <2>1, <3>1
      <3>4. n + 1 \in T => w[n + 1] \in Nat
        OBVIOUS
      <3>5. w[x] \in Nat
        OBVIOUS
      <3>6. CASE x = n + 1
        <4>1. ~(x <= n) /\ x <= n + 1 /\ x # 0
          BY <3>6
        <4>2. g[n] = h[n] /\ h[n + 1] = h[n] + 0 /\ g[n + 1] = g[n] + w[x]
          BY <3>2, <3>3, <3>6, <4>1
        <4>3. g[n + 1] \in Nat /\ h[n + 1] \in Nat /\ g[n + 1] = h[n + 1] + w[x]
          BY <3>2, <3>5, <4>2
        <4> QED BY <4>1, <4>3
      <3>7. CASE x # n + 1
        <4>1. (x <= n) <=> (x <= n + 1)
          BY <3>7
        <4>2. (n + 1 \in T \ {x}) <=> n + 1 \in T
          BY <3>7
        <4> DEFINE v == IF n + 1 \in T THEN w[n + 1] ELSE 0
                   u == IF x <= n /\ x # 0 THEN w[x] ELSE 0
        <4>3. v \in Nat /\ u \in Nat
          BY <3>4, <3>5
        <4>4. g[n + 1] = g[n] + v /\ h[n + 1] = h[n] + v /\ g[n] = h[n] + u
          BY <3>2, <3>3, <4>2
        <4>5. u = IF x <= n + 1 /\ x # 0 THEN w[x] ELSE 0
          BY <4>1
        <4> HIDE DEF u, v
        <4>6. g[n + 1] \in Nat /\ h[n + 1] \in Nat /\ g[n + 1] = h[n + 1] + u
          BY <3>2, <4>3, <4>4
        <4> QED BY <4>5, <4>6
      <3> QED BY <3>6, <3>7
    <2>2. CASE n + 1 \notin 0..N
      BY <2>2
    <2> QED BY <2>1, <2>2
  <1> HIDE DEF U
  <1>4. Nat \subseteq U
    BY <1>2, <1>3, NatClosed
  <1>5. /\ g[N] \in Nat /\ h[N] \in Nat
        /\ g[N] = h[N] + (IF x <= N /\ x # 0 THEN w[x] ELSE 0)
    BY <1>4 DEF U
  <1> QED BY <1>5 DEF Exceeds

\* Nothing adds up to 0.
LEMMA StepsEmpty ==
  ASSUME NEW N \in Nat, NEW w, NEW g, Steps(w, {}, N, g)
  PROVE  g[N] = 0
  <1> DEFINE U == {k \in Nat : k \in 0..N => g[k] = 0}
  <1>1. \A k \in 0..N : g[k] = IF k = 0 THEN 0 ELSE g[k - 1] + 0
    BY DEF Steps
  <1>2. 0 \in U
    BY <1>1
  <1>3. ASSUME NEW n \in Nat, n \in U PROVE n + 1 \in U
    <2>1. CASE n + 1 \in 0..N
      <3>1. n \in 0..N /\ n + 1 # 0 /\ (n + 1) - 1 = n
        BY <2>1
      <3>2. g[n] = 0 /\ g[n + 1] = g[n] + 0
        BY <1>1, <1>3, <2>1, <3>1
      <3> QED BY <3>2
    <2> QED BY <2>1
  <1> HIDE DEF U
  <1>4. Nat \subseteq U
    BY <1>2, <1>3, NatClosed
  <1> QED BY <1>4 DEF U

\* A weighing of the subsets of S: nothing weighs 0, and a set its elements.
Weighs(w, S, h) ==
    /\ h \in [SUBSET S -> Nat] /\ h[{}] = 0
    /\ \A T \in SUBSET S : \A x \in T : h[T] = w[x] + h[T \ {x}]

\* There is one, for positions up to some N.
LEMMA WeighingExists ==
  ASSUME NEW N \in Nat, NEW S \in SUBSET (1..N), NEW w, \A i \in S : w[i] \in Nat
  PROVE  \E h : Weighs(w, S, h)
  <1> DEFINE P(T) == CHOOSE g : Steps(w, T, N, g)
             h == [T \in SUBSET S |-> P(T)[N]]
  <1>1. \A T : Steps(w, T, N, P(T))
    BY StepsExist
  <1> HIDE DEF P
  <1>3. P({})[N] = 0
    BY <1>1, StepsEmpty
  <1>4. ASSUME NEW T \in SUBSET S, NEW x \in T
        PROVE  P(T)[N] \in Nat /\ P(T)[N] = w[x] + P(T \ {x})[N]
    <2> DEFINE g == P(T)
               f == P(T \ {x})
               R == T \ {x}
    <2>1. Steps(w, T, N, g) /\ Steps(w, R, N, f) /\ R = T \ {x} /\ x \in 1..N /\ \A i \in T : w[i] \in Nat
      BY <1>1
    <2> HIDE DEF g, f, R, h
    <2>2. g[N] \in Nat /\ f[N] \in Nat
      BY <2>1, StepsFacts
    <2>3. Exceeds(g[N], f[N], w[x])
      BY <2>1, StepsFacts
    <2>4. w[x] \in Nat
      BY <2>1
    <2>5. g[N] \in Nat /\ g[N] = w[x] + f[N]
      BY <2>2, <2>3, <2>4 DEF Exceeds
    <2> QED BY <2>5 DEF g, f, R
  <1>5. \A T \in SUBSET S : P(T)[N] \in Nat
    <2> SUFFICES ASSUME NEW T \in SUBSET S PROVE P(T)[N] \in Nat
      OBVIOUS
    <2>1. CASE T = {}
      BY <1>3, <2>1
    <2>2. CASE T # {}
      <3>1. PICK x \in T : TRUE
        BY <2>2
      <3> QED BY <1>4, <3>1
    <2> QED BY <2>1, <2>2
  <1>6. Weighs(w, S, h)
    BY <1>3, <1>4, <1>5 DEF Weighs
  <1> QED BY <1>6

\* What a fold over a set computes with w.
Folds(w, S, f) ==
    f = [T \in SUBSET S |-> IF T = {} THEN 0
                            ELSE w[CHOOSE x \in T : TRUE] + f[T \ {CHOOSE x \in T : TRUE}]]

\* The fold is defined, and is the weighing of the set.
LEMMA FoldExists ==
  ASSUME NEW S, NEW w, NEW h, Weighs(w, S, h), NEW R, R \in SUBSET S
  PROVE  \E f : Folds(w, R, f)
  <1> DEFINE f == [T \in SUBSET R |-> h[T]]
  <1>1. \A T \in SUBSET R : T # {} => /\ T \ {CHOOSE x \in T : TRUE} \in SUBSET R
                                      /\ h[T] = w[CHOOSE x \in T : TRUE] + h[T \ {CHOOSE x \in T : TRUE}]
    BY DEF Weighs
  <1>2. h[{}] = 0 /\ {} \in SUBSET R /\ \A T \in SUBSET R : f[T] = h[T]
    BY DEF Weighs
  <1>3. \A T \in SUBSET R : f[T] = IF T = {} THEN 0
                          ELSE w[CHOOSE x \in T : TRUE] + f[T \ {CHOOSE x \in T : TRUE}]
    BY <1>1, <1>2
  <1>4. Folds(w, R, f)
    BY <1>3 DEF Folds
  <1> QED BY <1>4

\* Whatever it takes first, it comes to what the set weighs.
LEMMA FoldWeighs ==
  ASSUME NEW S, IsFiniteSet(S), NEW w, NEW h, Weighs(w, S, h), NEW R, R \subseteq S, NEW f, Folds(w, R, f)
  PROVE  f[R] = h[R]
  <1> DEFINE U == {n \in Nat : \A T \in SUBSET R : Cardinality(T) = n => f[T] = h[T]}
  <1>1. \A T \in SUBSET R : IsFiniteSet(T) /\ Cardinality(T) \in Nat
    BY FS_Subset, FS_CardinalityType
  <1>2. 0 \in U
    <2>1. \A T \in SUBSET R : Cardinality(T) = 0 => T = {}
      BY <1>1, FS_EmptySet
    <2>2. f[{}] = 0 /\ h[{}] = 0
      BY DEF Folds, Weighs
    <2> QED BY <2>1, <2>2
  <1>3. ASSUME NEW n \in Nat, n \in U PROVE n + 1 \in U
    <2>1. ASSUME NEW T \in SUBSET R, Cardinality(T) = n + 1 PROVE f[T] = h[T]
      <3> DEFINE x == CHOOSE x \in T : TRUE
      <3>1. T # {}
        <4>1. n + 1 # 0
          OBVIOUS
        <4> QED BY <2>1, <4>1, FS_EmptySet
      <3>2. x \in T
        BY <3>1
      <3>3. f[T] = w[x] + f[T \ {x}]
        BY <3>1 DEF Folds
      <3> HIDE DEF x
      <3>4. Cardinality(T \ {x}) = n
        BY <1>1, <2>1, <3>2, FS_RemoveElement
      <3>5. f[T \ {x}] = h[T \ {x}]
        BY <1>3, <3>4
      <3>6. h[T] = w[x] + h[T \ {x}]
        BY <3>2 DEF Weighs
      <3> QED BY <3>3, <3>5, <3>6
    <2> QED BY <2>1
  <1> HIDE DEF U
  <1>4. Nat \subseteq U
    BY <1>2, <1>3, NatClosed
  <1> QED BY <1>1, <1>4 DEF U

\* The airtime of the frames numbered in T, as Fits adds it up.
Airtime(a, T) == MapThenSumSet(LAMBDA i : a[i].frame.airtime, T)

AtMost(a, b) == a <= b

\* A part weighs no more than the whole.
LEMMA WeighsLess ==
  ASSUME NEW S, IsFiniteSet(S), NEW w, \A i \in S : w[i] \in Nat, NEW h, Weighs(w, S, h),
         NEW T \in SUBSET S, NEW R \in SUBSET T
  PROVE  h[R] \in Nat /\ h[T] \in Nat /\ AtMost(h[R], h[T])
  <1> DEFINE U == {n \in Nat : \A Q \in SUBSET S : Cardinality(Q) = n => \A P \in SUBSET Q : h[P] <= h[Q]}
  <1>1. \A Q \in SUBSET S : IsFiniteSet(Q) /\ Cardinality(Q) \in Nat
    BY FS_Subset, FS_CardinalityType
  <1>2. \A Q \in SUBSET S : h[Q] \in Nat
    BY DEF Weighs
  <1>3. 0 \in U
    <2>1. \A Q \in SUBSET S : Cardinality(Q) = 0 => Q = {}
      BY <1>1, FS_EmptySet
    <2>2. \A P \in SUBSET {} : P = {}
      OBVIOUS
    <2>3. h[{}] <= h[{}]
      BY <1>2
    <2> QED BY <2>1, <2>2, <2>3
  <1>4. ASSUME NEW n \in Nat, n \in U PROVE n + 1 \in U
    <2>1. ASSUME NEW Q \in SUBSET S, Cardinality(Q) = n + 1, NEW P \in SUBSET Q PROVE h[P] <= h[Q]
      <3>1. CASE P = Q
        BY <1>2, <3>1
      <3>2. CASE P # Q
        <4>1. PICK x \in Q : x \notin P
          BY <3>2
        <4>2. Cardinality(Q \ {x}) = n
          <5>1. IsFiniteSet(Q) /\ x \in Q /\ Cardinality(Q) = n + 1
            BY <1>1, <2>1
          <5>2. Cardinality(Q \ {x}) = Cardinality(Q) - 1
            BY <5>1, FS_RemoveElement
          <5> QED BY <5>1, <5>2
        <4>3. P \in SUBSET (Q \ {x}) /\ Q \ {x} \in SUBSET S
          BY <4>1
        <4>4. h[P] <= h[Q \ {x}]
          BY <1>4, <4>2, <4>3
        <4>5. h[Q] = w[x] + h[Q \ {x}] /\ w[x] \in Nat
          BY <4>1 DEF Weighs
        <4>6. h[P] \in Nat /\ h[Q] \in Nat /\ h[Q \ {x}] \in Nat
          BY <1>2, <4>3
        <4> QED BY <4>4, <4>5, <4>6
      <3> QED BY <3>1, <3>2
    <2> QED BY <2>1
  <1> HIDE DEF U
  <1>5. Nat \subseteq U
    BY <1>3, <1>4, NatClosed
  <1>6. Cardinality(T) \in U
    BY <1>1, <1>5
  <1>7. h[R] <= h[T]
    BY <1>6 DEF U
  <1> QED BY <1>2, <1>7 DEF AtMost

\* Weights taken one to one are no more than what they are taken from.
LEMMA InjectLess ==
  ASSUME NEW S, IsFiniteSet(S), NEW v, NEW h, Weighs(v, S, h),
         NEW T, IsFiniteSet(T), NEW w, NEW k, Weighs(w, T, k), \A j \in T : w[j] \in Nat,
         NEW g, \A i \in S : g[i] \in T /\ v[i] = w[g[i]],
         \A i, j \in S : g[i] = g[j] => i = j
  PROVE  AtMost(h[S], k[T])
  <1> DEFINE Im(R) == {g[i] : i \in R}
             U == {n \in Nat : \A R \in SUBSET S : Cardinality(R) = n => h[R] = k[Im(R)]}
  <1>1. \A R \in SUBSET S : IsFiniteSet(R) /\ Cardinality(R) \in Nat
    BY FS_Subset, FS_CardinalityType
  <1>3. 0 \in U
    <2>1. \A R \in SUBSET S : Cardinality(R) = 0 => R = {}
      BY <1>1, FS_EmptySet
    <2>2. Im({}) = {}
      OBVIOUS
    <2>3. h[{}] = k[{}]
      BY DEF Weighs
    <2> QED BY <2>1, <2>2, <2>3
  <1>4. ASSUME NEW n \in Nat, n \in U PROVE n + 1 \in U
    <2>1. ASSUME NEW R \in SUBSET S, Cardinality(R) = n + 1 PROVE h[R] = k[Im(R)]
      <3>1. R # {}
        <4>1. n + 1 # 0
          OBVIOUS
        <4> QED BY <2>1, <4>1, FS_EmptySet
      <3>2. PICK x \in R : TRUE
        BY <3>1
      <3>3. Cardinality(R \ {x}) = n
        BY <1>1, <2>1, <3>2, FS_RemoveElement
      <3>4. h[R \ {x}] = k[Im(R \ {x})]
        BY <1>4, <3>3
      <3>5. Im(R \ {x}) = Im(R) \ {g[x]}
        OBVIOUS
      <3>6. Im(R) \in SUBSET T /\ g[x] \in Im(R) /\ v[x] = w[g[x]]
        OBVIOUS
      <3> HIDE DEF Im
      <3>7. h[R] = v[x] + h[R \ {x}]
        BY <3>2 DEF Weighs
      <3>8. k[Im(R)] = w[g[x]] + k[Im(R) \ {g[x]}]
        BY <3>6 DEF Weighs
      <3> QED BY <3>4, <3>5, <3>6, <3>7, <3>8
    <2> HIDE DEF Im
    <2> QED BY <2>1
  <1> HIDE DEF U
  <1>5. Nat \subseteq U
    BY <1>3, <1>4, NatClosed
  <1>6. Cardinality(S) \in U
    BY <1>1, <1>5
  <1>7. h[S] = k[Im(S)]
    BY <1>6 DEF U
  <1>8. Im(S) \in SUBSET T
    OBVIOUS
  <1> HIDE DEF Im
  <1>9. AtMost(k[Im(S)], k[T])
    BY <1>8, WeighsLess
  <1> QED BY <1>7, <1>9

\* Fits' sum is what a weighing says.
LEMMA AirtimeIs ==
  ASSUME NEW S, IsFiniteSet(S), NEW a, NEW w, w = [i \in S |-> a[i].frame.airtime],
         NEW h, Weighs(w, S, h), NEW T, T \subseteq S
  PROVE  Airtime(a, T) = h[T]
  <1> DEFINE Is(f) == f = [R \in SUBSET T |-> IF R = {} THEN 0
                              ELSE a[CHOOSE x \in R : TRUE].frame.airtime + f[R \ {CHOOSE x \in R : TRUE}]]
  <1>1. \A R \in SUBSET T : R # {} => w[CHOOSE x \in R : TRUE] = a[CHOOSE x \in R : TRUE].frame.airtime
    OBVIOUS
  <1>2. \A f : Is(f) <=> Folds(w, T, f)
    BY <1>1 DEF Folds
  <1>3. Airtime(a, T) = (CHOOSE f : Is(f))[T]
    BY DEF Airtime, MapThenSumSet, MapThenFoldSet
  <1> HIDE DEF Is
  <1>4. \E f : Folds(w, T, f)
    BY FoldExists
  <1>5. \A f : Folds(w, T, f) => f[T] = h[T]
    BY FoldWeighs
  <1>6. Is(CHOOSE f : Is(f))
    BY <1>2, <1>4
  <1> QED BY <1>2, <1>3, <1>5, <1>6

\* Finitely many positive numbers.
Numbers(S) == \E n \in Nat : S \in SUBSET (1..n)

\* Numbered weights can be weighed.
LEMMA NumbersWeigh ==
  ASSUME NEW S, Numbers(S), NEW w, \A i \in S : w[i] \in Nat
  PROVE  IsFiniteSet(S) /\ \E h : Weighs(w, S, h)
  <1>1. PICK n \in Nat : S \in SUBSET (1..n)
    BY DEF Numbers
  <1>2. IsFiniteSet(1..n)
    BY FS_Interval
  <1>3. IsFiniteSet(S)
    BY <1>1, <1>2, FS_Subset
  <1>4. \E h : Weighs(w, S, h)
    BY <1>1, WeighingExists
  <1> QED BY <1>3, <1>4

Airtimes(a, S) == [i \in S |-> a[i].frame.airtime]

\* h weighs what Airtime adds up.
Totals(a, S, h) == Weighs(Airtimes(a, S), S, h) /\ \A T : T \subseteq S => Airtime(a, T) = h[T]

\* So can frames, and what they weigh is Fits' sum.
LEMMA AirtimeWeighs ==
  ASSUME NEW S, Numbers(S), NEW a, \A i \in S : a[i].frame.airtime \in Nat
  PROVE  \E h : Totals(a, S, h)
  <1> DEFINE w == Airtimes(a, S)
  <1>1. w = [i \in S |-> a[i].frame.airtime] /\ \A i \in S : w[i] \in Nat
    BY DEF Airtimes
  <1> HIDE DEF w
  <1>2. IsFiniteSet(S)
    BY <1>1, NumbersWeigh
  <1>3. PICK h : Weighs(w, S, h)
    BY <1>1, NumbersWeigh
  <1>4. ASSUME NEW T, T \subseteq S PROVE Airtime(a, T) = h[T]
    BY <1>1, <1>2, <1>3, <1>4, AirtimeIs
  <1> QED BY <1>3, <1>4 DEF w, Totals

\* A ledger's sum is one.
LEMMA BusyWeighs ==
  ASSUME NEW l, Numbers(DOMAIN l), \A i \in DOMAIN l : l[i].airtime \in Nat,
         NEW w, w = [i \in DOMAIN l |-> l[i].airtime]
  PROVE  \E h : Weighs(w, DOMAIN l, h) /\ Busy(l) = h[DOMAIN l]
  <1> DEFINE T == DOMAIN l
             Is(f) == f = [R \in SUBSET T |-> IF R = {} THEN 0
                                ELSE l[CHOOSE x \in R : TRUE].airtime + f[R \ {CHOOSE x \in R : TRUE}]]
  <1>0. Busy(l) = (CHOOSE f : Is(f))[T]
    BY DEF Busy, MapThenSumSet, MapThenFoldSet
  <1>1. \A i \in T : w[i] \in Nat
    OBVIOUS
  <1>2. Numbers(T)
    OBVIOUS
  <1>3. \A R \in SUBSET T : R # {} => w[CHOOSE x \in R : TRUE] = l[CHOOSE x \in R : TRUE].airtime
    OBVIOUS
  <1>4. \A f : Is(f) <=> Folds(w, T, f)
    BY <1>3 DEF Folds
  <1> HIDE DEF T, Is
  <1>5. IsFiniteSet(T) /\ \E h : Weighs(w, T, h)
    BY <1>1, <1>2, NumbersWeigh
  <1>6. PICK h : Weighs(w, T, h)
    BY <1>5
  <1>7. T \subseteq T
    OBVIOUS
  <1>8. \E f : Folds(w, T, f)
    BY <1>6, <1>7, FoldExists
  <1>9. \A f : Folds(w, T, f) => f[T] = h[T]
    BY <1>5, <1>6, <1>7, FoldWeighs
  <1>10. Is(CHOOSE f : Is(f))
    BY <1>4, <1>8
  <1>11. Busy(l) = h[T]
    BY <1>0, <1>4, <1>9, <1>10
  <1> QED BY <1>6, <1>11 DEF T

\* Frames taken from a no more than once: their airtime is at most that of a.
LEMMA AirtimeLess ==
  ASSUME NEW S, Numbers(S), NEW a, \A i \in S : a[i].frame.airtime \in Nat,
         NEW T, T \subseteq S, NEW b, \A i \in T : b[i].frame = a[i].frame
  PROVE  Airtime(b, T) \in Nat /\ Airtime(a, S) \in Nat /\ AtMost(Airtime(b, T), Airtime(a, S))
  <1> DEFINE w == Airtimes(a, S)
             v == Airtimes(b, T)
  <1>1. (\A i \in S : w[i] \in Nat) /\ (\A i \in T : b[i].frame.airtime \in Nat)
    BY DEF Airtimes
  <1>3. \A i \in T : i \in S /\ v[i] = w[i]
    BY DEF Airtimes
  <1> HIDE DEF w, v
  <1>4. Numbers(T)
    BY DEF Numbers
  <1>5. PICK h : Totals(a, S, h)
    BY AirtimeWeighs
  <1>6. PICK k : Totals(b, T, k)
    BY <1>1, <1>4, AirtimeWeighs
  <1>7. IsFiniteSet(S) /\ IsFiniteSet(T)
    <2>1. \A i \in T : v[i] \in Nat
      BY <1>1, <1>3
    <2> QED BY <1>1, <1>4, <2>1, NumbersWeigh
  <1>11. Weighs(w, S, h) /\ Weighs(v, T, k)
    BY <1>5, <1>6 DEF Totals, w, v
  <1>8. AtMost(k[T], h[S])
    <2> DEFINE g == [i \in T |-> i]
    <2>1. (\A i \in T : g[i] \in S /\ v[i] = w[g[i]]) /\ \A i, j \in T : g[i] = g[j] => i = j
      BY <1>3
    <2> HIDE DEF g
    <2> QED BY <1>1, <1>7, <1>11, <2>1, InjectLess
  <1>9. h[S] \in Nat /\ k[T] \in Nat
    BY <1>11 DEF Weighs
  <1>10. Airtime(b, T) = k[T] /\ Airtime(a, S) = h[S]
    BY <1>5, <1>6 DEF Totals
  <1> QED BY <1>8, <1>9, <1>10

\* Frames that have each a sample of their own in a ledger.
LEMMA AirtimeBusy ==
  ASSUME NEW S, Numbers(S), NEW a, NEW l, Numbers(DOMAIN l), \A i \in DOMAIN l : l[i].airtime \in Nat,
         NEW g, \A i \in S : g[i] \in DOMAIN l /\ a[i].frame.airtime = l[g[i]].airtime,
         \A i, j \in S : g[i] = g[j] => i = j
  PROVE  Airtime(a, S) \in Nat /\ Busy(l) \in Nat /\ AtMost(Airtime(a, S), Busy(l))
  <1> DEFINE D == DOMAIN l
             v == Airtimes(a, S)
             w == [i \in D |-> l[i].airtime]
  <1>1. (\A i \in S : v[i] \in Nat /\ a[i].frame.airtime \in Nat) /\ (\A i \in D : w[i] \in Nat /\ l[i].airtime \in Nat)
    BY DEF Airtimes
  <1>2. w = [i \in D |-> l[i].airtime] /\ D = DOMAIN l /\ Numbers(D)
    OBVIOUS
  <1>3. \A i \in S : g[i] \in D /\ v[i] = w[g[i]]
    BY DEF Airtimes
  <1> HIDE DEF D, v, w
  <1>4. PICK h : Totals(a, S, h)
    BY <1>1, AirtimeWeighs
  <1>5. Weighs(v, S, h) /\ Airtime(a, S) = h[S]
    BY <1>4 DEF Totals, v
  <1>6. PICK k : Weighs(w, D, k) /\ Busy(l) = k[D]
    BY <1>1, <1>2, BusyWeighs
  <1>7. IsFiniteSet(S) /\ IsFiniteSet(D)
    BY <1>1, <1>2, NumbersWeigh
  <1>8. AtMost(h[S], k[D])
    BY <1>1, <1>3, <1>5, <1>6, <1>7, InjectLess
  <1>9. h[S] \in Nat /\ k[D] \in Nat
    BY <1>5, <1>6 DEF Weighs
  <1> QED BY <1>5, <1>6, <1>8, <1>9

Sums(a, b, c) == a = b + c

\* One frame more.
LEMMA AirtimeMore ==
  ASSUME NEW S, Numbers(S), NEW a, \A i \in S : a[i].frame.airtime \in Nat, NEW x, x \in S
  PROVE  Airtime(a, S \ {x}) \in Nat /\ Sums(Airtime(a, S), a[x].frame.airtime, Airtime(a, S \ {x}))
  <1> DEFINE w == Airtimes(a, S)
  <1>1. w[x] = a[x].frame.airtime
    BY DEF Airtimes
  <1> HIDE DEF w
  <1>2. PICK h : Totals(a, S, h)
    BY AirtimeWeighs
  <1>3. S \ {x} \in SUBSET S /\ S \in SUBSET S /\ S \ {x} \subseteq S /\ S \subseteq S
    OBVIOUS
  <1>4. h[S] = w[x] + h[S \ {x}] /\ h[S \ {x}] \in Nat
    <2>1. Weighs(w, S, h)
      BY <1>2 DEF Totals, w
    <2> QED BY <1>3, <2>1 DEF Weighs
  <1>5. Airtime(a, S) = h[S] /\ Airtime(a, S \ {x}) = h[S \ {x}]
    BY <1>2, <1>3 DEF Totals
  <1> QED BY <1>1, <1>4, <1>5 DEF Sums

-----------------------------------------------------------------------------
(* The gate: what the ledgers have of the frames charged. *)

\* The next charge's number is beyond all others
LEMMA NextNoBeyond ==
  ASSUME Numbers(DOMAIN air)
  PROVE  /\ NextNo \in Nat \ {0} /\ \A i \in DOMAIN air : i \in Nat /\ i < NextNo
         /\ Numbers(DOMAIN air \union {NextNo})
  <1> DEFINE S == {0} \union DOMAIN air
             U == {m \in Nat : \A y \in S : m >= y}
  <1>1. PICK n \in Nat : DOMAIN air \in SUBSET (1..n)
    BY DEF Numbers
  <1>2. n \in U /\ S \subseteq Nat
    BY <1>1
  <1>3. PICK m \in U : \A y \in U : m <= y
    <2>1. U \subseteq Nat /\ U # {}
      BY <1>2
    <2> HIDE DEF U
    <2> QED BY <2>1, LeastOf
  <1>4. m \in S
    <2>1. SUFFICES ASSUME m \notin S PROVE FALSE
      OBVIOUS
    <2>2. m \in Nat /\ m # 0
      BY <2>1
    <2>3. \A y \in S : y \in Nat /\ m >= y /\ m # y
      BY <1>2, <2>1
    <2>4. m - 1 \in Nat /\ ~(m <= m - 1)
      BY <2>2
    <2>5. \A y \in S : m - 1 >= y
      BY <2>2, <2>3
    <2> QED BY <1>3, <2>4, <2>5
  <1>5. Max(S) \in S /\ \A y \in S : Max(S) >= y
    <2>1. \E x \in S : \A y \in S : x >= y
      BY <1>3, <1>4
    <2> HIDE DEF S
    <2> QED BY <2>1 DEF Max
  <1>6. NextNo = Max(S) + 1
    BY DEF NextNo
  <1>7. Max(S) \in Nat
    BY <1>2, <1>5
  <1>8. \A i \in DOMAIN air : i \in Nat /\ i \in S /\ i \in 1..n
    BY <1>1
  <1> DEFINE M == Max(S)
  <1>9. M \in Nat /\ NextNo = M + 1 /\ \A i \in DOMAIN air : i \in Nat /\ M >= i /\ i >= 1
    BY <1>5, <1>6, <1>7, <1>8
  <1> HIDE DEF M, S, U
  <1>10. NextNo \in Nat \ {0} /\ \A i \in DOMAIN air : i \in Nat /\ i < NextNo
    BY <1>9
  <1>11. DOMAIN air \union {NextNo} \in SUBSET (1..NextNo)
    BY <1>9, <1>10
  <1> QED BY <1>10, <1>11 DEF Numbers

\* A ledger without its oldest samples: what is left, and that none is older
\* than the window in front.
LEMMA PruneFacts ==
  ASSUME NEW l, l \in Seq(Sample)
  PROVE  /\ Prune(l) \in Seq(Sample)
         /\ Prune(l) # <<>> => Prune(l)[1] \in Sample /\ Prune(l)[1].age <= Window
         /\ (\A i \in DOMAIN l : l[i].age > Window)
            \/ \E m \in 1..Len(l) : /\ Len(Prune(l)) = Len(l) - m + 1
                                    /\ \A i \in 1..Len(l) : l[i].age <= Window => i >= m
                                    /\ \A i \in m..Len(l) : Prune(l)[i - m + 1] = l[i]
  <1> DEFINE live == {i \in DOMAIN l : l[i].age <= Window}
  <1>0. DOMAIN l = 1..Len(l) /\ Len(l) \in Nat /\ \A i \in 1..Len(l) : l[i] \in Sample /\ l[i].age \in Nat
    <2>1. DOMAIN l = 1..Len(l) /\ Len(l) \in Nat /\ \A i \in 1..Len(l) : l[i] \in Sample
      OBVIOUS
    <2>2. \A x \in Sample : x.age \in Nat
      BY WindowAssumption DEF Sample, Ages
    <2> QED BY <2>1, <2>2
  <1>1. CASE live = {}
    <2>1. Prune(l) = <<>>
      BY <1>1 DEF Prune
    <2>2. \A i \in DOMAIN l : l[i].age > Window
      BY <1>0, <1>1, WindowAssumption
    <2> QED BY <2>1, <2>2
  <1>2. CASE live # {}
    <2> DEFINE m == Min(live)
    <2>1. Prune(l) = SubSeq(l, m, Len(l))
      BY <1>2 DEF Prune
    <2>2. m \in live /\ \A y \in live : m <= y
      <3>1. live \subseteq Nat
        BY <1>0
      <3>2. \E x \in live : \A y \in live : x <= y
        <4> HIDE DEF live
        <4> QED BY <1>2, <3>1, LeastOf
      <3> HIDE DEF live
      <3> QED BY <3>2 DEF Min
    <2>3. m \in 1..Len(l) /\ l[m].age <= Window
      BY <1>0, <2>2
    <2>4. \A i \in 1..Len(l) : l[i].age <= Window => i >= m
      BY <1>0, <2>2
    <2> HIDE DEF m, live
    <2>5. /\ Prune(l) \in Seq(Sample) /\ Len(Prune(l)) = Len(l) - m + 1
          /\ \A i \in 1..(Len(l) - m + 1) : Prune(l)[i] = l[m + i - 1]
      BY <1>0, <2>1, <2>3, SubSeqProperties
    <2>6. \A i \in m..Len(l) : Prune(l)[i - m + 1] = l[i]
      <3> TAKE i \in m..Len(l)
      <3> DEFINE j == i - m + 1
      <3>1. j \in 1..(Len(l) - m + 1) /\ m + j - 1 = i
        BY <1>0, <2>3
      <3> HIDE DEF j
      <3>2. Prune(l)[j] = l[i]
        BY <2>5, <3>1
      <3> QED BY <3>2 DEF j
    <2>7. Prune(l)[1] = l[m]
      <3>1. m \in m..Len(l) /\ m - m + 1 = 1
        BY <1>0, <2>3
      <3>2. Prune(l)[m - m + 1] = l[m]
        BY <2>6, <3>1
      <3> QED BY <3>1, <3>2
    <2>8. Prune(l)[1] \in Sample /\ Prune(l)[1].age <= Window
      BY <1>0, <2>3, <2>7
    <2> QED BY <2>3, <2>4, <2>5, <2>6, <2>8
  <1> QED BY <1>1, <1>2

\* What air says of a frame.
Entry == [by : Senders, frame : FrameType, keyed : (0..(Window - MaxHold)) \union {NotKeyed}]

\* A frame charged and not yet keyed is held.
AirTyped(a, p) ==
    /\ Numbers(DOMAIN a)
    /\ \A i \in DOMAIN a : a[i] \in Entry /\ (a[i].keyed = NotKeyed => p[a[i].by] = "held")

\* The frames a budget is about: all of them, or the relayed.
Class(a, r) == {i \in DOMAIN a : r => a[i].frame.relayed}

\* The age a frame's sample cannot exceed.
Oldest(x, sp) == IF x.keyed = NotKeyed THEN sp[x.by] ELSE x.keyed + MaxHold

\* Each of the frames has a sample of its own in the ledger, at g.
Backs(g, l, a, S, sp) ==
    /\ \A i \in S : /\ g[i] \in DOMAIN l /\ a[i].frame.airtime = l[g[i]].airtime
                    /\ l[g[i]].age <= Oldest(a[i], sp)
    /\ \A i, j \in S : g[i] = g[j] => i = j

\* Fits, of all the frames charged.
Within(a, S, budget) ==
    \A last \in {i \in S : ~a[i].frame.exempt} :
        LET upTo == {i \in S : i <= last}
        IN  Airtime(a, upTo) <= budget \/ upTo = {last}

\* Of every frame in S, sp says no more than in T and a the same.
Follows(b, T, bp, a, S, sp) ==
    /\ T \subseteq S
    /\ \A i \in T : b[i].frame = a[i].frame /\ Oldest(a[i], sp) <= Oldest(b[i], bp)
    /\ \A i \in T : Oldest(a[i], sp) \in Nat /\ Oldest(b[i], bp) \in Nat

Live(a, S, sp) == \A i \in S : Oldest(a[i], sp) \in Nat /\ Oldest(a[i], sp) <= Window

\* Of a ledger: its positions, and what a sample holds.
LEMMA SampleFacts ==
  ASSUME NEW l, l \in Seq(Sample)
  PROVE  /\ Len(l) \in Nat /\ DOMAIN l = 1..Len(l) /\ Numbers(DOMAIN l)
         /\ \A i \in DOMAIN l : l[i] \in Sample /\ l[i].age \in Nat /\ l[i].airtime \in Nat
  <1>1. DOMAIN l = 1..Len(l) /\ Len(l) \in Nat /\ \A i \in 1..Len(l) : l[i] \in Sample
    OBVIOUS
  <1>2. \A x \in Sample : x.age \in Nat /\ x.airtime \in Nat
    BY WindowAssumption DEF Sample, Ages
  <1>3. Numbers(1..Len(l))
    BY <1>1 DEF Numbers
  <1> QED BY <1>1, <1>2, <1>3

\* The samples serve fewer frames that may be older.
LEMMA BacksFollows ==
  ASSUME NEW l, l \in Seq(Sample), NEW a, NEW S, NEW sp, NEW g, Backs(g, l, a, S, sp),
         NEW b, NEW T, NEW bp, Follows(b, T, bp, a, S, sp)
  PROVE  Backs(g, l, b, T, bp)
  <1>1. \A i \in DOMAIN l : l[i].age \in Nat
    BY SampleFacts
  <1>2. ASSUME NEW i \in T
        PROVE  /\ g[i] \in DOMAIN l /\ b[i].frame.airtime = l[g[i]].airtime
               /\ l[g[i]].age <= Oldest(b[i], bp)
    <2>1. i \in S /\ b[i].frame = a[i].frame /\ Oldest(a[i], sp) <= Oldest(b[i], bp)
          /\ Oldest(a[i], sp) \in Nat /\ Oldest(b[i], bp) \in Nat
      BY DEF Follows
    <2>2. g[i] \in DOMAIN l /\ a[i].frame.airtime = l[g[i]].airtime /\ l[g[i]].age <= Oldest(a[i], sp)
      BY <2>1 DEF Backs
    <2>3. l[g[i]].age \in Nat
      BY <1>1, <2>2
    <2> QED BY <2>1, <2>2, <2>3
  <1>3. \A i, j \in T : g[i] = g[j] => i = j
    BY DEF Backs, Follows
  <1> QED BY <1>2, <1>3 DEF Backs

\* They are all there after pruning.
LEMMA BacksPruned ==
  ASSUME NEW l, l \in Seq(Sample), NEW a, NEW S, NEW sp, NEW g, Backs(g, l, a, S, sp), Live(a, S, sp)
  PROVE  \E k : Backs(k, Prune(l), a, S, sp)
  <1>1. Len(l) \in Nat /\ DOMAIN l = 1..Len(l) /\ \A i \in DOMAIN l : l[i].age \in Nat
    BY SampleFacts
  <1>2. \A i \in S : /\ g[i] \in 1..Len(l) /\ l[g[i]].age \in Nat /\ l[g[i]].age <= Window
                     /\ a[i].frame.airtime = l[g[i]].airtime /\ l[g[i]].age <= Oldest(a[i], sp)
    <2> TAKE i \in S
    <2>1. g[i] \in DOMAIN l /\ a[i].frame.airtime = l[g[i]].airtime /\ l[g[i]].age <= Oldest(a[i], sp)
      BY DEF Backs
    <2>2. Oldest(a[i], sp) \in Nat /\ Oldest(a[i], sp) <= Window
      BY DEF Live
    <2> QED BY <1>1, <2>1, <2>2, WindowAssumption
  <1>3. CASE S = {}
    BY <1>3 DEF Backs
  <1>4. CASE S # {}
    <2>1. ~\A i \in DOMAIN l : l[i].age > Window
      <3>1. PICK i \in S : TRUE
        BY <1>4
      <3> QED BY <1>1, <1>2, <3>1, WindowAssumption
    <2>2. PICK m \in 1..Len(l) : /\ Len(Prune(l)) = Len(l) - m + 1
                                 /\ \A i \in 1..Len(l) : l[i].age <= Window => i >= m
                                 /\ \A i \in m..Len(l) : Prune(l)[i - m + 1] = l[i]
      BY <2>1, PruneFacts
    <2> DEFINE k == [i \in S |-> g[i] - m + 1]
    <2>3. Prune(l) \in Seq(Sample)
      BY PruneFacts
    <2>4. DOMAIN Prune(l) = 1..(Len(l) - m + 1)
      BY <2>2, <2>3
    <2>5. ASSUME NEW i \in S
          PROVE  /\ k[i] \in DOMAIN Prune(l) /\ a[i].frame.airtime = Prune(l)[k[i]].airtime
                 /\ Prune(l)[k[i]].age <= Oldest(a[i], sp)
      <3>1. g[i] \in m..Len(l) /\ k[i] = g[i] - m + 1
        BY <1>1, <1>2, <2>2
      <3>2. k[i] \in 1..(Len(l) - m + 1)
        BY <1>1, <3>1
      <3>3. Prune(l)[g[i] - m + 1] = l[g[i]]
        BY <2>2, <3>1
      <3> HIDE DEF k
      <3>4. Prune(l)[k[i]] = l[g[i]]
        BY <3>1, <3>3
      <3> QED BY <1>2, <2>4, <3>2, <3>4
    <2>6. ASSUME NEW i \in S, NEW j \in S, k[i] = k[j] PROVE i = j
      <3>1. g[i] \in 1..Len(l) /\ g[j] \in 1..Len(l) /\ g[i] - m + 1 = g[j] - m + 1
        BY <1>2, <2>6
      <3>2. g[i] = g[j]
        BY <1>1, <3>1
      <3> QED BY <3>2 DEF Backs
    <2> HIDE DEF k
    <2>7. Backs(k, Prune(l), a, S, sp)
      BY <2>5, <2>6 DEF Backs
    <2> QED BY <2>7
  <1> QED BY <1>3, <1>4

\* The frame numbered n is charged: its sample comes last.
LEMMA BacksAppended ==
  ASSUME NEW l, l \in Seq(Sample), NEW a, NEW S, NEW sp, NEW g, Backs(g, l, a, S, sp),
         NEW n, n \notin S, NEW x \in Sample, x.age = 0,
         NEW b, b[n].frame.airtime = x.airtime,
         NEW bp, Follows(b, S, bp, a, S, sp), Oldest(b[n], bp) \in Nat
  PROVE  \E k : Backs(k, Append(l, x), b, S \union {n}, bp)
  <1> DEFINE L == Append(l, x)
             k == [i \in S \union {n} |-> IF i = n THEN Len(l) + 1 ELSE g[i]]
  <1>1. Len(l) \in Nat /\ DOMAIN l = 1..Len(l) /\ \A i \in DOMAIN l : l[i].age \in Nat
    BY SampleFacts
  <1>2. DOMAIN L = 1..(Len(l) + 1) /\ L[Len(l) + 1] = x /\ \A i \in 1..Len(l) : L[i] = l[i]
    BY <1>1
  <1>3. Backs(g, l, b, S, bp)
    BY BacksFollows
  <1> HIDE DEF L
  <1>4. ASSUME NEW i \in S \union {n}
        PROVE  /\ k[i] \in DOMAIN L /\ b[i].frame.airtime = L[k[i]].airtime
               /\ L[k[i]].age <= Oldest(b[i], bp)
    <2>1. CASE i = n
      <3>1. k[i] = Len(l) + 1 /\ Len(l) + 1 \in 1..(Len(l) + 1)
        BY <1>1, <2>1
      <3> HIDE DEF k
      <3> QED BY <1>2, <2>1, <3>1
    <2>2. CASE i # n
      <3>1. k[i] = g[i] /\ i \in S
        BY <2>2
      <3>2. g[i] \in DOMAIN l /\ b[i].frame.airtime = l[g[i]].airtime /\ l[g[i]].age <= Oldest(b[i], bp)
        BY <1>3, <3>1 DEF Backs
      <3>3. L[g[i]] = l[g[i]] /\ g[i] \in DOMAIN L
        BY <1>1, <1>2, <3>2
      <3> HIDE DEF k
      <3> QED BY <3>1, <3>2, <3>3
    <2> QED BY <2>1, <2>2
  <1>5. ASSUME NEW i \in S \union {n}, NEW j \in S \union {n}, k[i] = k[j] PROVE i = j
    <2>1. \A z \in S : z # n /\ k[z] = g[z] /\ g[z] \in 1..Len(l) /\ g[z] # Len(l) + 1
      <3> TAKE z \in S
      <3>1. z # n /\ k[z] = g[z]
        OBVIOUS
      <3>2. g[z] \in 1..Len(l)
        BY <1>1 DEF Backs
      <3> QED BY <1>1, <3>1, <3>2
    <2>2. k[n] = Len(l) + 1
      OBVIOUS
    <2> HIDE DEF k
    <2>3. CASE i \in S /\ j \in S
      BY <1>5, <2>1, <2>3 DEF Backs
    <2>4. CASE ~(i \in S /\ j \in S)
      BY <1>5, <2>1, <2>2, <2>4
    <2> QED BY <2>3, <2>4
  <1> HIDE DEF k
  <1>6. Backs(k, L, b, S \union {n}, bp)
    BY <1>4, <1>5 DEF Backs
  <1> QED BY <1>6 DEF L

AirFrames(a, S) == Numbers(S) /\ \A i \in S : a[i].frame \in FrameType

\* Fewer frames fit the better.
LEMMA WithinFollows ==
  ASSUME NEW a, NEW S, AirFrames(a, S), NEW budget, budget \in Nat, Within(a, S, budget),
         NEW b, NEW T, T \subseteq S, \A i \in T : b[i].frame = a[i].frame
  PROVE  Within(b, T, budget)
  <1> SUFFICES ASSUME NEW last \in {i \in T : ~b[i].frame.exempt}
               PROVE  Airtime(b, {i \in T : i <= last}) <= budget \/ {i \in T : i <= last} = {last}
    BY DEF Within
  <1> DEFINE P == {i \in S : i <= last}
             Q == {i \in T : i <= last}
  <1>1. last \in {i \in S : ~a[i].frame.exempt} /\ last \in Q /\ Q \subseteq P
    <2>1. last \in T /\ last \in S /\ b[last].frame = a[last].frame /\ ~b[last].frame.exempt
      OBVIOUS
    <2>2. last \in Nat
      BY <2>1 DEF AirFrames, Numbers
    <2>3. last <= last
      BY <2>2
    <2> QED BY <2>1, <2>3
  <1>2. Airtime(a, P) <= budget \/ P = {last}
    BY <1>1 DEF Within
  <1>3. CASE P = {last}
    BY <1>1, <1>3
  <1>4. CASE Airtime(a, P) <= budget
    <2>1. Numbers(P) /\ \A i \in P : a[i].frame.airtime \in Nat
      <3>1. P \subseteq S
        OBVIOUS
      <3>2. \A f \in FrameType : f.airtime \in Nat
        BY DEF FrameType
      <3> HIDE DEF P
      <3> QED BY <3>1, <3>2 DEF AirFrames, Numbers
    <2>2. \A i \in Q : b[i].frame = a[i].frame
      OBVIOUS
    <2> HIDE DEF P, Q
    <2>3. Airtime(b, Q) \in Nat /\ Airtime(a, P) \in Nat /\ AtMost(Airtime(b, Q), Airtime(a, P))
      BY <1>1, <2>1, <2>2, AirtimeLess
    <2>4. Airtime(b, Q) <= budget
      BY <1>4, <2>3 DEF AtMost
    <2> QED BY <2>4 DEF Q
  <1> QED BY <1>2, <1>3, <1>4

\* The frame numbered n is charged, beyond the others: exempt, or with room in
\* the ledger that has a sample of each of them.
LEMMA WithinCharged ==
  ASSUME NEW a, NEW S, AirFrames(a, S), NEW budget, budget \in Nat, Within(a, S, budget),
         NEW b, \A i \in S : b[i].frame = a[i].frame,
         NEW n, n \in Nat, \A i \in S : i < n, b[n].frame \in FrameType,
         Numbers(S \union {n}),
         NEW l, l \in Seq(Sample), NEW g, NEW sp, Backs(g, l, a, S, sp),
         b[n].frame.exempt \/ ~Full(l, b[n].frame.airtime, budget)
  PROVE  Within(b, S \union {n}, budget)
  <1> DEFINE T == S \union {n}
  <1>0. \A i \in S : i \in Nat
    BY DEF AirFrames, Numbers
  <1> SUFFICES ASSUME NEW last \in {i \in T : ~b[i].frame.exempt}
               PROVE  Airtime(b, {i \in T : i <= last}) <= budget \/ {i \in T : i <= last} = {last}
    BY DEF Within
  <1>1. CASE last \in S
    <2>1. {i \in T : i <= last} = {i \in S : i <= last}
      <3>1. ~(n <= last)
        BY <1>0, <1>1
      <3> QED BY <3>1
    <2>2. Within(b, S, budget)
      BY WithinFollows
    <2>3. Airtime(b, {i \in S : i <= last}) <= budget \/ {i \in S : i <= last} = {last}
      BY <1>1, <2>2 DEF Within
    <2> QED BY <2>1, <2>3
  <1>2. CASE last \notin S
    <2>1. last = n /\ ~b[n].frame.exempt /\ {i \in T : i <= n} = T
      BY <1>0, <1>2
    <2>2. CASE S = {}
      BY <2>1, <2>2
    <2>3. CASE S # {}
      <3>1. l # <<>>
        <4>1. PICK i \in S : TRUE
          BY <2>3
        <4>2. g[i] \in DOMAIN l
          BY <4>1 DEF Backs
        <4> QED BY <4>2
      <3>2. ~(Busy(l) + b[n].frame.airtime > budget)
        BY <2>1, <3>1 DEF Full
      <3>3. Numbers(S) /\ \A i \in S : a[i].frame.airtime \in Nat
        BY DEF AirFrames, FrameType
      <3>4. b[n].frame.airtime \in Nat /\ \A i \in T : b[i].frame.airtime \in Nat
        BY DEF AirFrames, FrameType
      <3>5. Airtime(a, S) \in Nat /\ Busy(l) \in Nat /\ AtMost(Airtime(a, S), Busy(l))
        <4>1. Numbers(DOMAIN l) /\ \A i \in DOMAIN l : l[i].airtime \in Nat
          BY SampleFacts
        <4>2. /\ \A i \in S : g[i] \in DOMAIN l /\ a[i].frame.airtime = l[g[i]].airtime
              /\ \A i, j \in S : g[i] = g[j] => i = j
          BY DEF Backs
        <4> QED BY <3>3, <4>1, <4>2, AirtimeBusy
      <3>6. Airtime(b, S) \in Nat /\ AtMost(Airtime(b, S), Airtime(a, S))
        <4>1. S \subseteq S
          OBVIOUS
        <4> QED BY <3>3, <4>1, AirtimeLess
      <3>7. n \in T /\ T \ {n} = S /\ Numbers(T)
        BY <1>2, <2>1
      <3> HIDE DEF T
      <3>8. Sums(Airtime(b, T), b[n].frame.airtime, Airtime(b, T \ {n}))
        BY <3>4, <3>7, AirtimeMore
      <3>9. Airtime(b, T) = b[n].frame.airtime + Airtime(b, S)
        BY <3>7, <3>8 DEF Sums
      <3>10. Airtime(b, S) <= Airtime(a, S) /\ Airtime(a, S) <= Busy(l)
        BY <3>5, <3>6 DEF AtMost
      <3>11. Airtime(b, T) <= budget
        BY <3>2, <3>4, <3>5, <3>6, <3>9, <3>10
      <3> QED BY <2>1, <3>11 DEF T
    <2> QED BY <2>2, <2>3
  <1> QED BY <1>1, <1>2

Budget(r) == IF r THEN RelayedBudget ELSE TotalBudget

\* The frames of a class have a sample each in its ledger, and fit its budget.
Safe(l, a, sp, r) ==
    /\ \E g : Backs(g, l, a, Class(a, r), sp)
    /\ Within(a, Class(a, r), Budget(r))

\* A class's frames are numbered and typed.
LEMMA ClassFrames ==
  ASSUME NEW a, NEW p, AirTyped(a, p), NEW r
  PROVE  AirFrames(a, Class(a, r)) /\ Class(a, r) \subseteq DOMAIN a
  <1>1. Class(a, r) \subseteq DOMAIN a
    BY DEF Class
  <1>2. Numbers(Class(a, r))
    BY <1>1 DEF AirTyped, Numbers
  <1>3. \A i \in DOMAIN a : a[i].frame \in FrameType
    BY DEF AirTyped, Entry
  <1> QED BY <1>1, <1>2, <1>3 DEF AirFrames

\* A budget is a number.
LEMMA BudgetNat ==
  ASSUME NEW r \in BOOLEAN
  PROVE  Budget(r) \in Nat
  BY BudgetAssumption DEF Budget

\* A class is safe when frames are forgotten or keyed.
LEMMA SafeKept ==
  ASSUME NEW l, l \in Seq(Sample), NEW a, NEW p, AirTyped(a, p), NEW sp, NEW r \in BOOLEAN, Safe(l, a, sp, r),
         NEW b, NEW bp, Follows(b, DOMAIN b, bp, a, DOMAIN a, sp)
  PROVE  Safe(l, b, bp, r)
  <1> DEFINE S == Class(a, r)
             T == Class(b, r)
  <1>1. T \subseteq S /\ \A i \in T : b[i].frame = a[i].frame
    BY DEF Follows, Class
  <1>2. Follows(b, T, bp, a, S, sp)
    <2>1. T \subseteq DOMAIN b
      BY DEF Class
    <2> QED BY <1>1, <2>1 DEF Follows
  <1>3. AirFrames(a, S) /\ Budget(r) \in Nat
    BY ClassFrames, BudgetNat
  <1>4. PICK g : Backs(g, l, a, S, sp)
    BY DEF Safe
  <1>5. Within(a, S, Budget(r))
    BY DEF Safe
  <1> HIDE DEF S, T
  <1>6. Backs(g, l, b, T, bp)
    BY <1>2, <1>4, BacksFollows
  <1>7. Within(b, T, Budget(r))
    BY <1>1, <1>3, <1>5, WithinFollows
  <1> QED BY <1>6, <1>7 DEF Safe, T

\* So it is when its ledger is pruned.
LEMMA SafePruned ==
  ASSUME NEW l, l \in Seq(Sample), NEW a, NEW sp, NEW r, Safe(l, a, sp, r), Live(a, DOMAIN a, sp)
  PROVE  Prune(l) \in Seq(Sample) /\ Safe(Prune(l), a, sp, r)
  <1> DEFINE S == Class(a, r)
  <1>1. Live(a, S, sp)
    BY DEF Live, Class
  <1>2. PICK g : Backs(g, l, a, S, sp)
    BY DEF Safe
  <1> HIDE DEF S
  <1>3. \E k : Backs(k, Prune(l), a, S, sp)
    BY <1>1, <1>2, BacksPruned
  <1>4. Prune(l) \in Seq(Sample)
    BY PruneFacts
  <1> QED BY <1>3, <1>4 DEF Safe, S

\* So it is when a frame is charged that the ledger has room for.
LEMMA SafeCharged ==
  ASSUME NEW l, l \in Seq(Sample), NEW a, NEW p, AirTyped(a, p), NEW sp, NEW r \in BOOLEAN, Safe(l, a, sp, r),
         NEW b, NEW bp, Follows(b, DOMAIN a, bp, a, DOMAIN a, sp),
         NEW n, n \in Nat, \A i \in DOMAIN a : i < n, DOMAIN b = DOMAIN a \union {n}, Numbers(DOMAIN b),
         b[n].frame \in FrameType, Oldest(b[n], bp) \in Nat, r => b[n].frame.relayed,
         b[n].frame.exempt \/ ~Full(l, b[n].frame.airtime, Budget(r)),
         NEW x \in Sample, x = [age |-> 0, airtime |-> b[n].frame.airtime]
  PROVE  Safe(Append(l, x), b, bp, r)
  <1> DEFINE S == Class(a, r)
             T == Class(b, r)
             B == Budget(r)
  <1>1. (\A i \in S : b[i].frame = a[i].frame) /\ S \subseteq DOMAIN a
    BY DEF Follows, Class
  <1>2. T = S \union {n}
    <2>1. \A i \in DOMAIN a : b[i].frame = a[i].frame
      BY DEF Follows
    <2> QED BY <2>1 DEF Class
  <1>3. Follows(b, S, bp, a, S, sp)
    BY <1>1 DEF Follows
  <1>4. n \notin S /\ \A i \in S : i < n
    <2>1. ~(n < n)
      OBVIOUS
    <2> QED BY <1>1, <2>1
  <1>5. AirFrames(a, S) /\ B \in Nat
    BY ClassFrames, BudgetNat
  <1>6. PICK g : Backs(g, l, a, S, sp)
    BY DEF Safe
  <1>7. Within(a, S, B)
    BY DEF Safe
  <1>8. Numbers(S \union {n})
    BY <1>1 DEF Numbers
  <1>9. b[n].frame.exempt \/ ~Full(l, b[n].frame.airtime, B)
    OBVIOUS
  <1>10. x.age = 0 /\ b[n].frame.airtime = x.airtime
    OBVIOUS
  <1> HIDE DEF S, T, B
  <1>11. \E k : Backs(k, Append(l, x), b, S \union {n}, bp)
    BY <1>3, <1>4, <1>6, <1>10, BacksAppended
  <1>12. Within(b, S \union {n}, B)
    BY <1>1, <1>4, <1>5, <1>6, <1>7, <1>8, <1>9, WithinCharged
  <1> QED BY <1>2, <1>11, <1>12 DEF Safe, T, B

\* The clock: a sample ages with its frame.
LEMMA SafeOlder ==
  ASSUME NEW l, l \in Seq(Sample), NEW a, NEW p, AirTyped(a, p), NEW sp, NEW r \in BOOLEAN, Safe(l, a, sp, r),
         Live(a, DOMAIN a, sp), NEW b, NEW bp, DOMAIN b \subseteq DOMAIN a,
         \A i \in DOMAIN b : b[i].frame = a[i].frame /\ Oldest(b[i], bp) = Oldest(a[i], sp) + 1
  PROVE  Older(l) \in Seq(Sample) /\ Safe(Older(l), b, bp, r)
  <1> DEFINE S == Class(a, r)
             T == Class(b, r)
  <1>1. T \subseteq S /\ T \subseteq DOMAIN b /\ (\A i \in T : b[i].frame = a[i].frame) /\ S \subseteq DOMAIN a
    BY DEF Class
  <1>2. AirFrames(a, S) /\ Budget(r) \in Nat
    BY ClassFrames, BudgetNat
  <1>3. PICK g : Backs(g, l, a, S, sp)
    BY DEF Safe
  <1>4. Within(a, S, Budget(r))
    BY DEF Safe
  <1>5. Len(l) \in Nat /\ DOMAIN l = 1..Len(l) /\ \A i \in DOMAIN l : l[i] \in Sample /\ l[i].age \in Nat
    BY SampleFacts
  <1>6. ASSUME NEW i \in DOMAIN l
        PROVE  /\ Older(l)[i] \in Sample /\ Older(l)[i].airtime = l[i].airtime
               /\ l[i].age <= Window => Older(l)[i].age = l[i].age + 1
    <2>1. l[i] \in Sample /\ Older(l)[i] = [l[i] EXCEPT !.age = IF @ <= Window THEN @ + 1 ELSE @]
      BY <1>5 DEF Older
    <2>2. l[i] = [age |-> l[i].age, airtime |-> l[i].airtime] /\ l[i].age \in 0..(Window + 1)
          /\ l[i].airtime \in Nat \ {0}
      BY <2>1 DEF Sample, Ages
    <2>3. Older(l)[i] = [age |-> IF l[i].age <= Window THEN l[i].age + 1 ELSE l[i].age, airtime |-> l[i].airtime]
      BY <2>1, <2>2
    <2>4. (IF l[i].age <= Window THEN l[i].age + 1 ELSE l[i].age) \in 0..(Window + 1)
      BY <2>2, WindowAssumption
    <2> QED BY <2>2, <2>3, <2>4 DEF Sample, Ages
  <1>7. DOMAIN Older(l) = DOMAIN l /\ Older(l) \in Seq(Sample)
    <2>1. DOMAIN Older(l) = DOMAIN l /\ Older(l) = [i \in DOMAIN l |-> Older(l)[i]]
      BY DEF Older
    <2> HIDE DEF S, T
    <2>2. Older(l) \in [1..Len(l) -> Sample]
      BY <1>5, <1>6, <2>1
    <2> QED BY <1>5, <2>1, <2>2
  <1> HIDE DEF S, T
  <1>8. Backs(g, Older(l), b, T, bp)
    <2>1. ASSUME NEW i \in T
          PROVE  /\ g[i] \in DOMAIN Older(l) /\ b[i].frame.airtime = Older(l)[g[i]].airtime
                 /\ Older(l)[g[i]].age <= Oldest(b[i], bp)
      <3>1. i \in S /\ i \in DOMAIN a /\ b[i].frame = a[i].frame /\ Oldest(b[i], bp) = Oldest(a[i], sp) + 1
        BY <1>1
      <3>2. g[i] \in DOMAIN l /\ a[i].frame.airtime = l[g[i]].airtime /\ l[g[i]].age <= Oldest(a[i], sp)
        BY <1>3, <3>1 DEF Backs
      <3>3. Oldest(a[i], sp) \in Nat /\ Oldest(a[i], sp) <= Window
        BY <3>1 DEF Live
      <3>4. l[g[i]].age \in Nat /\ l[g[i]].age <= Window
        BY <1>5, <3>2, <3>3, WindowAssumption
      <3>5. Older(l)[g[i]].airtime = l[g[i]].airtime /\ Older(l)[g[i]].age = l[g[i]].age + 1
        BY <1>6, <3>2, <3>4
      <3> QED BY <1>7, <3>1, <3>2, <3>3, <3>4, <3>5
    <2>2. \A i, j \in T : g[i] = g[j] => i = j
      BY <1>1, <1>3 DEF Backs
    <2> QED BY <2>1, <2>2 DEF Backs
  <1>9. Within(b, T, Budget(r))
    BY <1>1, <1>2, <1>4, WithinFollows
  <1> QED BY <1>7, <1>8, <1>9 DEF Safe, T

-----------------------------------------------------------------------------
(* The gate: the invariant, and what each step does to it. *)

\* What GateTypeOK says of a sender.
At(s, at, f, wait, since) ==
    /\ at \in {"idle", "quiet", "waiting", "held"}
    /\ f \in IF at = "idle" THEN {NoFrame} ELSE Frames[s]
    /\ wait \in CASE at = "idle" -> {0} [] at = "quiet" -> 0..QuietWindow
                  [] at = "waiting" -> 0..Window [] at = "held" -> 0..MaxHold
    /\ since \in CASE at = "quiet" -> 0..QuietMax [] at = "held" -> 0..MaxHold [] OTHER -> {0}

Maps(f) == f = [s \in Senders |-> f[s]]

Standing ==
    /\ Maps(pc) /\ Maps(frame) /\ Maps(due) /\ Maps(spent)
    /\ \A s \in Senders : At(s, pc[s], frame[s], due[s], spent[s])

Clocks == quietFor \in 0..QuietWindow /\ busyFor \in 0..MaxHold /\ left \in 0..MaxFrames

Ledgers == samples \in Seq(Sample) /\ relayed \in Seq(Sample)

Covered == Safe(samples, air, spent, FALSE) /\ Safe(relayed, air, spent, TRUE)

GateInv == Standing /\ Clocks /\ Ledgers /\ AirTyped(air, pc) /\ Covered

\* A sender moves within the types.
LEMMA StandsKeeps ==
  ASSUME Standing, NEW s \in Senders, NEW at, NEW f, NEW wait, NEW since,
         At(s, at, f, wait, since), Stands(s, f, at, wait, since)
  PROVE  Standing'
  <1>1. \A x \in Senders : /\ pc'[x] = IF x = s THEN at ELSE pc[x]
                           /\ frame'[x] = IF x = s THEN f ELSE frame[x]
                           /\ due'[x] = IF x = s THEN wait ELSE due[x]
                           /\ spent'[x] = IF x = s THEN since ELSE spent[x]
    BY DEF Standing, Maps, Stands
  <1>2. Maps(pc') /\ Maps(frame') /\ Maps(due') /\ Maps(spent')
    BY DEF Standing, Maps, Stands
  <1>3. ASSUME NEW x \in Senders PROVE At(x, pc'[x], frame'[x], due'[x], spent'[x])
    <2>1. CASE x = s
      BY <1>1, <2>1
    <2>2. CASE x # s
      BY <1>1, <2>2 DEF Standing
    <2> QED BY <2>1, <2>2
  <1> QED BY <1>2, <1>3 DEF Standing

\* No sample of a frame charged is out of the window.
LEMMA AirLive ==
  ASSUME Standing, AirTyped(air, pc)
  PROVE  Live(air, DOMAIN air, spent)
  <1> SUFFICES ASSUME NEW i \in DOMAIN air
               PROVE  Oldest(air[i], spent) \in Nat /\ Oldest(air[i], spent) <= Window
    BY DEF Live
  <1>1. air[i] \in Entry /\ (air[i].keyed = NotKeyed => pc[air[i].by] = "held")
    BY DEF AirTyped
  <1>2. air[i].by \in Senders /\ air[i].keyed \in (0..(Window - MaxHold)) \union {NotKeyed}
    BY <1>1 DEF Entry
  <1>3. CASE air[i].keyed = NotKeyed
    <2>1. spent[air[i].by] \in 0..MaxHold
      BY <1>1, <1>2, <1>3 DEF Standing, At
    <2> QED BY <1>3, <2>1, WindowAssumption DEF Oldest
  <1>4. CASE air[i].keyed # NotKeyed
    <2>1. air[i].keyed \in 0..(Window - MaxHold)
      BY <1>2, <1>4
    <2>2. air[i].keyed + MaxHold \in Nat /\ air[i].keyed + MaxHold <= Window
      BY <2>1, WindowAssumption
    <2> QED BY <1>4, <2>2 DEF Oldest
  <1> QED BY <1>3, <1>4

\* A sender that holds nothing moves: the frames charged are as they were.
LEMMA AirUnmoved ==
  ASSUME Standing, AirTyped(air, pc), NEW s \in Senders, pc[s] # "held",
         NEW at, NEW f, NEW wait, NEW since, Stands(s, f, at, wait, since)
  PROVE  /\ Follows(air, DOMAIN air, spent', air, DOMAIN air, spent)
         /\ \A i \in DOMAIN air : air[i].keyed = NotKeyed => pc'[air[i].by] = "held"
  <1>1. ASSUME NEW i \in DOMAIN air
        PROVE  /\ Oldest(air[i], spent') = Oldest(air[i], spent) /\ Oldest(air[i], spent) \in Nat
               /\ air[i].keyed = NotKeyed => pc'[air[i].by] = "held"
    <2>1. air[i].by \in Senders /\ (air[i].keyed = NotKeyed => pc[air[i].by] = "held")
      BY DEF AirTyped, Entry
    <2>2. Oldest(air[i], spent) \in Nat
      BY AirLive DEF Live
    <2>3. air[i].by # s => spent'[air[i].by] = spent[air[i].by] /\ pc'[air[i].by] = pc[air[i].by]
      BY <2>1 DEF Standing, Maps, Stands
    <2> QED BY <2>1, <2>2, <2>3 DEF Oldest
  <1>2. \A i \in DOMAIN air : Oldest(air[i], spent) <= Oldest(air[i], spent')
    BY <1>1
  <1> QED BY <1>1, <1>2 DEF Follows

\* It sleeps, with the ledgers pruned or as they were.
LEMMA StandsSafe ==
  ASSUME GateInv, NEW s \in Senders, pc[s] # "held",
         NEW at, NEW f, NEW wait, NEW since, At(s, at, f, wait, since), Stands(s, f, at, wait, since),
         air' = air, samples' \in {samples, Prune(samples)}, relayed' \in {relayed, Prune(relayed)}
  PROVE  Standing' /\ Ledgers' /\ AirTyped(air, pc)' /\ Covered'
  <1> USE DEF GateInv
  <1>1. Standing'
    BY StandsKeeps
  <1>2. /\ Follows(air, DOMAIN air, spent', air, DOMAIN air, spent)
        /\ \A i \in DOMAIN air : air[i].keyed = NotKeyed => pc'[air[i].by] = "held"
    BY AirUnmoved
  <1>3. Live(air, DOMAIN air, spent)
    BY AirLive
  <1>4. Ledgers' /\ Safe(samples', air, spent, FALSE) /\ Safe(relayed', air, spent, TRUE)
    <2>1. /\ Prune(samples) \in Seq(Sample) /\ Safe(Prune(samples), air, spent, FALSE)
          /\ Prune(relayed) \in Seq(Sample) /\ Safe(Prune(relayed), air, spent, TRUE)
      BY <1>3, SafePruned DEF Ledgers, Covered
    <2> QED BY <2>1 DEF Ledgers, Covered
  <1>5. AirTyped(air, pc)'
    BY <1>2 DEF AirTyped
  <1>6. Safe(samples', air, spent', FALSE) /\ Safe(relayed', air, spent', TRUE)
    <2>1. samples' \in Seq(Sample) /\ relayed' \in Seq(Sample) /\ FALSE \in BOOLEAN /\ TRUE \in BOOLEAN
      BY <1>4 DEF Ledgers
    <2>2. AirTyped(air, pc)
      OBVIOUS
    <2> QED BY <1>2, <1>4, <2>1, <2>2, SafeKept
  <1> QED BY <1>1, <1>4, <1>5, <1>6 DEF Covered

\* It is charged a frame its ledgers have room for, or a handshake's.
LEMMA ChargeSafe ==
  ASSUME GateInv, NEW s \in Senders, pc[s] # "held", NEW f \in Frames[s],
         NEW all \in Seq(Sample), NEW rel \in Seq(Sample),
         Safe(all, air, spent, FALSE), Safe(rel, air, spent, TRUE),
         f.exempt \/ ~Full(all, f.airtime, TotalBudget),
         f.relayed => f.exempt \/ ~Full(rel, f.airtime, RelayedBudget),
         Charge(s, f, all, rel)
  PROVE  Standing' /\ Ledgers' /\ AirTyped(air, pc)' /\ Covered'
  <1> DEFINE n == NextNo
             x == [age |-> 0, airtime |-> f.airtime]
  <1>1. Stands(s, f, "held", Lesser(busyFor, MaxHold), 0)
    BY DEF Charge
  <1>2. Standing'
    <2>1. Lesser(busyFor, MaxHold) \in 0..MaxHold /\ 0 \in 0..MaxHold
      BY WindowAssumption DEF GateInv, Clocks, Lesser
    <2>2. At(s, "held", f, Lesser(busyFor, MaxHold), 0)
      BY <2>1 DEF At
    <2>3. Standing
      BY DEF GateInv
    <2> QED BY <1>1, <2>2, <2>3, StandsKeeps
  <1>3. /\ Follows(air, DOMAIN air, spent', air, DOMAIN air, spent)
        /\ \A i \in DOMAIN air : air[i].keyed = NotKeyed => pc'[air[i].by] = "held"
    BY <1>1, AirUnmoved DEF GateInv
  <1>4. /\ n \in Nat \ {0} /\ \A i \in DOMAIN air : i \in Nat /\ i < n
        /\ Numbers(DOMAIN air \union {n})
    BY NextNoBeyond DEF GateInv, AirTyped
  <1>5. /\ DOMAIN air' = DOMAIN air \union {n} /\ air'[n] = [by |-> s, frame |-> f, keyed |-> NotKeyed]
        /\ \A i \in DOMAIN air : air'[i] = air[i]
    <2>1. air' = [i \in DOMAIN air \union {n} |->
                     IF i = n THEN [by |-> s, frame |-> f, keyed |-> NotKeyed] ELSE air[i]]
      BY DEF Charge
    <2>2. n \notin DOMAIN air
      <3>1. ~(n < n)
        BY <1>4
      <3> QED BY <1>4, <3>1
    <2> HIDE DEF n
    <2> QED BY <2>1, <2>2
  <1>6. f \in FrameType /\ f.airtime \in Nat \ {0}
    BY FramesAssumption DEF FrameType
  <1>7. pc'[s] = "held" /\ spent'[s] = 0
    BY <1>1 DEF Stands, GateInv, Standing, Maps
  <1> HIDE DEF n
  <1>8. AirTyped(air, pc)'
    <2>1. air'[n] \in Entry /\ air'[n].by = s
      BY <1>5, <1>6 DEF Entry
    <2>2. \A i \in DOMAIN air : air[i] \in Entry
      BY DEF GateInv, AirTyped
    <2> QED BY <1>3, <1>4, <1>5, <1>7, <2>1, <2>2 DEF AirTyped
  <1>9. air'[n].frame = f /\ Oldest(air'[n], spent') = 0
    BY <1>5, <1>7 DEF Oldest
  <1>10. Follows(air', DOMAIN air, spent', air, DOMAIN air, spent)
    BY <1>3, <1>5 DEF Follows
  <1>11. x \in Sample /\ x = [age |-> 0, airtime |-> air'[n].frame.airtime]
    BY <1>6, <1>9, WindowAssumption DEF Sample, Ages
  <1>12. samples' = Append(all, x) /\ relayed' = IF f.relayed THEN Append(rel, x) ELSE rel
    BY DEF Charge, Record
  <1> HIDE DEF x
  <1>13. Ledgers'
    BY <1>11, <1>12 DEF Ledgers
  <1>14. AirTyped(air, pc)
    BY DEF GateInv
  <1>15. Safe(samples', air', spent', FALSE)
    <2>1. FALSE \in BOOLEAN /\ Budget(FALSE) = TotalBudget
      BY DEF Budget
    <2>2. air'[n].frame.exempt \/ ~Full(all, air'[n].frame.airtime, Budget(FALSE))
      BY <1>9, <2>1
    <2>3. Oldest(air'[n], spent') \in Nat /\ air'[n].frame \in FrameType /\ Numbers(DOMAIN air')
      BY <1>4, <1>5, <1>6, <1>9
    <2>4. Safe(Append(all, x), air', spent', FALSE)
      BY <1>4, <1>5, <1>10, <1>11, <1>14, <2>1, <2>2, <2>3, SafeCharged
    <2> QED BY <1>12, <2>4
  <1>16. Safe(relayed', air', spent', TRUE)
    <2>1. CASE f.relayed
      <3>1. TRUE \in BOOLEAN /\ Budget(TRUE) = RelayedBudget
        BY DEF Budget
      <3>2. air'[n].frame.exempt \/ ~Full(rel, air'[n].frame.airtime, Budget(TRUE))
        BY <1>9, <2>1, <3>1
      <3>3. Oldest(air'[n], spent') \in Nat /\ air'[n].frame \in FrameType /\ Numbers(DOMAIN air')
            /\ (TRUE => air'[n].frame.relayed)
        BY <1>4, <1>5, <1>6, <1>9, <2>1
      <3>4. Safe(Append(rel, x), air', spent', TRUE)
        BY <1>4, <1>5, <1>10, <1>11, <1>14, <3>1, <3>2, <3>3, SafeCharged
      <3> QED BY <1>12, <2>1, <3>4
    <2>2. CASE ~f.relayed
      <3>1. Safe(rel, air, spent', TRUE)
        BY <1>3, <1>14, SafeKept
      <3>2. Class(air', TRUE) = Class(air, TRUE)
        BY <1>5, <1>9, <2>2 DEF Class
      <3> DEFINE S == Class(air, TRUE)
      <3>3. \A i \in S : air'[i] = air[i]
        BY <1>5 DEF Class
      <3>4. AirFrames(air, S) /\ RelayedBudget \in Nat /\ Budget(TRUE) = RelayedBudget
        BY <1>14, ClassFrames, BudgetAssumption DEF Budget
      <3>5. PICK g : Backs(g, rel, air, S, spent')
        BY <3>1 DEF Safe
      <3>6. Within(air, S, RelayedBudget)
        BY <3>1, <3>4 DEF Safe
      <3> HIDE DEF S
      <3>7. Backs(g, rel, air', S, spent')
        BY <3>3, <3>5 DEF Backs
      <3>8. Within(air', S, RelayedBudget)
        <4>1. S \subseteq S /\ \A i \in S : air'[i].frame = air[i].frame
          BY <3>3
        <4> QED BY <3>4, <3>6, <4>1, WithinFollows
      <3>9. Safe(rel, air', spent', TRUE)
        BY <3>2, <3>4, <3>7, <3>8 DEF Safe, S
      <3> QED BY <1>12, <2>2, <3>9
    <2> QED BY <2>1, <2>2
  <1> QED BY <1>2, <1>8, <1>13, <1>15, <1>16 DEF Covered

\* One turn of wait_for_budget.
LEMMA CheckOrWaitSafe ==
  ASSUME GateInv, NEW s \in Senders, pc[s] # "held", NEW f \in Frames[s], CheckOrWait(s, f)
  PROVE  Standing' /\ Ledgers' /\ AirTyped(air, pc)' /\ Covered'
  <1> DEFINE all == Prune(samples)
             rel == Prune(relayed)
             by == IF f.relayed /\ Full(rel, f.airtime, RelayedBudget) THEN rel
                   ELSE IF Full(all, f.airtime, TotalBudget) THEN all
                   ELSE <<>>
  <1>1. /\ all \in Seq(Sample) /\ Safe(all, air, spent, FALSE)
        /\ rel \in Seq(Sample) /\ Safe(rel, air, spent, TRUE)
    <2>1. Live(air, DOMAIN air, spent)
      BY AirLive DEF GateInv
    <2> QED BY <2>1, SafePruned DEF GateInv, Ledgers, Covered
  <1>2. Limiting(f) = [all |-> all, rel |-> rel, by |-> by]
    BY DEF Limiting
  <1>3. \/ by = <<>> /\ Charge(s, f, all, rel)
        \/ /\ by # <<>> /\ samples' = all /\ relayed' = rel /\ air' = air
           /\ Stands(s, f, "waiting", Window - by[1].age, 0)
    BY <1>2 DEF CheckOrWait
  <1>4. CASE by = <<>> /\ Charge(s, f, all, rel)
    <2>1. /\ ~Full(all, f.airtime, TotalBudget)
          /\ f.relayed => ~Full(rel, f.airtime, RelayedBudget)
      <3>1. (Full(all, f.airtime, TotalBudget) => all # <<>>) /\ (Full(rel, f.airtime, RelayedBudget) => rel # <<>>)
        BY DEF Full
      <3> HIDE DEF all, rel
      <3> QED BY <1>4, <3>1
    <2> HIDE DEF all, rel, by
    <2> QED BY <1>1, <1>4, <2>1, ChargeSafe
  <1>5. CASE /\ by # <<>> /\ samples' = all /\ relayed' = rel /\ air' = air
             /\ Stands(s, f, "waiting", Window - by[1].age, 0)
    <2>1. by[1] \in Sample /\ by[1].age <= Window
      <3>1. /\ all # <<>> => all[1] \in Sample /\ all[1].age <= Window
            /\ rel # <<>> => rel[1] \in Sample /\ rel[1].age <= Window
        BY PruneFacts DEF GateInv, Ledgers
      <3> HIDE DEF all, rel
      <3> QED BY <1>5, <3>1
    <2> HIDE DEF by
    <2>2. Window - by[1].age \in 0..Window
      <3>1. by[1].age \in 0..(Window + 1)
        BY <2>1 DEF Sample, Ages
      <3> QED BY <2>1, <3>1, WindowAssumption
    <2>3. At(s, "waiting", f, Window - by[1].age, 0)
      BY <2>2 DEF At
    <2> QED BY <1>5, <2>3, StandsSafe
  <1> QED BY <1>3, <1>4, <1>5

\* The limiter, a handshake let through.
LEMMA ThrottleSafe ==
  ASSUME GateInv, NEW s \in Senders, pc[s] # "held", NEW f \in Frames[s], Throttle(s, f)
  PROVE  Standing' /\ Ledgers' /\ AirTyped(air, pc)' /\ Covered'
  <1>1. CASE f.exempt
    <2>1. Charge(s, f, samples, relayed)
      BY <1>1 DEF Throttle
    <2> QED BY <1>1, <2>1, ChargeSafe DEF GateInv, Ledgers, Covered
  <1>2. CASE ~f.exempt
    BY <1>2, CheckOrWaitSafe DEF Throttle
  <1> QED BY <1>1, <1>2

\* One turn of _wait_for_incoming_quiet.
LEMMA PassQuietSafe ==
  ASSUME GateInv, NEW s \in Senders, pc[s] # "held", NEW f \in Frames[s],
         NEW since \in 0..QuietMax, PassQuiet(s, f, since)
  PROVE  Standing' /\ Ledgers' /\ AirTyped(air, pc)' /\ Covered'
  <1>1. CASE quietFor >= QuietWindow \/ since >= QuietMax
    BY <1>1, ThrottleSafe DEF PassQuiet
  <1>2. CASE ~(quietFor >= QuietWindow \/ since >= QuietMax)
    <2> DEFINE wait == Lesser(QuietWindow - quietFor, QuietMax - since)
    <2>1. Stands(s, f, "quiet", wait, since) /\ air' = air /\ samples' = samples /\ relayed' = relayed
      BY <1>2 DEF PassQuiet
    <2>2. wait \in 0..QuietWindow
      BY <1>2, QuietAssumption DEF Lesser, GateInv, Clocks
    <2> HIDE DEF wait
    <2>3. At(s, "quiet", f, wait, since)
      BY <2>2 DEF At
    <2> QED BY <2>1, <2>3, StandsSafe
  <1> QED BY <1>1, <1>2

\* Nothing is charged and no ledger touched; of the frames charged, some are
\* forgotten, or keyed.
LEMMA AirKept ==
  ASSUME GateInv, Standing', Follows(air', DOMAIN air', spent', air, DOMAIN air, spent),
         AirTyped(air, pc)', samples' = samples, relayed' = relayed
  PROVE  Standing' /\ Ledgers' /\ AirTyped(air, pc)' /\ Covered'
  <1>1. AirTyped(air, pc) /\ Ledgers
    BY DEF GateInv
  <1>2. Safe(samples, air', spent', FALSE) /\ Safe(relayed, air', spent', TRUE)
    BY <1>1, SafeKept DEF GateInv, Ledgers, Covered
  <1> QED BY <1>1, <1>2 DEF Ledgers, Covered

\* A hold goes on.
LEMMA HoldOnSafe ==
  ASSUME GateInv, NEW s \in Senders, HoldOn(s)
  PROVE  Standing' /\ Ledgers' /\ AirTyped(air, pc)' /\ Covered'
  <1> DEFINE wait == Lesser(busyFor, MaxHold - spent[s])
  <1>1. Stands(s, frame[s], "held", wait, spent[s]) /\ pc[s] = "held" /\ spent[s] < MaxHold
        /\ samples' = samples /\ relayed' = relayed /\ air' = air
    BY DEF HoldOn
  <1>2. At(s, "held", frame[s], due[s], spent[s]) /\ Standing /\ AirTyped(air, pc)
    BY <1>1 DEF GateInv, Standing
  <1>3. spent[s] \in 0..MaxHold /\ frame[s] \in Frames[s]
    BY <1>2 DEF At
  <1>4. wait \in 0..MaxHold
    BY <1>1, <1>3, WindowAssumption DEF Lesser, GateInv, Clocks
  <1> HIDE DEF wait
  <1>5. At(s, "held", frame[s], wait, spent[s])
    BY <1>3, <1>4 DEF At
  <1>6. Standing'
    BY <1>1, <1>2, <1>5, StandsKeeps
  <1>7. \A x \in Senders : pc'[x] = pc[x] /\ spent'[x] = spent[x]
    BY <1>1, <1>2 DEF Stands, Standing, Maps
  <1>8. Live(air, DOMAIN air, spent)
    BY <1>2, AirLive
  <1>9. \A i \in DOMAIN air : /\ air[i] \in Entry /\ air[i].by \in Senders
                              /\ air[i].keyed = NotKeyed => pc[air[i].by] = "held"
    BY <1>2 DEF AirTyped, Entry
  <1>10. Follows(air', DOMAIN air', spent', air, DOMAIN air, spent)
    <2>1. ASSUME NEW i \in DOMAIN air
          PROVE  Oldest(air[i], spent') = Oldest(air[i], spent) /\ Oldest(air[i], spent) \in Nat
      BY <1>7, <1>8, <1>9 DEF Oldest, Live
    <2>2. \A i \in DOMAIN air : Oldest(air[i], spent) <= Oldest(air[i], spent')
      BY <2>1
    <2> QED BY <1>1, <2>1, <2>2 DEF Follows
  <1>11. AirTyped(air, pc)'
    BY <1>1, <1>2, <1>7, <1>9 DEF AirTyped
  <1> QED BY <1>1, <1>6, <1>10, <1>11, AirKept

\* A sender leaves the gate: of its own frames, if any, a was made.
LEMMA OutSafe ==
  ASSUME GateInv, NEW s \in Senders, Out(s), samples' = samples, relayed' = relayed,
         DOMAIN air' \subseteq DOMAIN air,
         \A i \in DOMAIN air' : \/ air'[i] = air[i] /\ (air[i].by # s \/ air[i].keyed # NotKeyed)
                                \/ air'[i] = [air[i] EXCEPT !.keyed = 0] /\ air[i].by = s /\ air[i].keyed = NotKeyed
  PROVE  Standing' /\ Ledgers' /\ AirTyped(air, pc)' /\ Covered'
  <1>1. Stands(s, NoFrame, "idle", 0, 0) /\ Standing /\ AirTyped(air, pc)
    BY DEF Out, GateInv
  <1>2. At(s, "idle", NoFrame, 0, 0)
    BY DEF At
  <1>3. Standing'
    BY <1>1, <1>2, StandsKeeps
  <1>4. \A x \in Senders : x # s => pc'[x] = pc[x] /\ spent'[x] = spent[x]
    BY <1>1 DEF Stands, Standing, Maps
  <1>5. Live(air, DOMAIN air, spent)
    BY <1>1, AirLive
  <1>6. ASSUME NEW i \in DOMAIN air'
        PROVE  /\ air'[i] \in Entry /\ (air'[i].keyed = NotKeyed => pc'[air'[i].by] = "held")
               /\ air'[i].frame = air[i].frame
               /\ Oldest(air[i], spent) \in Nat /\ Oldest(air'[i], spent') \in Nat
               /\ Oldest(air[i], spent) <= Oldest(air'[i], spent')
    <2>1. i \in DOMAIN air
      OBVIOUS
    <2>2. air[i] \in Entry /\ (air[i].keyed = NotKeyed => pc[air[i].by] = "held")
          /\ Oldest(air[i], spent) \in Nat
      BY <1>1, <1>5, <2>1 DEF AirTyped, Live
    <2>3. air[i].by \in Senders
      BY <2>2 DEF Entry
    <2>4. CASE air'[i] = air[i] /\ (air[i].by # s \/ air[i].keyed # NotKeyed)
      <3>1. Oldest(air'[i], spent') = Oldest(air[i], spent)
        BY <1>4, <2>3, <2>4 DEF Oldest
      <3>2. air'[i].keyed = NotKeyed => pc'[air'[i].by] = "held"
        BY <1>4, <2>2, <2>3, <2>4
      <3> QED BY <2>2, <2>4, <3>1, <3>2
    <2>5. CASE air'[i] = [air[i] EXCEPT !.keyed = 0] /\ air[i].by = s /\ air[i].keyed = NotKeyed
      <3>1. air[i] = [by |-> air[i].by, frame |-> air[i].frame, keyed |-> air[i].keyed]
            /\ air[i].frame \in FrameType
        BY <2>2 DEF Entry
      <3>2. air'[i] = [by |-> air[i].by, frame |-> air[i].frame, keyed |-> 0]
        BY <2>5, <3>1
      <3>3. 0 \in 0..(Window - MaxHold) /\ 0 # NotKeyed
        BY WindowAssumption DEF NotKeyed
      <3>4. air'[i] \in Entry /\ air'[i].keyed = 0 /\ air'[i].frame = air[i].frame
        BY <2>3, <3>1, <3>2, <3>3 DEF Entry
      <3>5. spent[s] \in 0..MaxHold
        <4>1. At(s, pc[s], frame[s], due[s], spent[s]) /\ pc[s] = "held"
          BY <1>1, <2>2, <2>5 DEF Standing
        <4> QED BY <4>1 DEF At
      <3>6. Oldest(air[i], spent) = spent[s] /\ Oldest(air'[i], spent') = MaxHold
        <4>1. Oldest(air'[i], spent') = 0 + MaxHold
          BY <3>3, <3>4 DEF Oldest
        <4> QED BY <2>5, <4>1, WindowAssumption DEF Oldest
      <3> QED BY <2>2, <3>3, <3>4, <3>5, <3>6, WindowAssumption
    <2> QED BY <2>4, <2>5
  <1>7. Follows(air', DOMAIN air', spent', air, DOMAIN air, spent)
    BY <1>6 DEF Follows
  <1>8. AirTyped(air, pc)'
    <2>1. Numbers(DOMAIN air')
      BY <1>1 DEF AirTyped, Numbers
    <2> QED BY <1>6, <2>1 DEF AirTyped
  <1> QED BY <1>3, <1>7, <1>8, AirKept

\* The clock moves.
LEMMA TickSafe ==
  ASSUME GateInv, Tick
  PROVE  Standing' /\ Ledgers' /\ AirTyped(air, pc)' /\ Covered'
  <1>1. Standing /\ AirTyped(air, pc) /\ Ledgers /\ pc' = pc /\ frame' = frame
        /\ Live(air, DOMAIN air, spent)
    BY AirLive DEF GateInv, Tick
  <1>2. Standing'
    <2>1. Maps(pc') /\ Maps(frame') /\ Maps(due') /\ Maps(spent')
      BY <1>1 DEF Standing, Maps, Tick
    <2>2. ASSUME NEW s \in Senders PROVE At(s, pc'[s], frame'[s], due'[s], spent'[s])
      <3>1. At(s, pc[s], frame[s], due[s], spent[s]) /\ (pc[s] = "held" => spent[s] < MaxHold)
        BY <1>1 DEF Standing, Tick
      <3>2. due'[s] = Less(due[s]) /\ spent'[s] = CASE pc[s] = "quiet" -> Lesser(spent[s] + 1, QuietMax)
                                                    [] pc[s] = "held" -> spent[s] + 1
                                                    [] OTHER -> 0
        BY DEF Tick
      <3>3. CASE pc[s] = "idle"
        BY <1>1, <3>1, <3>2, <3>3 DEF At, Less
      <3>4. CASE pc[s] = "waiting"
        BY <1>1, <3>1, <3>2, <3>4, WindowAssumption DEF At, Less
      <3>5. CASE pc[s] = "quiet"
        BY <1>1, <3>1, <3>2, <3>5, QuietAssumption DEF At, Less, Lesser
      <3>6. CASE pc[s] = "held"
        BY <1>1, <3>1, <3>2, <3>6, WindowAssumption DEF At, Less
      <3> QED BY <3>1, <3>3, <3>4, <3>5, <3>6 DEF At
    <2> QED BY <2>1, <2>2 DEF Standing
  <1>3. /\ DOMAIN air' \subseteq DOMAIN air
        /\ \A i \in DOMAIN air' : /\ air[i].keyed = NotKeyed \/ air[i].keyed + 1 + MaxHold <= Window
                                  /\ air'[i] = [air[i] EXCEPT !.keyed = IF @ = NotKeyed THEN @ ELSE @ + 1]
    BY DEF Tick
  <1>4. ASSUME NEW i \in DOMAIN air'
        PROVE  /\ air'[i] \in Entry /\ (air'[i].keyed = NotKeyed => pc'[air'[i].by] = "held")
               /\ air'[i].frame = air[i].frame /\ Oldest(air'[i], spent') = Oldest(air[i], spent) + 1
    <2>1. i \in DOMAIN air
      BY <1>3
    <2>2. air[i] \in Entry /\ (air[i].keyed = NotKeyed => pc[air[i].by] = "held")
      BY <1>1, <2>1 DEF AirTyped
    <2>3. air[i] = [by |-> air[i].by, frame |-> air[i].frame, keyed |-> air[i].keyed]
          /\ air[i].by \in Senders /\ air[i].frame \in FrameType
          /\ air[i].keyed \in (0..(Window - MaxHold)) \union {NotKeyed}
      BY <2>2 DEF Entry
    <2>4. CASE air[i].keyed = NotKeyed
      <3>1. air'[i] = air[i]
        BY <1>3, <2>3, <2>4
      <3>2. spent'[air[i].by] = spent[air[i].by] + 1
        BY <2>2, <2>3, <2>4 DEF Tick
      <3> QED BY <1>1, <2>2, <2>4, <3>1, <3>2 DEF Oldest
    <2>5. CASE air[i].keyed # NotKeyed
      <3>1. air'[i] = [by |-> air[i].by, frame |-> air[i].frame, keyed |-> air[i].keyed + 1]
        BY <1>3, <2>3, <2>5
      <3>2. air[i].keyed \in 0..(Window - MaxHold) /\ air[i].keyed + 1 + MaxHold <= Window
        BY <1>3, <2>3, <2>5
      <3>3. air[i].keyed + 1 \in 0..(Window - MaxHold) /\ air[i].keyed + 1 # NotKeyed
            /\ (air[i].keyed + 1) + MaxHold = (air[i].keyed + MaxHold) + 1
        BY <3>2, WindowAssumption DEF NotKeyed
      <3>4. air'[i].keyed = air[i].keyed + 1 /\ air'[i].frame = air[i].frame /\ air'[i] \in Entry
        BY <2>3, <3>1, <3>3 DEF Entry
      <3> QED BY <2>5, <3>3, <3>4 DEF Oldest
    <2> QED BY <2>4, <2>5
  <1>5. AirTyped(air, pc)'
    <2>1. Numbers(DOMAIN air')
      BY <1>1, <1>3 DEF AirTyped, Numbers
    <2> QED BY <1>4, <2>1 DEF AirTyped
  <1>6. samples' = Older(samples) /\ relayed' = Older(relayed)
    BY DEF Tick
  <1>7. \A i \in DOMAIN air' : air'[i].frame = air[i].frame /\ Oldest(air'[i], spent') = Oldest(air[i], spent) + 1
    BY <1>4
  <1>8. DOMAIN air' \subseteq DOMAIN air
    BY <1>3
  <1>9. ASSUME NEW l, l \in Seq(Sample), NEW r \in BOOLEAN, Safe(l, air, spent, r)
        PROVE  Older(l) \in Seq(Sample) /\ Safe(Older(l), air', spent', r)
    BY <1>1, <1>7, <1>8, <1>9, SafeOlder, SMTT(30)
  <1>10. Older(samples) \in Seq(Sample) /\ Safe(Older(samples), air', spent', FALSE)
    <2>1. samples \in Seq(Sample) /\ FALSE \in BOOLEAN /\ Safe(samples, air, spent, FALSE)
      BY DEF GateInv, Ledgers, Covered
    <2> QED BY <1>9, <2>1
  <1>11. Older(relayed) \in Seq(Sample) /\ Safe(Older(relayed), air', spent', TRUE)
    <2>1. relayed \in Seq(Sample) /\ TRUE \in BOOLEAN /\ Safe(relayed, air, spent, TRUE)
      BY DEF GateInv, Ledgers, Covered
    <2> QED BY <1>9, <2>1
  <1> QED BY <1>2, <1>5, <1>6, <1>10, <1>11 DEF Ledgers, Covered

\* The clocks keep their bounds.
LEMMA GateClocks ==
  ASSUME GateInv, GateNext
  PROVE  Clocks'
  <1> USE DEF Clocks, GateInv
  <1>1. CASE \E s \in Senders : \/ \E f \in Frames[s] : Enter(s, f)
                                \/ QuietTurn(s) \/ Wake(s) \/ Preempted(s)
                                \/ HoldOn(s) \/ Key(s) \/ Cancelled(s)
    BY <1>1, WindowAssumption DEF Enter, QuietTurn, Wake, Preempted, HoldOn, Key, Cancelled, heard
  <1>2. CASE HearFragment
    BY <1>2, QuietAssumption DEF HearFragment, senders
  <1>3. CASE \E hold \in 1..(MaxHold + 1) : Overhear(hold)
    BY <1>3, WindowAssumption DEF Overhear, Lesser, senders
  <1>4. CASE Tick
    BY <1>4, QuietAssumption, WindowAssumption DEF Tick, Lesser, Less
  <1> QED BY <1>1, <1>2, <1>3, <1>4 DEF GateNext

\* A sender's steps.
LEMMA SenderSafe ==
  ASSUME GateInv, NEW s \in Senders,
         \/ \E f \in Frames[s] : Enter(s, f)
         \/ QuietTurn(s) \/ Wake(s) \/ Preempted(s)
         \/ HoldOn(s) \/ Key(s) \/ Cancelled(s)
  PROVE  Standing' /\ Ledgers' /\ AirTyped(air, pc)' /\ Covered'
  <1>0. At(s, pc[s], frame[s], due[s], spent[s])
    BY DEF GateInv, Standing
  <1>1. ASSUME NEW f \in Frames[s], Enter(s, f)
        PROVE  Standing' /\ Ledgers' /\ AirTyped(air, pc)' /\ Covered'
    <2>1. pc[s] # "held" /\ (Throttle(s, f) \/ PassQuiet(s, f, 0)) /\ 0 \in 0..QuietMax
      BY <1>1, QuietAssumption DEF Enter
    <2> QED BY <2>1, ThrottleSafe, PassQuietSafe
  <1>2. CASE QuietTurn(s)
    <2>1. pc[s] # "held" /\ PassQuiet(s, frame[s], spent[s]) /\ frame[s] \in Frames[s] /\ spent[s] \in 0..QuietMax
      BY <1>0, <1>2 DEF QuietTurn, At
    <2> QED BY <2>1, PassQuietSafe
  <1>3. CASE Wake(s)
    <2>1. pc[s] # "held" /\ CheckOrWait(s, frame[s]) /\ frame[s] \in Frames[s]
      BY <1>0, <1>3 DEF Wake, At
    <2> QED BY <2>1, CheckOrWaitSafe
  <1>4. CASE Preempted(s)
    <2>1. pc[s] = "waiting" /\ Out(s) /\ samples' = samples /\ relayed' = relayed /\ air' = air
      BY <1>4 DEF Preempted
    <2>2. \A i \in DOMAIN air : air[i].by # s \/ air[i].keyed # NotKeyed
      BY <2>1 DEF GateInv, AirTyped
    <2> QED BY <2>1, <2>2, OutSafe
  <1>5. CASE HoldOn(s)
    BY <1>5, HoldOnSafe
  <1>6. CASE Key(s)
    <2>1. Out(s) /\ samples' = samples /\ relayed' = relayed
          /\ air' = [i \in DOMAIN air |->
                 IF air[i].by = s /\ air[i].keyed = NotKeyed THEN [air[i] EXCEPT !.keyed = 0]
                 ELSE air[i]]
      BY <1>6 DEF Key
    <2>2. DOMAIN air' \subseteq DOMAIN air /\ \A i \in DOMAIN air' :
             \/ air'[i] = air[i] /\ (air[i].by # s \/ air[i].keyed # NotKeyed)
             \/ air'[i] = [air[i] EXCEPT !.keyed = 0] /\ air[i].by = s /\ air[i].keyed = NotKeyed
      BY <2>1
    <2> QED BY <2>1, <2>2, OutSafe
  <1>7. CASE Cancelled(s)
    <2>1. Out(s) /\ samples' = samples /\ relayed' = relayed
          /\ air' = [i \in {j \in DOMAIN air : air[j].by # s \/ air[j].keyed # NotKeyed} |-> air[i]]
      BY <1>7 DEF Cancelled
    <2>2. DOMAIN air' \subseteq DOMAIN air /\ \A i \in DOMAIN air' :
             air'[i] = air[i] /\ (air[i].by # s \/ air[i].keyed # NotKeyed)
      BY <2>1
    <2> QED BY <2>1, <2>2, OutSafe
  <1> QED BY <1>1, <1>2, <1>3, <1>4, <1>5, <1>6, <1>7

\* Every step keeps the invariant.
LEMMA GateStep == GateInv /\ [GateNext]_gateVars => GateInv'
  <1> SUFFICES ASSUME GateInv, [GateNext]_gateVars PROVE GateInv'
    OBVIOUS
  <1>1. CASE UNCHANGED gateVars
    <2>1. /\ pc' = pc /\ frame' = frame /\ due' = due /\ spent' = spent /\ quietFor' = quietFor
          /\ busyFor' = busyFor /\ left' = left /\ samples' = samples /\ relayed' = relayed /\ air' = air
      BY <1>1 DEF gateVars
    <2> QED BY <2>1 DEF GateInv, Standing, Clocks, Ledgers, Covered, AirTyped, Maps
  <1>2. CASE GateNext
    <2>1. Standing' /\ Ledgers' /\ AirTyped(air, pc)' /\ Covered'
      <3>1. CASE \E s \in Senders : \/ \E f \in Frames[s] : Enter(s, f)
                                    \/ QuietTurn(s) \/ Wake(s) \/ Preempted(s)
                                    \/ HoldOn(s) \/ Key(s) \/ Cancelled(s)
        BY <3>1, SenderSafe
      <3>2. CASE HearFragment \/ \E hold \in 1..(MaxHold + 1) : Overhear(hold)
        <4>1. /\ pc' = pc /\ frame' = frame /\ due' = due /\ spent' = spent
              /\ samples' = samples /\ relayed' = relayed /\ air' = air
          BY <3>2 DEF HearFragment, Overhear, senders
        <4> QED BY <4>1 DEF GateInv, Standing, Ledgers, Covered, AirTyped, Maps
      <3>3. CASE Tick
        BY <3>3, TickSafe
      <3> QED BY <1>2, <3>1, <3>2, <3>3 DEF GateNext
    <2>2. Clocks'
      BY <1>2, GateClocks
    <2> QED BY <2>1, <2>2 DEF GateInv
  <1> QED BY <1>1, <1>2

\* It holds at the start.
LEMMA GateStart == GateInit => GateInv
  <1> SUFFICES ASSUME GateInit PROVE GateInv
    OBVIOUS
  <1> USE DEF GateInit
  <1>1. Standing
    BY DEF Standing, Maps, At
  <1>2. Clocks
    BY QuietAssumption, WindowAssumption DEF Clocks
  <1>3. Ledgers
    BY DEF Ledgers
  <1>4. DOMAIN air = {}
    OBVIOUS
  <1>5. AirTyped(air, pc)
    <2>1. Numbers({})
      BY DEF Numbers
    <2> QED BY <1>4, <2>1 DEF AirTyped
  <1>6. \A r : Class(air, r) = {}
    BY <1>4 DEF Class
  <1>7. Covered
    BY <1>6 DEF Covered, Safe, Backs, Within
  <1> QED BY <1>1, <1>2, <1>3, <1>5, <1>7 DEF GateInv

\* It says the types.
LEMMA GateTyped == GateInv => GateTypeOK
  <1> SUFFICES ASSUME GateInv PROVE GateTypeOK
    OBVIOUS
  <1>1. samples \in Seq(Sample) /\ relayed \in Seq(Sample)
    BY DEF GateInv, Ledgers
  <1>2. \A s \in Senders : At(s, pc[s], frame[s], due[s], spent[s])
    BY DEF GateInv, Standing
  <1>3. quietFor \in 0..QuietWindow /\ busyFor \in 0..MaxHold /\ left \in 0..MaxFrames
    BY DEF GateInv, Clocks
  <1>4. \A i \in DOMAIN air : air[i].keyed \in (0..(Window - MaxHold)) \union {NotKeyed}
    BY DEF GateInv, AirTyped, Entry
  <1> QED BY <1>1, <1>2, <1>3, <1>4 DEF GateTypeOK, At

\* It says AirBudget: what is keyed is a part of what is charged.
LEMMA GateWithin == GateInv => AirBudget
  <1> SUFFICES ASSUME GateInv PROVE AirBudget
    OBVIOUS
  <1> DEFINE S(r) == {i \in DOMAIN air : air[i].keyed # NotKeyed /\ (r => air[i].frame.relayed)}
  <1>1. ASSUME NEW r \in BOOLEAN, Within(air, Class(air, r), Budget(r))
        PROVE  Within(air, S(r), Budget(r))
    <2>1. S(r) \subseteq Class(air, r) /\ \A i \in S(r) : air[i].frame = air[i].frame
      BY DEF Class
    <2>2. AirFrames(air, Class(air, r)) /\ Budget(r) \in Nat
      BY ClassFrames, BudgetNat DEF GateInv
    <2> HIDE DEF S
    <2> QED BY <1>1, <2>1, <2>2, WithinFollows
  <1>2. Within(air, S(FALSE), TotalBudget) /\ Within(air, S(TRUE), RelayedBudget)
    <2>1. Within(air, Class(air, FALSE), Budget(FALSE)) /\ Within(air, Class(air, TRUE), Budget(TRUE))
      BY DEF GateInv, Covered, Safe
    <2>2. Budget(FALSE) = TotalBudget /\ Budget(TRUE) = RelayedBudget
      BY DEF Budget
    <2> HIDE DEF S
    <2> QED BY <1>1, <2>1, <2>2
  <1>3. \A B : Within(air, S(FALSE), B) <=> Fits(S(FALSE), B)
    BY DEF Within, Fits, Airtime
  <1>4. \A B : Within(air, S(TRUE), B) <=> Fits(S(TRUE), B)
    BY DEF Within, Fits, Airtime
  <1>5. OnAir(LAMBDA f : TRUE) = S(FALSE) /\ OnAir(LAMBDA f : f.relayed) = S(TRUE)
    BY DEF OnAir
  <1> HIDE DEF S
  <1> QED BY <1>2, <1>3, <1>4, <1>5 DEF AirBudget

\* The types of the gate hold, and so does AirBudget: whatever the senders,
\* their holds, handshakes and cancellations, what is keyed within any
\* Window - MaxHold fits the budgets of limiting_ledger (smci/_locks.py), but
\* for what AirBudget excepts.
THEOREM AirBudgetHolds == GateSpec => [](GateTypeOK /\ AirBudget)
  <1>1. GateInv => GateTypeOK /\ AirBudget
    BY GateTyped, GateWithin
  <1> QED BY <1>1, GateStart, GateStep, PTL DEF GateSpec
==============================================================================
