------------------------------- MODULE Routing -------------------------------
(***************************************************************************)
(* What becomes of an outgoing packet (smci/_routing.py): the rate limits  *)
(* and delays of _send_outgoing_packet, the decision of                    *)
(* _dispatch_outgoing_packet between DIRECT copies and a CHANNEL flood,    *)
(* the back-off of destinations that never answer, and the tasks that      *)
(* carry the copies, with their fall-backs and the later passes of a       *)
(* flood.  Every await of a task is a point where the link may go down,    *)
(* the packet expire, or a peer come and go.                               *)
(*                                                                         *)
(* RNS may offer the same bytes again once they are no longer in flight: a *)
(* copy is <<p, n>>, the n-th time the packet p was taken in.              *)
(***************************************************************************)
EXTENDS Naturals, FiniteSets

CONSTANTS
    Packets,
    Class,          \* Class[p], see Classes
    Dest,           \* Dest[p]: its destination, or the one a request asks for
    OverLink,       \* packets addressed to a Link
    Closes,         \* those of them that close it (LINKCLOSE)
    Peers,
    SmallMax,       \* SMALL_MESH_DIRECT_ONLY_MAX_PEERS
    Cap,            \* bootstrap_, path_request_direct_supplement_cap
    Threshold,      \* UNKNOWN_DEST_BOOTSTRAP_FAILURE_THRESHOLD
    Extra,          \* Extra[p]: _retry_extra_for
    MaxOffers,      \* bound: MaxOffers[p], times RNS offers p
    MaxTogether,    \* bound: packets in flight at once
    MaxChanges,     \* bound: changes of the radio, of the peers and of Links
    None

Classes == {"announce", "answer", "request", "data", "link", "proof", "lrproof"}
Dests == {Dest[p] : p \in Packets}

ASSUME ClassAssumption == Class \in [Packets -> Classes] /\ Extra \in [Packets -> Nat]
ASSUME LinkAssumption == OverLink \subseteq Packets /\ Closes \subseteq OverLink
ASSUME BoundAssumption ==
    /\ SmallMax \in Nat /\ Cap \in Nat /\ Threshold \in Nat \ {0}
    /\ MaxOffers \in [Packets -> Nat] /\ MaxTogether \in Nat /\ MaxChanges \in Nat /\ None \notin Peers

VARIABLES
    bound,          \* _peers
    known,          \* known[d]: the peer _resolve_routing_peer gives for d, or None
    attempts,       \* _unknown_dest_attempts
    backoff,        \* destinations inside _unknown_dest_backoff_until
    remembered,     \* copies in _pending_dest_proofs and _pending_link_requests
    recent,         \* keys inside a rate limit's window, [class, dest]
    inflight,       \* _outgoing_inflight
    tasks,          \* live tasks, see Task
    reached,        \* copies of which a DIRECT task reported that it was sent
    offers,         \* offers[p]: copies of p taken in
    online,
    expired,        \* packets past their expires_at
    closed,         \* _closed_links
    changes,        \* so far (MaxChanges)
    onAir,          \* history: [copy, over], a frame of the copy left over
                    \* "direct" or "channel"
    alone,          \* history: copies sent DIRECT with no flood beside them
    excused,        \* history: [copy, why], not sent for a reason
    unproved        \* history: unproved[d], bootstrap sends since d last answered one

vars == <<bound, known, attempts, backoff, remembered, recent, inflight, tasks, reached,
          offers, online, expired, closed, changes, onAir, alone, excused, unproved>>
history == <<onAir, alone, excused, unproved>>
world == <<bound, known, online, expired, closed, changes, offers>>

\* kind: "queued", with the worker; "later", delayed before it is dispatched;
\* "primary" and "copy", DIRECT to a peer; "watch", broadcast_if_none_sent;
\* "flood", the first CHANNEL pass; "again", a later one.  sending: past the
\* choice of a path.  discover: whether a path may be looked for.
Task(x, kind, to) == [copy |-> x, kind |-> kind, to |-> to, sending |-> FALSE, discover |-> TRUE]

SmallMesh == bound # {} /\ Cardinality(bound) <= SmallMax
ProofLike(p) == Class[p] \in {"proof", "lrproof"}

\* The tasks of a copy that its in-flight entry waits for.
Tracked(x) == {t \in tasks : t.copy = x /\ t.kind # "again"}

Excuse(x, why) == excused' = excused \union {[copy |-> x, why |-> why]}

-----------------------------------------------------------------------------
(* From RNS to the decision. *)

\* process_outgoing, the queue and the worker, of which OutgoingQueue has the
\* detail: bytes in flight are refused.  A LINKCLOSE is noted.
Offer(p) ==
    /\ online /\ p \notin inflight /\ offers[p] < MaxOffers[p] /\ Cardinality(inflight) < MaxTogether
    /\ offers' = [offers EXCEPT ![p] = @ + 1]
    /\ inflight' = inflight \union {p}
    /\ expired' = expired \ {p}
    /\ closed' = IF p \in Closes THEN closed \union {Dest[p]} ELSE closed
    /\ tasks' = tasks \union {Task(<<p, offers[p] + 1>>, "queued", None)}
    /\ UNCHANGED <<bound, known, attempts, backoff, remembered, recent, reached, online,
                   changes, history>>

\* Nothing is sent of t's copy.
Drop(t, why) ==
    /\ tasks' = tasks \ {t}
    /\ Excuse(t.copy, why)
    /\ UNCHANGED <<attempts, backoff, remembered, reached, alone, onAir, unproved>>

\* The worker finds the packet's Link closed, but for the LINKCLOSE itself.
LinkClosed(t) ==
    /\ t.kind = "queued" /\ t.copy[1] \in OverLink \ Closes /\ Dest[t.copy[1]] \in closed
    /\ Drop(t, "closed")
    /\ UNCHANGED <<world, recent, inflight>>

\* The worker finds the packet past its age.
ExpiredInQueue(t) ==
    /\ t.kind = "queued" /\ t.copy[1] \in expired
    /\ Drop(t, "expired")
    /\ UNCHANGED <<world, recent, inflight>>

\* The delays of a link proof, and of a proof that waits out a burst's tail.
Delay(t) ==
    /\ t.kind = "queued" /\ ProofLike(t.copy[1])
    /\ tasks' = (tasks \ {t}) \union {Task(t.copy, "later", None)}
    /\ UNCHANGED <<world, attempts, backoff, remembered, recent, inflight, reached, history>>

\* After the delay: offline, or superseded by a newer request.
DelayInVain(t) ==
    /\ t.kind = "later"
    /\ \/ /\ ~online
          /\ Drop(t, "offline")
       \/ /\ Class[t.copy[1]] = "lrproof"
          /\ Drop(t, "superseded")
    /\ UNCHANGED <<world, recent, inflight>>

\* The rate limits of answers, announces and path requests: the first in a
\* window goes on, and is remembered before it is sent.
Limit(p) == [class |-> Class[p], dest |-> Dest[p]]
Limited(p) == Class[p] \in {"announce", "answer", "request"}

Repeated(t) ==
    /\ t.kind = "queued" /\ Limited(t.copy[1]) /\ Limit(t.copy[1]) \in recent
    /\ Drop(t, "repeated")
    /\ UNCHANGED <<world, recent, inflight>>

\* _answer_path_request_locally: a bound peer's announce, recently verified,
\* answers; the request counts as sent for the rate limit.
AnsweredLocally(t) ==
    /\ t.kind = "queued" /\ Class[t.copy[1]] = "request"
    /\ Limit(t.copy[1]) \notin recent /\ bound # {}
    /\ recent' = recent \union {Limit(t.copy[1])}
    /\ Drop(t, "answered")
    /\ UNCHANGED <<world, inflight>>

-----------------------------------------------------------------------------
(* The decision. *)

\* _record_unknown_dest_attempt
Record(d) ==
    /\ attempts' = [attempts EXCEPT ![d] = @ + 1]
    /\ backoff' = IF attempts[d] + 1 >= Threshold THEN backoff \union {d} ELSE backoff

\* Mutant: every bootstrap send is counted.
CountAll(p) == Record(Dest[p])

\* A proof is never counted, whatever its destination field.
Count(p) == IF ProofLike(p) THEN UNCHANGED <<attempts, backoff>> ELSE Record(Dest[p])

\* An answer to p can be hoped for.
Wait(p) == unproved' = IF ProofLike(p) THEN unproved ELSE [unproved EXCEPT ![Dest[p]] = @ + 1]

\* The copies' proofs are awaited: every link request's, and a packet's that is
\* sent by bootstrap.
Remember(x, bootstrap) ==
    remembered' = IF Class[x[1]] = "link" \/ (Class[x[1]] = "data" /\ bootstrap)
                  THEN remembered \union {x} ELSE remembered

\* Mutant: no task waits for the copies.
ToAllUnwatched(x) == {Task(x, "copy", peer) : peer \in bound}

\* _send_direct_to_all_peers: a copy to every bound peer and a task that waits
\* for them.
ToAll(x) == {Task(x, "copy", peer) : peer \in bound} \union {Task(x, "watch", None)}

\* A flood, and copies to some of the bound peers beside it.
WithFlood(x, peers, discover) ==
    {Task(x, "flood", None)}
        \union {[Task(x, "copy", peer) EXCEPT !.discover = discover] : peer \in peers}

\* The tasks s replace t; alone if there is no flood among them.
Spawn(t, s) ==
    /\ tasks' = (tasks \ {t}) \union s
    /\ alone' = IF \E r \in s : r.kind = "flood" THEN alone ELSE alone \union {t.copy}
    /\ UNCHANGED <<reached, onAir>>

Ready(t) == t.kind = "later" \/ (t.kind = "queued" /\ Class[t.copy[1]] # "lrproof")

\* Announces, answers and path requests, the first of their window.
DispatchFirst(t) ==
    LET p == t.copy[1]
    IN  /\ Ready(t) /\ Limited(p) /\ Limit(p) \notin recent
        /\ recent' = recent \union {Limit(p)}
        /\ IF SmallMesh THEN Spawn(t, ToAll(t.copy))
           ELSE \E peers \in SUBSET bound :
                    /\ Cardinality(peers) <= (IF Class[p] = "request" THEN Cap ELSE 0)
                    /\ Spawn(t, WithFlood(t.copy, peers, FALSE))
        /\ UNCHANGED <<world, attempts, backoff, remembered, inflight, excused, unproved>>

\* A packet whose peer is known: DIRECT.
DispatchKnown(t) ==
    LET p == t.copy[1]
    IN  /\ Ready(t) /\ ~Limited(p) /\ known[Dest[p]] # None
        /\ Spawn(t, {Task(t.copy, "primary", known[Dest[p]])})
        /\ Remember(t.copy, FALSE)
        /\ UNCHANGED <<world, attempts, backoff, recent, inflight, excused, unproved>>

\* A packet whose peer is not known: to every peer of a small mesh, or flooded
\* with a few copies beside.
DispatchUnknown(t) ==
    LET p == t.copy[1]
        held == Dest[p] \in backoff
    IN  /\ Ready(t) /\ ~Limited(p) /\ known[Dest[p]] = None
        /\ ~(SmallMesh /\ held)
        /\ IF SmallMesh
           THEN Spawn(t, ToAll(t.copy)) /\ Remember(t.copy, TRUE) /\ Count(p) /\ Wait(p)
           ELSE \E peers \in SUBSET (IF held THEN {} ELSE bound) :
                    /\ held \/ Cardinality(peers) = Cap \/ (peers = bound /\ Cardinality(bound) < Cap)
                    /\ Spawn(t, WithFlood(t.copy, peers, TRUE))
                    /\ Remember(t.copy, peers # {})
                    /\ IF peers = {} THEN UNCHANGED <<attempts, backoff, unproved>>
                       ELSE Count(p) /\ Wait(p)
        /\ UNCHANGED <<world, recent, inflight, excused>>

\* In a small mesh, a destination in back-off is not tried.
Refuse(t) ==
    LET p == t.copy[1]
    IN  /\ Ready(t) /\ ~Limited(p) /\ known[Dest[p]] = None
        /\ SmallMesh /\ Dest[p] \in backoff
        /\ tasks' = tasks \ {t}
        /\ Excuse(t.copy, IF unproved[Dest[p]] >= Threshold THEN "refused" ELSE "wronged")
        /\ Remember(t.copy, FALSE)
        /\ UNCHANGED <<world, attempts, backoff, recent, inflight, reached, onAir, alone, unproved>>

-----------------------------------------------------------------------------
(* The tasks. *)

\* t ends; it is put on the air, or not, as the caller says.
Ends(t) == tasks' = tasks \ {t}
Becomes(t, kind) == tasks' = (tasks \ {t}) \union {Task(t.copy, kind, None)}
Kept == UNCHANGED <<world, attempts, backoff, remembered, recent, inflight>>

\* _select_path, or a discovery, gives a path to t's peer.
FindPath(t) ==
    /\ t.kind \in {"copy", "primary"} /\ ~t.sending
    /\ tasks' = (tasks \ {t}) \union {[t EXCEPT !.sending = TRUE]}
    /\ Kept /\ UNCHANGED <<reached, history>>

\* No path, and no contact or too large below: a copy gives up and a primary
\* send floods.
GiveUpDirect(t) ==
    /\ IF t.kind = "copy" THEN Ends(t) ELSE Becomes(t, "flood")
    /\ Kept /\ UNCHANGED <<reached, history>>

NoPath(t) ==
    /\ t.kind \in {"copy", "primary"} /\ ~t.sending
    /\ GiveUpDirect(t)

NoContact(t) ==
    /\ t.kind \in {"copy", "primary"} /\ t.sending
    /\ t.kind = "copy" => online /\ t.copy[1] \notin expired
    /\ GiveUpDirect(t)

\* A copy looks at the link and the age when its spacing is over.
CopyTooLate(t) ==
    /\ t.kind = "copy" /\ t.sending
    /\ \/ ~online /\ Excuse(t.copy, "offline")
       \/ t.copy[1] \in expired /\ Excuse(t.copy, "expired")
    /\ Ends(t)
    /\ Kept /\ UNCHANGED <<reached, onAir, alone, unproved>>

\* _send_direct_payload puts the packet on the air, answered or not.
SendDirect(t) ==
    /\ t.kind \in {"copy", "primary"} /\ t.sending /\ online
    /\ t.kind = "copy" => t.copy[1] \notin expired
    /\ onAir' = onAir \union {[copy |-> t.copy, over |-> "direct"]}
    /\ reached' = reached \union {t.copy}
    /\ Ends(t)
    /\ Kept /\ UNCHANGED <<alone, excused, unproved>>

\* _send_direct_payload ends with nothing sent: the packet expires or the link
\* goes in the wait for the radio, the send is superseded, or the path of its
\* raw window is reset.  A copy says it was sent.
NotSent(t) ==
    /\ t.kind \in {"copy", "primary"} /\ t.sending
    /\ t.kind = "copy" => online /\ t.copy[1] \notin expired
    /\ Excuse(t.copy, "given up")
    /\ reached' = reached \union {t.copy}
    /\ Ends(t)
    /\ Kept /\ UNCHANGED <<onAir, alone, unproved>>

\* Mutant: the fall-back does not look at what the copies report.
WatchBlind(t) ==
    /\ t.kind = "watch" /\ \A r \in tasks : r.kind = "copy" => r.copy # t.copy
    /\ \/ ~online /\ Ends(t) /\ Excuse(t.copy, "offline")
       \/ t.copy[1] \in expired /\ Ends(t) /\ Excuse(t.copy, "expired")
       \/ online /\ t.copy[1] \notin expired /\ Becomes(t, "flood") /\ UNCHANGED excused
    /\ Kept /\ UNCHANGED <<reached, onAir, alone, unproved>>

\* broadcast_if_none_sent, when the last of the copies has ended.
Watch(t) ==
    /\ t.kind = "watch" /\ \A r \in tasks : r.kind = "copy" => r.copy # t.copy
    /\ \/ t.copy \in reached /\ Ends(t) /\ UNCHANGED excused
       \/ t.copy \notin reached /\ ~online /\ Ends(t) /\ Excuse(t.copy, "offline")
       \/ t.copy \notin reached /\ t.copy[1] \in expired /\ Ends(t) /\ Excuse(t.copy, "expired")
       \/ /\ t.copy \notin reached /\ online /\ t.copy[1] \notin expired
          /\ Becomes(t, "flood") /\ UNCHANGED excused
    /\ Kept /\ UNCHANGED <<reached, onAir, alone, unproved>>

\* A CHANNEL pass; with the link down its commands fail.
Pass(t) ==
    IF online THEN onAir' = onAir \union {[copy |-> t.copy, over |-> "channel"]} /\ UNCHANGED excused
    ELSE Excuse(t.copy, "offline") /\ UNCHANGED onAir

\* _send_broadcast_packet: the first pass, and a task for each of the others,
\* which no list of its caller's gets in time.
Flood(t) ==
    /\ t.kind = "flood"
    /\ Pass(t)
    /\ tasks' = (tasks \ {t}) \union {Task(t.copy, "again", i) : i \in 1..Extra[t.copy[1]]}
    /\ Kept /\ UNCHANGED <<reached, alone, unproved>>

\* _delayed_retry_pass, its jitter over.
Again(t) ==
    /\ t.kind = "again"
    /\ IF online /\ t.copy[1] \notin expired THEN Pass(t) ELSE UNCHANGED <<onAir, excused>>
    /\ Ends(t)
    /\ Kept /\ UNCHANGED <<reached, alone, unproved>>

\* What the histories keep of a copy is of no use once it is over.
Forget(x) ==
    /\ onAir' = {a \in onAir : a.copy # x}
    /\ excused' = {e \in excused : e.copy # x}
    /\ alone' = alone \ {x}

\* _release_inflight_when_done
Released(p) ==
    /\ p \in inflight /\ Tracked(<<p, offers[p]>>) = {}
    /\ inflight' = inflight \ {p}
    /\ reached' = reached \ {<<p, offers[p]>>}
    /\ Forget(<<p, offers[p]>>)
    /\ UNCHANGED <<world, attempts, backoff, remembered, recent, tasks, unproved>>

-----------------------------------------------------------------------------
(* What else happens. *)

\* _clear_unknown_dest_backoff
Clear(d) ==
    /\ attempts' = [attempts EXCEPT ![d] = 0]
    /\ backoff' = backoff \ {d}

Answered(x) ==
    /\ remembered' = remembered \ {x}
    /\ unproved' = [unproved EXCEPT ![Dest[x[1]]] = 0]

\* _observe_incoming_rns_packet: the proof of a remembered copy from a bound
\* peer, or a packet that gives the destination away.
LearnDirect(peer, d) ==
    /\ peer \in bound
    /\ \/ \E x \in remembered : Dest[x[1]] = d /\ Answered(x)
       \/ UNCHANGED remembered /\ unproved' = [unproved EXCEPT ![d] = 0]
    /\ known' = [known EXCEPT ![d] = peer]
    /\ Clear(d)
    /\ UNCHANGED <<bound, recent, inflight, tasks, reached, offers, online, expired, closed, changes,
                   onAir, alone, excused>>

\* Mutant: a proof over CHANNEL is taken off the list, and the back-off stays.
ChannelProofKept(x) ==
    /\ x \in remembered /\ Answered(x)
    /\ UNCHANGED <<world, attempts, backoff, recent, inflight, tasks, reached, onAir, alone, excused>>

\* _note_channel_proof: it lifts the back-off and teaches nothing.
ChannelProof(x) ==
    /\ x \in remembered /\ Answered(x)
    /\ Clear(Dest[x[1]])
    /\ UNCHANGED <<world, recent, inflight, tasks, reached, onAir, alone, excused>>

\* The sweeps: a proof too long awaited, a rate limit's window over, a closed
\* Link forgotten, a back-off over, and then a destination left alone for as long as any back-off lasts.
ProofOverdue(x) ==
    /\ x \in remembered /\ remembered' = remembered \ {x}
    /\ UNCHANGED <<world, attempts, backoff, recent, inflight, tasks, reached, history>>

WindowOver(k) ==
    /\ k \in recent /\ recent' = recent \ {k}
    /\ UNCHANGED <<world, attempts, backoff, remembered, inflight, tasks, reached, history>>

ClosedOver(d) ==
    /\ d \in closed /\ closed' = closed \ {d}
    /\ UNCHANGED <<bound, known, attempts, backoff, remembered, recent, inflight, tasks, reached,
                   offers, online, expired, changes, history>>

BackoffOver(d) ==
    /\ d \in backoff /\ backoff' = backoff \ {d}
    /\ attempts' \in {attempts, [attempts EXCEPT ![d] = 0]}
    /\ UNCHANGED <<world, remembered, recent, inflight, tasks, reached, history>>

\* The packet's age passes; announces have none.
Age(p) ==
    /\ p \in inflight /\ p \notin expired /\ Class[p] \notin {"announce", "answer"}
    /\ expired' = expired \union {p}
    /\ UNCHANGED <<bound, known, attempts, backoff, remembered, recent, inflight, tasks, reached,
                   offers, online, closed, changes, history>>

\* The radio goes and comes; a peer is bound, or forgotten with its tokens; a
\* LINKCLOSE is heard.
Change ==
    /\ changes < MaxChanges /\ changes' = changes + 1
    /\ \/ online' = ~online /\ UNCHANGED <<bound, known, closed>>
       \/ \E peer \in Peers \ bound :
            bound' = bound \union {peer} /\ UNCHANGED <<online, known, closed>>
       \/ \E peer \in bound :
            /\ bound' = bound \ {peer}
            /\ known' = [d \in Dests |-> IF known[d] = peer THEN None ELSE known[d]]
            /\ UNCHANGED <<online, closed>>
       \/ \E d \in Dests : closed' = closed \union {d} /\ UNCHANGED <<online, bound, known>>
    /\ UNCHANGED <<attempts, backoff, remembered, recent, inflight, tasks, reached, offers,
                   expired, history>>

Init ==
    /\ bound \in SUBSET Peers /\ known = [d \in Dests |-> None]
    /\ attempts = [d \in Dests |-> 0] /\ backoff = {} /\ remembered = {} /\ recent = {}
    /\ inflight = {} /\ tasks = {} /\ reached = {} /\ offers = [p \in Packets |-> 0]
    /\ online = TRUE /\ expired = {} /\ closed = {} /\ changes = 0
    /\ onAir = {} /\ alone = {} /\ excused = {} /\ unproved = [d \in Dests |-> 0]

\* What the worker does with t, and what the sending tasks do.
Decide(t) ==
    \/ LinkClosed(t) \/ ExpiredInQueue(t) \/ Delay(t) \/ DelayInVain(t) \/ Repeated(t) \/ AnsweredLocally(t)
    \/ DispatchFirst(t) \/ DispatchKnown(t) \/ DispatchUnknown(t) \/ Refuse(t)

Carry(t) ==
    \/ FindPath(t) \/ NoPath(t) \/ NoContact(t) \/ CopyTooLate(t) \/ SendDirect(t) \/ NotSent(t)
    \/ Watch(t) \/ Flood(t) \/ Again(t)

Next ==
    \/ \E p \in Packets : Offer(p) \/ Released(p) \/ Age(p)
    \/ \E t \in tasks : Decide(t) \/ Carry(t)
    \/ \E peer \in Peers, d \in Dests : LearnDirect(peer, d)
    \/ \E x \in remembered : ChannelProof(x) \/ ProofOverdue(x)
    \/ \E k \in recent : WindowOver(k)
    \/ \E d \in Dests : ClosedOver(d) \/ BackoffOver(d)
    \/ Change

Spec == Init /\ [][Next]_vars

-----------------------------------------------------------------------------
(* Properties. *)

Copies == Packets \X Nat
Kinds == {"queued", "later", "primary", "copy", "watch", "flood", "again"}
Reasons == {"expired", "closed", "offline", "superseded", "repeated", "answered", "refused", "given up"}

TypeOK ==
    /\ bound \subseteq Peers /\ known \in [Dests -> Peers \union {None}]
    /\ attempts \in [Dests -> Nat] /\ backoff \subseteq Dests
    /\ remembered \subseteq Copies /\ recent \subseteq [class : Classes, dest : Dests]
    /\ inflight \subseteq Packets /\ offers \in [Packets -> Nat]
    /\ tasks \subseteq [copy : Copies, kind : Kinds, to : Peers \union {None} \union Nat,
                        sending : BOOLEAN, discover : BOOLEAN]
    /\ reached \subseteq Copies /\ alone \subseteq Copies
    /\ online \in BOOLEAN /\ expired \subseteq Packets /\ closed \subseteq Dests /\ changes \in 0..MaxChanges
    /\ onAir \subseteq [copy : Copies, over : {"direct", "channel"}]
    /\ excused \subseteq [copy : Copies, why : Reasons \union {"wronged"}]
    /\ unproved \in [Dests -> Nat]

Direct(x) == [copy |-> x, over |-> "direct"] \in onAir
Channel(x) == [copy |-> x, over |-> "channel"] \in onAir
Excused(x) == \E why \in Reasons : [copy |-> x, why |-> why] \in excused

\* No packet is lost in silence: one whose tasks have all ended was put on the
\* air, or expired, or met the link down, or was a repetition, or was refused
\* after Threshold bootstrap sends to a destination that answered none of
\* them (_send_direct_to_all_peers: "every ANNOUNCE, path request and
\* unknown-destination packet vanished with no log line").
NoSilentLoss ==
    \A p \in inflight :
        LET x == <<p, offers[p]>>
        IN  Tracked(x) = {} => Direct(x) \/ Channel(x) \/ Excused(x)

\* A packet that goes DIRECT alone is flooded only as a last resort: never one
\* that some peer was sent ("it fires only when DIRECT could not be attempted
\* at all").
LastResort == \A x \in alone : ~(Direct(x) /\ Channel(x))

\* While passes of a flood are still to come, the same bytes are not taken in
\* again (_send_broadcast_packet: the passes are tracked so that a copy is not
\* "accepted as 'not in flight' and broadcast on top of them").
NoCopyBesidePasses ==
    \A t \in tasks : t.kind = "again" => offers[t.copy[1]] = t.copy[2]
=============================================================================
