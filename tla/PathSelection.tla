---------------------------- MODULE PathSelection ----------------------------
(***************************************************************************)
(* How DIRECT sends get the path to their peer (smci/_paths.py, with the   *)
(* peer's life in _peers.py): the scoreboard of candidate paths and the    *)
(* choice among them, the discovery that is run when none is left, which   *)
(* concurrent sends share, its back-off, and the setting of the path on    *)
(* the radio's contact, which routes the text frames.                      *)
(*                                                                         *)
(* Every table is keyed by the peer and no rule reads two peers' entries,  *)
(* so one peer is modelled.  An action is what a task does from one await  *)
(* to the next.  Rates and ages are left out: where they decide, either    *)
(* outcome is possible.                                                    *)
(***************************************************************************)
EXTENDS Naturals, FiniteSets, Sequences

CONSTANTS
    Senders,     \* tasks that send to the peer, one packet at a time
    Binders,     \* tasks that discover the peer when it is bound
    Paths,
    None,
    Switch,      \* path_switch_after_misses
    Exhaust,     \* PATH_EXHAUST_MISSES
    Kept,        \* PATH_CANDIDATES_KEPT
    Quick,       \* path_discovery_quick_attempts
    Rounds,      \* POST_BIND_DISCOVERY_ROUNDS
    Overflow,    \* the failures after which the back-off factor's power is no float
    Faults       \* what may go wrong: "forget", "offline", "fail"

Tasks == Senders \union Binders

ASSUME PathAssumption ==
    /\ Senders \intersect Binders = {} /\ None \notin Tasks \union Paths \union {"raise"}
    /\ "raise" \notin Paths
    /\ {Switch, Exhaust, Quick, Rounds, Overflow} \subseteq Nat \ {0} /\ Kept \in Nat \ {0, 1}

VARIABLES
    pc,         \* pc[t]: where t is, see States
    n,          \* n[t]: the quick attempt t is in
    round,      \* round[t]: the post-bind round t is in
    path,       \* path[t]: the path t sets on the contact, or its frame went over
    leader,     \* leader[t]: whose discovery t waits for
    bound,      \* the peer is in _peers
    contact,    \* the radio's contact of the peer is known
    online,
    resolved,   \* _resolved_paths
    fails,      \* _path_discovery_failures
    backoff,    \* _path_discovery_backoff_until lies ahead
    pending,    \* _pending_path_discoveries: the leader whose future it is
    board,      \* _path_boards
    line,       \* the set commands that wait for the radio's command lock
    device,     \* the path the radio's contact holds
    \* history
    tangled     \* the peer was forgotten during the discovery in flight

task == <<pc, n, round, path, leader>>
world == <<bound, contact, online>>
tables == <<resolved, fails, backoff, pending, board>>
vars == <<task, world, tables, line, device, tangled>>

\* idle.  set: a sender sets the path it chose.  follow: waits for another's
\* discovery.  refresh, query, persist: leads a discovery.  send: waits for the radio.
\* air: waits for the ACK.  wait, look: a binder between rounds, in a contact refresh.
States == {"idle", "set", "follow", "refresh", "query", "persist", "send", "air", "wait", "look"}
Leading == {"refresh", "query", "persist"}
Leaders == {t \in Tasks : pc[t] \in Leading}

-----------------------------------------------------------------------------
(* The scoreboard. *)

EmptyBoard == [known |-> {}, misses |-> [p \in Paths |-> 0], heard |-> {},
               current |-> None, belief |-> None]

\* The bound of the counters of misses: beyond it a further miss decides nothing.
Most == IF Switch > Exhaust THEN Switch ELSE Exhaust

\* Missed too often, and nothing heard over it since.
Dead(b, p) == b.misses[p] >= Exhaust /\ p \notin b.heard

\* Mutant: the worst-ranked candidate is dropped, current or not.
DroppableAny(b) == b.known

\* The candidates one of which makes room, the worst-ranked, for another.
Droppable(b) == b.known \ {b.current}

Full(b) == Cardinality(b.known) >= Kept

\* The boards that may come of hearing of p.
Added(b, p) ==
    IF p \in b.known THEN {[b EXCEPT !.heard = IF b.misses[p] > 0 THEN @ \union {p} ELSE @]}
    ELSE {[b EXCEPT !.known = (@ \ out) \union {p}, !.heard = @ \ out,
                    !.misses = [q \in Paths |-> IF q \in out THEN 0 ELSE @[q]]] :
            out \in IF Full(b) THEN {{q} : q \in Droppable(b)} ELSE {{}}}

\* The boards that may come of discovering p.
Discovered(b, p) ==
    {[c EXCEPT !.misses[p] = 0, !.heard = @ \ {p},
               !.current = IF @ = None \/ (@ # p /\ c.misses[@] >= Switch) THEN p ELSE @] : c \in Added(b, p)}

\* What _choose_path may return; None when every candidate is exhausted.  A path past
\* the threshold may be used still, for its rate or because it has cooled down.
Choices(b) ==
    IF b.current # None /\ b.misses[b.current] < Switch THEN {b.current}
    ELSE {p \in b.known : ~Dead(b, p)}
         \union IF \E p \in b.known : ~Dead(b, p) /\ b.misses[p] < Switch THEN {} ELSE {None}

\* One attempt's miss on p.
Missed(b, p) ==
    IF p \notin b.known THEN b
    ELSE [b EXCEPT !.misses[p] = IF @ < Most THEN @ + 1 ELSE @, !.heard = @ \ {p}]

\* The boards that may come of a send's result on p, ok or not.
Result(b, p, ok) ==
    IF p = None THEN {b}
    ELSE LET Noted(c) == [c EXCEPT !.misses[p] = IF ok THEN 0 ELSE @, !.heard = @ \ {p}]
             Switched(c) == IF c.current = None THEN {p}
                            ELSE IF ok THEN {c.current, p} ELSE {c.current}
         IN UNION {{[Noted(c) EXCEPT !.current = cur] : cur \in Switched(c)} :
                     c \in IF p \in b.known THEN {b} ELSE Added(b, p)}

-----------------------------------------------------------------------------
(* Discovery.  A task that leads one is in Leading; discover_path ends with a *)
(* path, None or an exception ("raise": the back-off's power overflows).      *)

\* Where t, in round k, goes on when its discovery, or the one it follows, ends with r:
\* a sender to its attempts or, with nothing, to the broadcast; a binder to its next
\* round.
After(t, r, k) ==
    IF t \in Senders THEN IF r \in Paths THEN "send" ELSE "idle"
    ELSE IF r = None /\ k < Rounds /\ (online \/ k > 0) THEN "wait" ELSE "idle"

\* Mutant: an exception leaves the future as it is.
EndsForLeft(t, r) == {t} \union {u \in Tasks : r # "raise" /\ pc[u] = "follow" /\ leader[u] = t}

\* The leader and those that wait for its future.
EndsFor(t, r) == {t} \union {u \in Tasks : pc[u] = "follow" /\ leader[u] = t}

\* t's discovery ends with r; whatever future the table holds is taken out.
Complete(t, r) ==
    /\ pc' = [u \in Tasks |-> IF u \in EndsFor(t, r) THEN After(u, r, round[u]) ELSE pc[u]]
    /\ leader' = [u \in Tasks |-> IF u \in EndsFor(t, r) THEN None ELSE leader[u]]
    /\ n' = [n EXCEPT ![t] = 0]
    /\ path' = [path EXCEPT ![t] = None]
    /\ pending' = None
    /\ tangled' = (tangled /\ Leaders # {t})

\* t goes on at place, leading a discovery in its attempt k.
Lead(t, place, k) ==
    /\ pc' = [pc EXCEPT ![t] = place]
    /\ n' = [n EXCEPT ![t] = k]

\* Mutant: the back-off is not looked at.
MayAskAnyway(b) == online

\* discover_path goes past its first checks, b being whether there is a back-off.
MayAsk(b) == online /\ ~b

\* Mutant: every caller leads a discovery.
JoinableNever == FALSE

\* There is a discovery to wait for.
Joinable == pending # None

\* _discover_path_coalesced for t in round k; b, whether there is a back-off; c, whether
\* the contact is known.
Discover(t, b, k, c) ==
    /\ path' = [path EXCEPT ![t] = None]
    /\ UNCHANGED tangled
    /\ \/ /\ Joinable
          /\ pc' = [pc EXCEPT ![t] = "follow"]
          /\ leader' = [leader EXCEPT ![t] = pending]
          /\ UNCHANGED <<n, pending>>
       \/ /\ ~Joinable /\ MayAsk(b)
          /\ pending' = t
          /\ IF c THEN Lead(t, "query", 1) ELSE Lead(t, "refresh", 0)
          /\ UNCHANGED leader
       \/ /\ ~Joinable /\ ~MayAsk(b)
          /\ pc' = [pc EXCEPT ![t] = After(t, None, k)]
          /\ UNCHANGED <<n, leader, pending>>

\* The contacts were read anew, the peer's is among them or not.  (Its turn with the
\* command lock is left out: it sets nothing.)
Refreshed(t) ==
    /\ pc[t] = "refresh"
    /\ contact' \in {contact, TRUE}
    /\ IF contact' /\ online
       THEN Lead(t, "query", 1) /\ UNCHANGED <<leader, path, pending, tangled>>
       ELSE Complete(t, None)
    /\ UNCHANGED <<round, bound, online, resolved, fails, backoff, board, line, device>>

\* A PATH_RESPONSE of the peer: the path is adopted, and then set on the contact.
Answered(t, p) ==
    /\ pc[t] = "query"
    /\ resolved' = p
    /\ fails' = 0 /\ backoff' = FALSE
    /\ board' \in Discovered(board, p)
    /\ Lead(t, "persist", 0)
    /\ path' = [path EXCEPT ![t] = p]
    /\ line' = Append(line, t)
    /\ UNCHANGED <<round, leader, world, pending, device, tangled>>

AttemptsLeft(t) == n[t] < Quick

\* No answer, an exception, or another peer's answer.
Unanswered(t) ==
    /\ pc[t] = "query"
    /\ IF AttemptsLeft(t)
       THEN /\ IF online THEN Lead(t, "query", n[t] + 1) /\ UNCHANGED <<leader, path, pending, tangled>>
                         ELSE Complete(t, None)
            /\ UNCHANGED <<fails, backoff>>
       ELSE IF fails < Overflow
       THEN fails' = fails + 1 /\ backoff' = TRUE /\ Complete(t, None)
       ELSE Complete(t, "raise") /\ UNCHANGED <<fails, backoff>>
    /\ UNCHANGED <<round, world, resolved, board, line, device>>

BackoffEnds == backoff /\ backoff' = FALSE
               /\ UNCHANGED <<task, world, resolved, fails, pending, board, line, device, tangled>>

\* Mutant: the scoreboard takes the path for set before the answer.
BeliefAfterEarly(p, ok) == p

\* What the scoreboard holds the contact's path to be, after setting p.
BeliefAfter(p, ok) == IF ok THEN p ELSE board.belief

\* The radio has done the first set command in line, or it failed.
SetDone(t, ok) ==
    /\ line # <<>> /\ t = Head(line)
    /\ line' = Tail(line)
    /\ ok \/ "fail" \in Faults
    /\ device' = IF ok THEN path[t] ELSE device
    /\ board' = [board EXCEPT !.belief = BeliefAfter(path[t], ok)]
    /\ IF pc[t] = "set"
       THEN /\ pc' = [pc EXCEPT ![t] = "send"]
            /\ path' = [path EXCEPT ![t] = None]
            /\ UNCHANGED <<n, leader, pending, tangled>>
       ELSE Complete(t, path[t])
    /\ UNCHANGED <<round, world, resolved, fails, backoff>>

-----------------------------------------------------------------------------
(* A send. *)

\* The scoreboard with the path in use on it.
Refilled ==
    IF resolved = None THEN {board}
    ELSE IF resolved \in board.known THEN {board}
    ELSE {[b EXCEPT !.current = IF @ = None THEN resolved ELSE @] : b \in Added(board, resolved)}

\* _select_path, and discovery when it finds none.
Select(t) ==
    /\ pc[t] = "idle" /\ bound
    /\ \E b \in Refilled : \E c \in Choices(b) :
         /\ resolved' = c
         /\ board' = IF b.current = None THEN [b EXCEPT !.current = c] ELSE b
         /\ IF c = None THEN Discover(t, backoff, 0, contact) /\ UNCHANGED line
            ELSE /\ UNCHANGED <<n, leader, pending, tangled>>
                 /\ IF b.belief # c /\ contact
                    THEN /\ pc' = [pc EXCEPT ![t] = "set"]
                         /\ path' = [path EXCEPT ![t] = c]
                         /\ line' = Append(line, t)
                    ELSE /\ pc' = [pc EXCEPT ![t] = IF contact THEN "send" ELSE "idle"]
                         /\ UNCHANGED <<path, line>>
    /\ UNCHANGED <<round, world, fails, backoff, device>>

\* An attempt: one exchange at a time, over the path the radio holds.
Transmit(t) ==
    /\ pc[t] = "send" /\ online
    /\ \A u \in Tasks : pc[u] # "air"
    /\ pc' = [pc EXCEPT ![t] = "air"]
    /\ path' = [path EXCEPT ![t] = device]
    /\ UNCHANGED <<n, round, leader, world, tables, line, device, tangled>>

\* The attempt ends, and with it the send, or not.
EndAttempt(t, place) ==
    /\ pc[t] = "air"
    /\ pc' = [pc EXCEPT ![t] = place]
    /\ path' = [path EXCEPT ![t] = None]
    /\ UNCHANGED <<n, round, leader, world, resolved, fails, backoff, pending, line, device, tangled>>

\* ACKed or answered.
Heard(t) == EndAttempt(t, "idle") /\ board' \in Result(board, resolved, TRUE)

\* A full wait without an ACK: a miss of the path, and of the send if it was its last.
Silent(t) ==
    LET b == IF resolved = None THEN board ELSE Missed(board, resolved)
    IN \/ EndAttempt(t, "send") /\ board' = b
       \/ EndAttempt(t, "idle") /\ board' \in Result(b, resolved, FALSE)

\* No evidence: the wait was shortened, or the send command failed.
Void(t) == \E place \in {"send", "idle"} : EndAttempt(t, place) /\ UNCHANGED board

\* The send expires, is answered, or finds the radio gone.
GiveUp(t) ==
    /\ pc[t] = "send"
    /\ pc' = [pc EXCEPT ![t] = "idle"]
    /\ UNCHANGED <<n, round, path, leader, world, tables, line, device, tangled>>

-----------------------------------------------------------------------------
(* The peer's life. *)

\* A frame binds a new peer; its path is asked for at once.
Bind(t) ==
    /\ ~bound /\ pc[t] = "idle"
    /\ bound' = TRUE
    /\ round' = [round EXCEPT ![t] = 0]
    /\ Discover(t, backoff, 0, contact)
    /\ UNCHANGED <<contact, online, resolved, fails, backoff, board, line, device>>

\* The rest of a round: the back-off is lifted and the path asked for.
AskAgain(t) ==
    /\ fails' = 0 /\ backoff' = FALSE
    /\ round' = [round EXCEPT ![t] = @ + 1]
    /\ Discover(t, FALSE, round[t] + 1, contact')
    /\ UNCHANGED <<bound, online, resolved, board, line, device>>

\* A post-bind round begins.
Round(t) ==
    /\ pc[t] = "wait"
    /\ \/ /\ online /\ bound /\ resolved = None /\ contact
          /\ UNCHANGED contact /\ AskAgain(t)
       \/ /\ pc' = [pc EXCEPT ![t] = IF online /\ bound /\ resolved = None THEN "look" ELSE "idle"]
          /\ ~(online /\ bound /\ resolved = None /\ contact)
          /\ UNCHANGED <<n, round, path, leader, world, tables, line, device, tangled>>

\* The refresh within a round is over.
Looked(t) ==
    /\ pc[t] = "look"
    /\ contact' \in {contact, TRUE}
    /\ \/ resolved = None /\ AskAgain(t)
       \/ /\ resolved # None
          /\ pc' = [pc EXCEPT ![t] = "idle"]
          /\ UNCHANGED <<n, round, path, leader, bound, online, tables, line, device, tangled>>

\* The path a flood came by, or that the peer reported, is a candidate.
Learn(p) ==
    /\ bound
    /\ board' \in Added(board, p)
    /\ UNCHANGED <<task, world, resolved, fails, backoff, pending, line, device, tangled>>

\* The TTL sweep: nothing of the peer is kept.
Forget ==
    /\ "forget" \in Faults /\ bound
    /\ bound' = FALSE
    /\ resolved' = None /\ fails' = 0 /\ backoff' = FALSE /\ pending' = None /\ board' = EmptyBoard
    /\ tangled' = (Leaders # {})
    /\ UNCHANGED <<task, contact, online, line, device>>

Radio ==
    /\ "offline" \in Faults
    /\ online' = ~online
    /\ UNCHANGED <<task, bound, contact, tables, line, device, tangled>>

-----------------------------------------------------------------------------

Init ==
    /\ pc = [t \in Tasks |-> "idle"]
    /\ n = [t \in Tasks |-> 0] /\ round = [t \in Tasks |-> 0]
    /\ path = [t \in Tasks |-> None] /\ leader = [t \in Tasks |-> None]
    /\ bound = FALSE /\ contact \in BOOLEAN /\ online = TRUE
    /\ resolved = None /\ fails = 0 /\ backoff = FALSE /\ pending = None /\ board = EmptyBoard
    /\ line = <<>> /\ device \in Paths \union {None} /\ tangled = FALSE

Step(t) ==
    \/ Refreshed(t)
    \/ \E p \in Paths : Answered(t, p)
    \/ Unanswered(t)
    \/ \E ok \in BOOLEAN : SetDone(t, ok)
    \/ Transmit(t) \/ Heard(t) \/ Silent(t) \/ Void(t) \/ GiveUp(t)
    \/ Round(t) \/ Looked(t)

Next ==
    \/ \E t \in Tasks : Step(t)
    \/ \E t \in Senders : Select(t)
    \/ \E t \in Binders : Bind(t)
    \/ \E p \in Paths : Learn(p)
    \/ BackoffEnds \/ Forget \/ Radio

Spec == Init /\ [][Next]_vars

-----------------------------------------------------------------------------

Boards == [known : SUBSET Paths, misses : [Paths -> 0..Most], heard : SUBSET Paths,
           current : Paths \union {None}, belief : Paths \union {None}]

TypeOK ==
    /\ pc \in [Tasks -> States] /\ n \in [Tasks -> 0..Quick] /\ round \in [Tasks -> 0..Rounds]
    /\ path \in [Tasks -> Paths \union {None}] /\ leader \in [Tasks -> Tasks \union {None}]
    /\ {bound, contact, online, backoff, tangled} \subseteq BOOLEAN
    /\ resolved \in Paths \union {None} /\ fails \in 0..Overflow /\ pending \in Tasks \union {None}
    /\ board \in Boards
    /\ line \in Seq(Tasks) /\ device \in Paths \union {None}

\* One discovery of the peer is in flight at a time, however many sends and
\* binders want its path; unless the peer was forgotten in the midst of one.
OneDiscovery == tangled \/ Cardinality(Leaders) <= 1

Asks == \E t \in Tasks : pc'[t] = "query" /\ (pc[t] # "query" \/ n'[t] # n[t])

\* The peer is not asked for its path in the back-off of a failed round.
BackoffRespected == [][Asks => tangled \/ ~backoff']_vars

\* The path the scoreboard holds to be the contact's is the contact's.
BeliefTrue == board.belief # None => board.belief = device

\* The scoreboard keeps its current path whatever it drops, and no more than Kept.
BoardSound ==
    /\ board.current # None => board.current \in board.known
    /\ Cardinality(board.known) <= Kept

\* Whoever waits for another's discovery waits for one that is in flight, and so
\* hears how it ended.
FollowersHaveLeader == \A t \in Tasks : pc[t] = "follow" => leader[t] \in Leaders

\* A miss is counted against the path the frame went over.
MissEarned ==
    [][\A p \in Paths : board'.misses[p] > board.misses[p] =>
         \E t \in Tasks : pc[t] = "air" /\ path[t] = p]_vars

=============================================================================
