------------------------------ MODULE DirectSend ------------------------------
(***************************************************************************)
(* The attempt loops of bare DIRECT sends (smci/_direct.py): each send     *)
(* takes the radio, puts its frame on the air, waits for the firmware's    *)
(* ACK, listens, and tries again -- until it is ACKed, answered by RNS's   *)
(* reply, superseded by a newer link request, expired or out of attempts.  *)
(* What it learns is recorded as evidence about the path to its peer.      *)
(*                                                                         *)
(* The radio lock is the promise PriorityLock keeps: PriorityMutex.  An    *)
(* action is what a task does from one await to the next.                  *)
(***************************************************************************)
EXTENDS Naturals

CONSTANTS
    Sends,          \* sends, one task each
    Peers,
    Keys,           \* _answered_send_key: what a reply to a send names
    Peer,           \* Peer[s]: whom s is addressed to
    Key,            \* Key[s], None when no reply can be told to be s's
    Tier,           \* Tier[s]: the urgency of s
    Attempts,       \* Attempts[s]: the attempt budget of s
    LinkProofs,     \* sends that carry an LRPROOF: a newer request supersedes them
    Links,          \* keys of the links that peers ask for, answered by a send or not
    Asker,          \* Asker[k]: who asks for link k
    Expiring,       \* sends that have a deadline
    ExpireRetries,  \* plain PROOFs: the deadline holds for retries too
    Slow,           \* bound: keys that may be swept, once each
    Anon,           \* the sender of a reply that came over CHANNEL
    None

ASSUME SendAssumption ==
    /\ Peer \in [Sends -> Peers] /\ Key \in [Sends -> Keys \union {None}]
    /\ Tier \in [Sends -> 0..3] /\ Attempts \in [Sends -> Nat \ {0}]
    /\ LinkProofs \union Expiring \union ExpireRetries \subseteq Sends /\ Slow \subseteq Keys
\* An LRPROOF has the key of its link, whose asker it goes to; nothing else has.
ASSUME LinkAssumption ==
    /\ Links \subseteq Keys /\ Asker \in [Links -> Peers]
    /\ \A s \in LinkProofs : Key[s] \in Links /\ Peer[s] = Asker[Key[s]]
    /\ \A s \in Sends \ LinkProofs : Key[s] \notin Links
ASSUME NobodyAssumption ==
    /\ None \notin Sends \union Peers \union Keys \union Nat \union {"answered", "superseded"}
    /\ Anon \notin Peers \union {None}

VARIABLES
    pc,         \* pc[s]: where s is, see States
    attempt,    \* attempt[s]
    outcome,    \* outcome[s]: how the attempt in hand ended, see Outcomes
    verdict,    \* verdict[s]: what the loop returned and recorded, see Verdicts
    owner, want,\* the radio lock, see PriorityMutex
    table,      \* _send_answered_events: per key, the event, named by the send that made it
    ev,         \* ev[s]: the event s watches
    raised, cut,\* events that are set; those whose "superseded" is True
    answeredBy, \* _send_answered_at: per key, who replied
    how,        \* _send_answered_how
    asked,      \* links whose LINKREQUEST was received
    lapsed,     \* sends whose deadline has passed
    online, detached,
    \* history
    aired,      \* sends that put a frame on the air
    late,       \* late[s]: frames put there since s was answered or superseded
    swept,      \* keys of which something was swept
    told,       \* keys ever answered or superseded
    replied,    \* <<key, peer>> of every reply by a peer or Anon
    noted       \* sends found expired by the attempt that had got the lock

lock == <<owner, want>>
loop == <<pc, attempt, outcome, verdict>>
signals == <<table, ev, raised, cut, answeredBy, how, told, replied>>
world == <<asked, lapsed, online, detached>>
vars == <<loop, lock, signals, swept, world, late, aired, noted>>

\* idle: not started.  delay: an LRPROOF waits before it is dispatched.  lock: in
\* line.  gate: holds the radio, waits for quiet, airtime and the command.  ack:
\* waits for the ACK.  listen: the pause after an attempt.
States == {"idle", "delay", "lock", "gate", "ack", "listen", "done"}
OnRadio == {"gate", "ack", "listen"}

\* How an attempt ends.  acked: there was an ACK, or no code to tell one by.
\* answered: the reply came first.  missed: a full wait, or a dead first hop: a miss
\* of the path.  unheard: a time tightened by this node ran out, the send command
\* raised, or the send was superseded: no evidence.
Outcomes == {"none", "acked", "answered", "missed", "unheard"}
Good == {"acked", "answered"}

\* What the loop returns; credited: True, recorded as a success of the path to s's
\* peer; blamed: False, recorded as a failure of it.
Verdicts == {"none", "true", "credited", "false", "blamed"}

Lock == INSTANCE PriorityMutex WITH Tasks <- Sends, NoTask <- None, Tiers <- 0..3, NoTier <- None

Up == online /\ ~detached
With(S, x, b) == IF b THEN S \union {x} ELSE S

\* cancel_event.is_set()
Answered(s) == Key[s] # None /\ ev[s] \in raised
Superseded(s) == Key[s] # None /\ how[Key[s]] = "superseded"

AttemptsLeft(s) == attempt[s] + 1 < Attempts[s]

\* Past its deadline, at attempt a: a retry is sent all the same, save a PROOF's.
Expired(s, a) == s \in lapsed /\ (a = 0 \/ s \in ExpireRetries)

-----------------------------------------------------------------------------
(* The ways out of a loop's step. *)

At(s, place) == pc' = [pc EXCEPT ![s] = place]

\* Mutant: an attempt that ends the loop keeps the radio.
LeaveHeld(s) == UNCHANGED lock

\* The radio goes to the next in line, if s has it.
Leave(s) ==
    IF owner = s THEN Lock!Drop \/ \E u \in Sends : Lock!Pass(u)
    ELSE IF want[s] # None THEN Lock!Leave(s)
    ELSE UNCHANGED lock

\* s asks for the radio, after giving it up if it has it.
Enter(s) ==
    IF owner = s
    THEN \/ Lock!Waiting = {} /\ UNCHANGED lock /\ At(s, "gate")
         \/ (\E u \in Sends : Lock!Lend(u, Tier[s])) /\ At(s, "lock")
    ELSE \/ Lock!Take(s) /\ At(s, "gate")
         \/ Lock!Join(s, Tier[s]) /\ At(s, "lock")

\* The loop returns v.
End(s, v) ==
    /\ At(s, "done")
    /\ verdict' = [verdict EXCEPT ![s] = v]
    /\ outcome' = [outcome EXCEPT ![s] = "none"]
    /\ attempt' = [attempt EXCEPT ![s] = 0]
    /\ late' = [late EXCEPT ![s] = 0]
    /\ Leave(s)

\* The loop returns True, with evidence for the path if b.
EndTrue(s, b) == End(s, IF b THEN "credited" ELSE "true")

\* Mutant: whoever replied, the path to s's peer is credited.
RepliedByAnyone(s) == Key[s] # None

\* _send_answered_by names the peer s is addressed to.
RepliedByPeer(s) == Key[s] # None /\ answeredBy[Key[s]] = Peer[s]

\* The loop goes on to attempt a.
GoOn(s, a) ==
    /\ Enter(s)
    /\ attempt' = [attempt EXCEPT ![s] = a]
    /\ outcome' = [outcome EXCEPT ![s] = "none"]
    /\ UNCHANGED <<verdict, late>>

\* Mutant: the loop does not look at the event.
TryBlindly(s, a, set) ==
    \/ ~Up /\ End(s, "false")
    \/ Up /\ Expired(s, a) /\ End(s, "false")
    \/ Up /\ ~Expired(s, a) /\ GoOn(s, a)

\* Mutant: a superseded send counts as an answered one.
TryUnsuperseded(s, a, set) ==
    \/ ~Up /\ End(s, "false")
    \/ Up /\ set /\ EndTrue(s, RepliedByPeer(s))
    \/ Up /\ ~set /\ Expired(s, a) /\ End(s, "false")
    \/ Up /\ ~set /\ ~Expired(s, a) /\ GoOn(s, a)

\* The head of the loop, for attempt a; set: whether s's event is set.
Try(s, a, set) ==
    \/ ~Up /\ End(s, "false")
    \/ Up /\ set /\ Superseded(s) /\ End(s, "false")
    \/ Up /\ set /\ ~Superseded(s) /\ EndTrue(s, RepliedByPeer(s))
    \/ Up /\ ~set /\ Expired(s, a) /\ End(s, "false")
    \/ Up /\ ~set /\ ~Expired(s, a) /\ GoOn(s, a)

-----------------------------------------------------------------------------
(* A send. *)

\* An LRPROOF of a received request waits a moment; it can be superseded now.
Delay(s) ==
    /\ s \in LinkProofs /\ Key[s] \in asked /\ pc[s] = "idle" /\ ~detached
    /\ At(s, "delay")
    /\ UNCHANGED <<attempt, outcome, verdict, lock, signals, world, late, aired, swept, noted>>

\* The loop begins, unless superseded in the delay: _answered_send_event makes the
\* key's event, or finds it.
Start(s) ==
    /\ pc[s] = (IF s \in LinkProofs THEN "delay" ELSE "idle") /\ ~detached
    /\ IF Key[s] = None THEN UNCHANGED <<table, ev, raised, cut>> /\ Try(s, 0, FALSE)
       ELSE IF s \in LinkProofs /\ Superseded(s)
       THEN UNCHANGED <<table, ev, raised, cut>> /\ End(s, "false")
       ELSE LET k == Key[s]
                new == table[k] = None
                e == IF new THEN s ELSE table[k]
            IN /\ table' = [table EXCEPT ![k] = e]
               /\ ev' = [ev EXCEPT ![s] = e]
               /\ raised' = With(raised, s, new /\ answeredBy[k] # None)
               /\ cut' = With(cut, s, new /\ how[k] = "superseded")
               /\ Try(s, 0, e \in raised')
    /\ UNCHANGED <<answeredBy, how, told, replied, world, aired, swept, noted>>

\* Mutant: an attempt that expired in line is followed by the next one.
GetRadioAgain(s) ==
    /\ pc[s] = "lock" /\ owner = s
    /\ IF Expired(s, attempt[s])
       THEN /\ noted' = noted \union {s}
            /\ IF AttemptsLeft(s) THEN Try(s, attempt[s] + 1, Answered(s))
               ELSE End(s, "false")
       ELSE At(s, "gate") /\ UNCHANGED <<attempt, outcome, verdict, lock, late, noted>>
    /\ UNCHANGED <<signals, world, aired, swept>>

\* s has the radio, and may have expired in line for it.
GetRadio(s) ==
    /\ pc[s] = "lock" /\ owner = s
    /\ IF Expired(s, attempt[s])
       THEN End(s, "false") /\ noted' = noted \union {s}
       ELSE At(s, "gate") /\ UNCHANGED <<attempt, outcome, verdict, lock, late, noted>>
    /\ UNCHANGED <<signals, world, aired, swept>>

Air(s) ==
    /\ aired' = aired \union {s}
    /\ late' = [late EXCEPT ![s] = IF Key[s] \in told THEN @ + 1 ELSE @]

\* The attempt in hand ended as o; s listens, holding the radio.
Close(s, o) ==
    /\ At(s, "listen")
    /\ outcome' = [outcome EXCEPT ![s] = o]
    /\ UNCHANGED <<attempt, verdict>>

\* The wait for the ACK finds s's event set.
CutOutcome(s) == IF ev[s] \in cut THEN "unheard" ELSE "answered"

\* The gate is passed and send_msg returns: without an ACK code to wait for, or
\* with one; the wait is over at once if s has been answered meanwhile.
Transmit(s) ==
    /\ pc[s] = "gate" /\ online
    /\ Air(s)
    /\ \/ Close(s, "acked")
       \/ Answered(s) /\ Close(s, CutOutcome(s))
       \/ ~Answered(s) /\ At(s, "ack") /\ UNCHANGED <<attempt, outcome, verdict>>
    /\ UNCHANGED <<lock, signals, world, swept, noted>>

\* Mutant: a send command that raised gives the radio up at once.
TransmitFailsUnheld(s) ==
    /\ pc[s] = "gate"
    /\ Air(s) \/ UNCHANGED <<aired, late>>
    /\ Close(s, "unheard") /\ Leave(s)
    /\ UNCHANGED <<signals, world, swept, noted>>

\* send_msg raises, whether or not the frame has left; s listens all the same.
TransmitFails(s) ==
    /\ pc[s] = "gate"
    /\ Air(s) \/ UNCHANGED <<aired, late>>
    /\ Close(s, "unheard")
    /\ UNCHANGED <<lock, signals, world, swept, noted>>

HearAck(s) ==
    /\ pc[s] = "ack"
    /\ Close(s, "acked")
    /\ UNCHANGED <<lock, signals, world, late, aired, swept, noted>>

\* _wait_for_ack_event, its cancel_event set first.
CutWait(s) ==
    /\ pc[s] = "ack" /\ Answered(s)
    /\ Close(s, CutOutcome(s))
    /\ UNCHANGED <<lock, signals, world, late, aired, swept, noted>>

\* The wait runs out: a miss of the path (its full time, or a dead first hop), or
\* of a time tightened by this node.
AckTimeout(s) ==
    /\ pc[s] = "ack"
    /\ Close(s, "missed") \/ Close(s, "unheard")
    /\ UNCHANGED <<lock, signals, world, late, aired, swept, noted>>

\* The listen is over: the radio is released, and the loop returns or goes on.
EndListen(s) ==
    /\ pc[s] = "listen"
    /\ \/ outcome[s] \in Good /\ Superseded(s) /\ End(s, "false")
       \/ /\ outcome[s] \in Good /\ ~Superseded(s)
          /\ EndTrue(s, Answered(s) => RepliedByPeer(s))
       \/ /\ outcome[s] \notin Good /\ AttemptsLeft(s)
          /\ Try(s, attempt[s] + 1, Answered(s))
       \/ /\ outcome[s] \notin Good /\ ~AttemptsLeft(s)
          /\ End(s, IF Up /\ outcome[s] = "missed" THEN "blamed" ELSE "false")
    /\ UNCHANGED <<signals, world, aired, swept, noted>>

-----------------------------------------------------------------------------
(* The world. *)

\* _signal_send_answered: the keys of S are answered, or superseded.
Signal(S, by, word) ==
    /\ answeredBy' = [k \in Keys |-> IF k \in S THEN by ELSE answeredBy[k]]
    /\ how' = [k \in Keys |-> IF k \in S THEN word ELSE how[k]]
    /\ told' = told \union S
    /\ LET fresh == {table[k] : k \in S} \ (raised \union {None})
       IN /\ raised' = raised \union fresh
          /\ cut' = IF word = "superseded" THEN cut \union fresh ELSE cut

\* A PROOF that names key k arrives, from p or over CHANNEL.
Reply(k, p) ==
    /\ \E s \in Sends \ LinkProofs : Key[s] = k /\ s \in aired
    /\ \E s \in Sends : Key[s] = k /\ pc[s] # "done"     \* bound
    /\ <<k, p>> \notin replied
    /\ Signal({k}, p, "answered")
    /\ replied' = replied \union {<<k, p>>}
    /\ UNCHANGED <<loop, lock, table, ev, world, late, aired, swept, noted>>

\* _pending_link_proofs: from the start of the delay to the end of the send.
PendingProofs(p) == {s \in LinkProofs : Peer[s] = p /\ pc[s] \notin {"idle", "done"}}

\* The LINKREQUEST for link k arrives: every LRPROOF pending for another link of
\* its peer is superseded.
Ask(k) ==
    /\ k \in Links \ asked /\ ~detached
    /\ \E s \in LinkProofs : pc[s] # "done"     \* bound
    /\ asked' = asked \union {k}
    /\ Signal({Key[s] : s \in {t \in PendingProofs(Asker[k]) : Key[t] # k /\ ~Superseded(t)}},
              Anon, "superseded")
    /\ UNCHANGED <<loop, lock, table, ev, replied, lapsed, online, detached, late, aired, swept, noted>>

\* _send_answered_sweep drops what it knows of a key, or its event: either may be
\* older than proof_correlation_ttl_s while a send waits in line.
Sweep(k) ==
    /\ k \in Slow \ swept /\ \E s \in Sends : Key[s] = k /\ pc[s] = "lock"     \* bound
    /\ \/ /\ answeredBy[k] # None
          /\ answeredBy' = [answeredBy EXCEPT ![k] = None] /\ how' = [how EXCEPT ![k] = None]
          /\ UNCHANGED table
       \/ /\ table[k] # None
          /\ table' = [table EXCEPT ![k] = None] /\ UNCHANGED <<answeredBy, how>>
    /\ swept' = swept \union {k}
    /\ UNCHANGED <<loop, lock, ev, raised, cut, told, replied, world, late, aired, noted>>

\* The deadline passes; it is looked at before an attempt, and with the radio got.
Lapse(s) ==
    /\ s \in Expiring \ lapsed
    /\ \/ pc[s] \in {"idle", "lock"}
       \/ pc[s] = "listen" /\ AttemptsLeft(s)
    /\ lapsed' = lapsed \union {s}
    /\ UNCHANGED <<loop, lock, signals, asked, online, detached, late, aired, swept, noted>>

\* The radio is lost or found again.
ChangeRadio ==
    /\ \E s \in Sends : pc[s] # "done"     \* bound
    /\ online' = ~online
    /\ UNCHANGED <<loop, lock, signals, asked, lapsed, detached, late, aired, swept, noted>>

Detach ==
    /\ ~detached /\ \E s \in Sends : pc[s] \notin {"idle", "done"}     \* bound
    /\ detached' = TRUE
    /\ UNCHANGED <<loop, lock, signals, asked, lapsed, online, late, aired, swept, noted>>

\* _async_teardown cancels the task wherever it waits.
Cancel(s) ==
    /\ detached /\ pc[s] \notin {"idle", "done"}
    /\ End(s, "false")
    /\ UNCHANGED <<signals, world, aired, swept, noted>>

-----------------------------------------------------------------------------
Init ==
    /\ pc = [s \in Sends |-> "idle"] /\ attempt = [s \in Sends |-> 0]
    /\ outcome = [s \in Sends |-> "none"] /\ verdict = [s \in Sends |-> "none"]
    /\ Lock!Init
    /\ table = [k \in Keys |-> None] /\ ev = [s \in Sends |-> None]
    /\ raised = {} /\ cut = {} /\ told = {} /\ replied = {}
    /\ answeredBy = [k \in Keys |-> None] /\ how = [k \in Keys |-> None]
    /\ asked = {} /\ lapsed = {} /\ online = TRUE /\ detached = FALSE
    /\ aired = {} /\ late = [s \in Sends |-> 0]
    /\ swept = {} /\ noted = {}

\* What the loop runs of s's task.
Run(s) ==
    \/ Start(s) \/ GetRadio(s) \/ Transmit(s) \/ TransmitFails(s)
    \/ HearAck(s) \/ CutWait(s) \/ AckTimeout(s) \/ EndListen(s)

Next ==
    \/ \E s \in Sends : Run(s) \/ Delay(s) \/ Lapse(s) \/ Cancel(s)
    \/ \E k \in Keys : Ask(k) \/ Sweep(k) \/ \E p \in Peers \union {Anon} : Reply(k, p)
    \/ ChangeRadio \/ Detach

Spec == Init /\ [][Next]_vars

\* The loop runs some ready or cancelled task, and every await of a send has a
\* time-out.
Fairness == WF_vars(\E s \in Sends : pc[s] # "idle" /\ (Run(s) \/ Cancel(s)))

FairSpec == Spec /\ Fairness

-----------------------------------------------------------------------------
(* Properties. *)

LoopTypes ==
    /\ pc \in [Sends -> States] /\ outcome \in [Sends -> Outcomes]
    /\ verdict \in [Sends -> Verdicts] /\ attempt \in [Sends -> Nat]
    /\ \A s \in Sends : attempt[s] < Attempts[s]
    /\ late \in [Sends -> Nat]
    /\ owner \in Sends \union {None} /\ want \in [Sends -> 0..3 \union {None}]

SignalTypes ==
    /\ table \in [Keys -> Sends \union {None}] /\ ev \in [Sends -> Sends \union {None}]
    /\ raised \subseteq Sends /\ cut \subseteq raised
    /\ answeredBy \in [Keys -> Peers \union {Anon, None}]
    /\ how \in [Keys -> {"answered", "superseded", None}]
    /\ told \union swept \subseteq Keys /\ replied \subseteq Keys \X (Peers \union {Anon})

\* Every variable stays in its range; no send has more attempts than its budget.
TypeOK ==
    /\ LoopTypes /\ SignalTypes
    /\ asked \subseteq Links /\ lapsed \subseteq Expiring
    /\ online \in BOOLEAN /\ detached \in BOOLEAN
    /\ aired \subseteq Sends /\ noted \subseteq Sends

\* Two DIRECT exchanges never overlap, the listen after each included, whatever
\* fails in them: "strictly one ... in flight at a time"
\* (_send_direct_frame_and_wait_for_ack).
OneExchange == \A s \in Sends : pc[s] \in OnRadio => owner = s

Returns(s, v) == verdict[s] = "none" /\ verdict'[s] = v

\* A path is credited with a send only if its own peer ACKed the send or
\* delivered the reply to it: a reply relayed by another peer, or over CHANNEL,
\* "says nothing about this peer's path" (_send_direct_with_attempts).
EvidenceSound ==
    [][\A s \in Sends : Returns(s, "credited") =>
           outcome[s] = "acked" \/ <<Key[s], Peer[s]>> \in replied]_vars

\* A send that returns True was ACKed, or what it asked for was answered; being
\* superseded is neither (_send_direct_with_attempts).  Sends whose key was
\* swept meanwhile excepted.
TrueMeansHeard ==
    [][\A s \in Sends : (Returns(s, "true") \/ Returns(s, "credited")) /\ Key[s] \notin swept =>
           outcome[s] = "acked" \/ \E p \in Peers \union {Anon} : <<Key[s], p>> \in replied]_vars

\* Once a send is answered or superseded at most one more frame of it goes out,
\* the one whose attempt had begun (_signal_send_answered); sends whose key
\* was swept meanwhile excepted.
OneLateFrame == \A s \in Sends : Key[s] \notin swept => late[s] <= 1

\* A packet found expired by the attempt that got the radio does not get it again
\* ("before this, an attempt-0 expiry inside the lock wait fell through to
\* attempt 1, which transmitted the expired packet after all").
ExpiredNeverSent == \A s \in noted : pc[s] = "done"

\* Every send that has begun returns: the sends are finitely many, so in the end
\* none is on its way.
EverySendEnds == <>[](\A s \in Sends : pc[s] \in {"idle", "done"})
=============================================================================
