---------------------------- MODULE TextFragments ----------------------------
(***************************************************************************)
(* The fragmented sends of smci/_direct.py to one peer, as text: what is   *)
(* remembered of an earlier send of the same bytes, a first pass over the  *)
(* fragments, a QUERY, a second pass over what is missing and a last       *)
(* QUERY; and the far side, which reassembles and answers.                 *)
(*                                                                         *)
(* A frame is one exchange under the radio lock (DirectSend): it is lost,  *)
(* or it arrives and its ACK comes back or not.  The far side reads it     *)
(* before the next exchange.  An answer may come late or never.  Sends     *)
(* overlap as they like: the slots of PrioritySemaphore hold a send back   *)
(* only until a time-out.                                                  *)
(***************************************************************************)
EXTENDS Naturals, FiniteSets

CONSTANTS
    Sends,          \* the fragmented sends to the peer
    PacketOf,       \* PacketOf[t]: the bytes send t carries
    Total,          \* fragments a packet is cut into
    RawTotal,       \* fragments a raw window cuts it into, if one was tried before
    Pass0,          \* direct_fragment_pass0_attempts
    Finish,         \* direct_fragment_finish_attempts
    Attempts,       \* direct_send_attempts, or those of a handshake
    MaxFaults,      \* bound: events of the kinds in Faults
    Faults,         \* among "abort", "cancel", "evict", "forget", "late"
    None

Packets == {PacketOf[t] : t \in Sends}
Frags == 1..Total
Ids == 0..Cardinality(Sends)
Keys == Ids \X {Total, RawTotal}

ASSUME FragmentsAssumption ==
    /\ IsFiniteSet(Sends) /\ {Total, RawTotal, Pass0, Finish, Attempts} \subseteq Nat \ {0}
    /\ MaxFaults \in Nat
    /\ Faults \subseteq {"abort", "cancel", "evict", "forget", "late"}

VARIABLES
    send,       \* send[t]: what the send knows, see New
    memory,     \* _resumable_sends, per packet
    nextId,     \* _next_pkt_id
    blame,      \* sends whose recorded failures no success has cleared since
    far,        \* the far side, see FarInit
    told,       \* keys of which a late "complete" is still on its way
    faults      \* faults so far

textVars == <<send, memory, nextId, blame, far, told, faults>>

Fault(kind) == kind \in Faults /\ faults < MaxFaults /\ faults' = faults + 1

New ==
    [stage |-> "new",   \* "pass0", "ask0", "answer0", "pass1", "ask1", "answer1",
                        \* "done"
     rush |-> FALSE,    \* of the handshake class: no QUERY between the passes
     id |-> None, resumed |-> FALSE, acked |-> {},
     todo |-> {},       \* fragments the pass has still to send
     try |-> 0,         \* attempts made of the first of them
     budget |-> 0,
     word |-> None,     \* the answer to its QUERY, on its way
     expired |-> FALSE, \* dropped as too old before its first transmission
     sent |-> FALSE,    \* history: a frame of it went out after that
     basis |-> 0,       \* history: the bucket its beliefs are of
     sure |-> FALSE,    \* history: that was the bucket it ended with
     result |-> "open"] \* "true", "false", "cancelled"

-----------------------------------------------------------------------------
(* The far side: functions of its state y. *)

FarInit ==
    [bucket |-> [k \in Keys |-> <<>>],  \* _reassembly: fragment to content
     done |-> {},           \* _dedup
     epoch |-> [k \in Keys |-> 0],      \* history: buckets of k that were lost
     delivered |-> {},      \* packets handed to RNS whole
     garbled |-> FALSE]     \* whether anything else was

Lose(y, k) == [y EXCEPT !.bucket[k] = <<>>, !.epoch[k] = @ + 1]

\* Mutant: a key without the number of fragments.
KeyById(x, total) == <<x.id, RawTotal>>

\* _reassembly_key
Key(x, total) == <<x.id, total>>

\* _handle_direct_multifragment_frame, _add_channel_fragment: chunk c of key k.
Receive(y, k, c) ==
    LET b == y.bucket[k]
        full == [i \in DOMAIN b \union {c[2]} |-> IF i = c[2] THEN c ELSE b[i]]
        whole == {p \in Packets : \E cut \in {"text", "raw"} :
                    \A i \in DOMAIN full : full[i] = <<p, i, cut>>}
    IN IF k \in y.done THEN y
       ELSE IF c[2] \in DOMAIN b THEN IF b[c[2]] = c THEN y ELSE Lose(y, k)
       ELSE IF DOMAIN full # 1..k[2] THEN [y EXCEPT !.bucket[k] = full]
       ELSE [y EXCEPT !.bucket[k] = <<>>, !.done = @ \union {k},
                      !.delivered = @ \union whole, !.garbled = @ \/ whole = {}]

\* _bucket_state as the answer to a QUERY, of a packet not delivered.
Answer(y, k, bitmap) ==
    [complete |-> FALSE, epoch |-> y.epoch[k],
     held |-> IF bitmap THEN DOMAIN y.bucket[k] ELSE None]

-----------------------------------------------------------------------------
(* The sender. *)

Reconciles(t) == ~send[t].rush
First(x) == CHOOSE i \in x.todo : \A j \in x.todo : i <= j

Become(t, x) == send' = [send EXCEPT ![t] = x]

\* The send of t returns v; what it knew is gone with it.
Return(t, x, v) ==
    Become(t, [New EXCEPT !.stage = "done", !.result = v,
                          !.expired = x.expired, !.sent = x.sent,
                          !.sure = x.sure \/ x.basis = far.epoch[Key(x, Total)]])

\* Mutant: what is remembered is remembered as sent.
RememberAll(t, x) ==
    IF Reconciles(t) /\ x.acked # {}
    THEN memory' = [memory EXCEPT ![PacketOf[t]] =
                    [id |-> x.id, total |-> Total, acked |-> Frags, basis |-> x.basis]]
    ELSE UNCHANGED memory

\* remember_for_resume
Remember(t, x) ==
    IF Reconciles(t) /\ x.acked # {}
    THEN memory' = [memory EXCEPT ![PacketOf[t]] =
                    [id |-> x.id, total |-> Total, acked |-> x.acked, basis |-> x.basis]]
    ELSE UNCHANGED memory

\* Everything is acknowledged, or the far side says it has everything.
Succeed(t, x) ==
    /\ memory' = [memory EXCEPT ![PacketOf[t]] = None]
    /\ Return(t, x, "true")

\* The second pass over what is missing: with the larger budget when the far
\* side holds a part.
Redrive(t, x) ==
    Become(t, [x EXCEPT !.stage = "pass1", !.todo = Frags \ x.acked, !.try = 0,
                        !.budget = IF Reconciles(t) /\ x.acked # {} THEN Finish ELSE Attempts])

\* After the first pass, or after its QUERY.
GoOn(t, x) ==
    IF x.acked = Frags THEN Succeed(t, x)
    ELSE Redrive(t, x) /\ UNCHANGED memory

\* The pass has no more to send.
PassEnds(t, x) ==
    IF x.stage = "pass1"
    THEN IF x.acked = Frags THEN Succeed(t, x)
         ELSE Become(t, [x EXCEPT !.stage = "ask1"]) /\ UNCHANGED memory
    ELSE IF Reconciles(t) /\ (x.acked # Frags \/ x.resumed)
         THEN Become(t, [x EXCEPT !.stage = "ask0"]) /\ UNCHANGED memory
         ELSE GoOn(t, x)

\* The fragment in hand is done with.
NextFragment(t, x) ==
    /\ Become(t, [x EXCEPT !.todo = @ \ {First(x)}, !.try = 0])
    /\ UNCHANGED memory

\* A success: the peer's failures are forgotten.
Cleared == blame' = {}

\* Whether the sends of this pass are recorded one by one.
Recorded(t, x) == x.stage = "pass1" \/ ~Reconciles(t)

\* The first pass ends with something acknowledged, which counts once for all.
Credited(t, x) == x.stage = "pass0" /\ Reconciles(t) /\ ~x.resumed /\ x.acked # {}

\* Every fragment of the pass was tried.
PassOver(x) == x.stage \in {"pass0", "pass1"} /\ x.todo = {}

-----------------------------------------------------------------------------
(* The steps of a send. *)

\* _send_direct_fragmented_payload and the head of _send_direct_fragmented: what is
\* remembered of these bytes is taken out, and used unless it has expired.
Begin(t) ==
    /\ send[t].stage = "new"
    /\ \E use \in BOOLEAN :
        LET m == IF Reconciles(t) THEN memory[PacketOf[t]] ELSE None
            id == IF use THEN m.id ELSE nextId
            resumed == use /\ m.total = Total
            acked == IF resumed THEN m.acked ELSE {}
        IN /\ use => m # None
           /\ memory' = IF m = None THEN memory ELSE [memory EXCEPT ![PacketOf[t]] = None]
           /\ nextId' = IF use THEN nextId ELSE nextId + 1
           /\ Become(t, [send[t] EXCEPT
                !.stage = IF acked = Frags THEN "ask0" ELSE "pass0",
                !.id = id, !.resumed = resumed, !.acked = acked,
                !.todo = Frags \ acked, !.budget = IF Reconciles(t) THEN Pass0 ELSE Attempts,
                !.basis = IF resumed THEN m.basis ELSE far.epoch[<<id, Total>>]])
    /\ UNCHANGED <<blame, far, told, faults>>

\* One exchange: the first fragment still to send goes out.  A miss is counted
\* only if the ACK was waited for in full.
SendOne(t) ==
    LET x == [send[t] EXCEPT !.sent = @ \/ send[t].expired]
        i == First(x)
        y == [x EXCEPT !.acked = @ \union {i}]
    IN /\ x.stage \in {"pass0", "pass1"} /\ x.todo # {}
       /\ \E arrives \in BOOLEAN :
            far' = IF arrives THEN Receive(far, Key(x, Total), <<PacketOf[t], i, "text">>) ELSE far
       /\ \/ /\ far' = Receive(far, Key(x, Total), <<PacketOf[t], i, "text">>)
             /\ NextFragment(t, y)
             /\ IF Recorded(t, x) THEN Cleared ELSE UNCHANGED blame
          \/ /\ x.try + 1 < x.budget
             /\ Become(t, [x EXCEPT !.try = @ + 1])
             /\ UNCHANGED <<memory, blame>>
          \/ /\ x.try + 1 = x.budget
             /\ NextFragment(t, x)
             /\ blame' \in {blame} \union {blame \union {u} : u \in {v \in {t} : Recorded(t, x)}}
       /\ UNCHANGED <<nextId, told, faults>>

\* The packet is too old before its first fragment was sent: this one is left
\* out, and the pass goes on to the next.
Expire(t) ==
    /\ send[t].stage = "pass0" /\ 1 \in send[t].todo /\ send[t].try = 0 /\ Fault("late")
    /\ UNCHANGED <<nextId, blame, far, told>>
    /\ NextFragment(t, [send[t] EXCEPT !.expired = TRUE])

\* All fragments were tried, and the send is still online.
EndPass(t) ==
    /\ PassOver(send[t])
    /\ UNCHANGED <<nextId, far, told, faults>>
    /\ PassEnds(t, send[t])
    /\ IF Credited(t, send[t]) THEN Cleared ELSE UNCHANGED blame

\* Offline or detached, seen after an exchange, were it the last of its pass and
\* everything acknowledged; in the first pass nothing is remembered.
Abort(t) ==
    /\ send[t].stage \in {"pass0", "ask0", "answer0", "pass1"} /\ Fault("abort")
    /\ UNCHANGED <<nextId, blame, far, told>>
    /\ IF send[t].stage = "pass0" THEN UNCHANGED memory ELSE Remember(t, send[t])
    /\ Return(t, send[t], "false")

\* The send's task is cancelled at an await.
CancelSend(t) ==
    /\ send[t].stage \in {"pass0", "ask0", "answer0", "pass1", "ask1", "answer1"}
    /\ ~PassOver(send[t]) /\ Fault("cancel")
    /\ UNCHANGED <<memory, nextId, blame, far, told>>
    /\ Return(t, send[t], "cancelled")

\* The QUERY is sent; if it arrives it is answered with what is held then, by a
\* far side of an old version without saying which fragments.  "Complete" is good
\* for any QUERY of the key still to come.
Ask(t) ==
    LET x == [send[t] EXCEPT !.stage = IF @ = "ask0" THEN "answer0" ELSE "answer1"]
        k == Key(x, Total)
    IN /\ send[t].stage \in {"ask0", "ask1"}
       /\ \/ Become(t, x) /\ UNCHANGED told
          \/ /\ k \in far.done
             /\ Become(t, x) /\ told' = told \union {k}
          \/ /\ k \notin far.done
             /\ \E bitmap \in BOOLEAN : Become(t, [x EXCEPT !.word = Answer(far, k, bitmap)])
             /\ UNCHANGED told
       /\ UNCHANGED <<memory, nextId, blame, far, faults>>

\* Mutant: what the first pass has acknowledged stays so, whatever the answer.
HeldAdded(x, w) == x.acked \union w.held

\* The fragments x takes for held after the answer w.
HeldNow(x, w) == w.held

\* Answers that resolve the QUERY of x: its own, or a late "complete".
Answers(x) ==
    {w \in {x.word} : w # None}
    \union {[complete |-> TRUE, held |-> Frags, epoch |-> 0] : k \in told \intersect {Key(x, Total)}}

\* The QUERY between the passes is answered.
TakeAnswer(t) ==
    LET x == send[t]
    IN /\ x.stage = "answer0"
       /\ UNCHANGED <<nextId, far, told, faults>>
       /\ \E w \in Answers(x) :
            \/ /\ w.complete
               /\ IF x.acked # Frags THEN Cleared ELSE UNCHANGED blame
               /\ Succeed(t, [x EXCEPT !.sure = TRUE])
            \/ /\ ~w.complete /\ w.held = None
               /\ GoOn(t, [x EXCEPT !.word = None]) /\ UNCHANGED blame
            \/ /\ ~w.complete /\ w.held # None
               /\ GoOn(t, [x EXCEPT !.word = None, !.acked = HeldNow(x, w), !.basis = w.epoch])
               /\ IF w.held \subseteq x.acked THEN UNCHANGED blame ELSE Cleared

\* Mutant: a completion found at the end leaves the failures counted.
TakeLastUncleared(t) ==
    /\ send[t].stage = "answer1"
    /\ UNCHANGED <<nextId, far, told, faults>>
    /\ \E w \in Answers(send[t]) :
        \/ /\ w.complete /\ UNCHANGED blame
           /\ Succeed(t, [send[t] EXCEPT !.sure = TRUE])
        \/ /\ ~w.complete /\ UNCHANGED blame
           /\ Remember(t, send[t]) /\ Return(t, send[t], "false")

\* The last QUERY is answered: the failures that were recorded of the second
\* pass were none if everything has arrived.
TakeLast(t) ==
    /\ send[t].stage = "answer1"
    /\ UNCHANGED <<nextId, far, told, faults>>
    /\ \E w \in Answers(send[t]) :
        \/ /\ w.complete /\ Cleared
           /\ Succeed(t, [send[t] EXCEPT !.sure = TRUE])
        \/ /\ ~w.complete /\ UNCHANGED blame
           /\ Remember(t, send[t]) /\ Return(t, send[t], "false")

\* No answer in time: no information.
NoAnswer(t) ==
    /\ UNCHANGED <<nextId, blame, far, told, faults>>
    /\ \/ send[t].stage = "answer0" /\ GoOn(t, [send[t] EXCEPT !.word = None])
       \/ send[t].stage = "answer1" /\ Remember(t, send[t]) /\ Return(t, send[t], "false")

-----------------------------------------------------------------------------
(* The far side loses what it has. *)

\* A bucket idles out, or is the oldest of too many.
Evict(k) ==
    /\ far.bucket[k] # <<>> /\ Fault("evict")
    /\ far' = Lose(far, k)
    /\ UNCHANGED <<send, memory, nextId, blame, told>>

\* The memory of a delivered packet runs out.
Forget(k) ==
    /\ k \in far.done /\ Fault("forget")
    /\ far' = [far EXCEPT !.done = @ \ {k}]
    /\ UNCHANGED <<send, memory, nextId, blame, told>>

-----------------------------------------------------------------------------
\* The class goes by the bytes.  A raw window may have failed before with one
\* fragment held.
TextInit ==
    \E rush \in SUBSET Packets, left \in SUBSET Packets :
        /\ left \intersect rush = {} /\ Cardinality(left) <= 1 /\ (left # {} => RawTotal > 1)
        /\ memory = [m \in Packets |->
            IF m \in left THEN [id |-> 0, total |-> RawTotal, acked |-> {1}, basis |-> 0] ELSE None]
        /\ far = [FarInit EXCEPT !.bucket[<<0, RawTotal>>] =
            IF left = {} THEN <<>> ELSE [i \in {1} |-> <<CHOOSE m \in left : TRUE, 1, "raw">>]]
        /\ send = [t \in Sends |-> [New EXCEPT !.rush = PacketOf[t] \in rush]]
        /\ nextId = 1 /\ blame = {} /\ told = {} /\ faults = 0

SendStep(t) ==
    \/ Begin(t) \/ SendOne(t) \/ Expire(t) \/ EndPass(t) \/ Ask(t) \/ TakeAnswer(t)
    \/ TakeLast(t) \/ NoAnswer(t) \/ Abort(t) \/ CancelSend(t)

TextNext ==
    \/ \E t \in Sends : SendStep(t)
    \/ \E k \in Keys : Evict(k) \/ Forget(k)

TextSpec == TextInit /\ [][TextNext]_textVars

-----------------------------------------------------------------------------
(* Properties. *)

\* A send that reports success has handed the packet whole to the far side's RNS,
\* unless the far side lost a bucket of it after the sender last learned what is
\* in it: lost ACKs, answers late or without a bitmap, what is remembered of
\* another send and sends of the same bytes beside it do not matter.
TrueIsWhole ==
    \A t \in Sends : (send[t].result = "true" /\ send[t].sure) => PacketOf[t] \in far.delivered

\* A send that reports success leaves no failure of its own counted against the
\* path ("a phantom failure here can't leave behind a false trigger").
NoFalseBlame == \A t \in Sends : send[t].result = "true" => t \notin blame

\* What the far side puts together is one packet, cut one way.
NothingGarbled == ~far.garbled

\* A packet that was dropped as too old is not sent ("dropping DIRECT send ...
\* packet expired before attempt 0 could transmit").
ExpiredNeverSent == \A t \in Sends : send[t].expired => ~send[t].sent
=============================================================================
