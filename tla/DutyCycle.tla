------------------------------ MODULE DutyCycle ------------------------------
(***************************************************************************)
(* The gate every frame passes on its way to the radio (smci/_direct.py,   *)
(* _pre_transmit_gate): it waits for the far side's burst to end, then for *)
(* the duty-cycle limiter (smci/_locks.py, _DutyCycleLimiter), then for    *)
(* the air to clear.  Several senders are in the gate at once: the holder  *)
(* of the radio lock, and channel passes and binds, which take no lock.    *)
(* Time is discrete: a ledger keeps the age of each frame since it was     *)
(* charged.  A frame is charged when its budget wait is over but keyed     *)
(* later: the medium hold and the command lock come between.               *)
(***************************************************************************)
EXTENDS Naturals, Sequences, FiniteSetsExt

CONSTANTS
    Senders,        \* the tasks that key the radio
    Frames,         \* Frames[s]: the frames s sends, see FrameType
    Window,         \* _window_s, in ticks
    RelayedBudget,  \* _max_busy_s
    TotalBudget,    \* _max_total_s
    QuietWindow,    \* incoming_quiet_window_s; 0: incoming_quiet_defer_enabled off
    QuietMax,       \* incoming_quiet_defer_max_wait_s
    MaxHold,        \* rx_log_hold_max_s; also a bound: hold and command
                    \* together take no longer
    MaxFrames,      \* bound: frames handed to the gate
    NoFrame

ASSUME BudgetAssumption == RelayedBudget \in Nat /\ TotalBudget \in Nat
ASSUME WindowAssumption == Window \in Nat /\ MaxHold \in 0..Window /\ MaxFrames \in Nat
ASSUME QuietAssumption == QuietWindow \in Nat /\ QuietMax \in Nat

\* raw: a frame of a raw burst, which skips the quiet wait and whose budget
\* wait a queued handshake interrupts; exempt: a handshake frame, charged but
\* not held back by the budget.
FrameType == [airtime : Nat \ {0}, relayed : BOOLEAN, exempt : BOOLEAN, raw : BOOLEAN]

ASSUME FramesAssumption == \A s \in Senders : Frames[s] \subseteq FrameType

VARIABLES
    samples,        \* _samples: every charged frame, oldest first
    relayed,        \* _relayed: the relayed ones
    quietFor,       \* ticks since _last_incoming_direct_at, up to QuietWindow
    busyFor,        \* ticks until _medium_busy_until
    pc,             \* pc[s]: "idle", "quiet" for the far side's burst to end,
                    \* "waiting" for budget, or "held" before keying
    frame,          \* frame[s]: the frame s has in the gate
    due,            \* due[s]: ticks until s's sleep ends
    spent,          \* spent[s]: ticks s has been "quiet" or "held"
    left,           \* frames still to come (MaxFrames)
    air             \* history: frames charged, numbered in that order, until
                    \* their keying is a window back; [by, frame, keyed]

gateVars == <<samples, relayed, quietFor, busyFor, pc, frame, due, spent, left, air>>
heard == <<quietFor, busyFor>>

Ages == 0..(Window + 1)
NotKeyed == Window + 2

-----------------------------------------------------------------------------
(* The ledgers. *)

Sample == [age : Ages, airtime : Nat \ {0}]

\* Mutant: nothing is ever pruned.
PruneNothing(ledger) == ledger

\* _prune_deque: from the oldest on, samples that started before the window.
Prune(ledger) ==
    LET live == {i \in DOMAIN ledger : ledger[i].age <= Window}
    IN  IF live = {} THEN <<>> ELSE SubSeq(ledger, Min(live), Len(ledger))

\* _busy_s, _relayed_busy_s
Busy(ledger) == MapThenSumSet(LAMBDA i : ledger[i].airtime, DOMAIN ledger)

Lesser(a, b) == IF a <= b THEN a ELSE b

\* A ledger that has no room for airtime; an empty one has room for anything.
Full(ledger, airtime, budget) == ledger # <<>> /\ Busy(ledger) + airtime > budget

\* Mutant: a relayed frame is weighed against its own ledger only.
LimitingOwn(f) ==
    LET all == Prune(samples)
        rel == Prune(relayed)
    IN  [all |-> all, rel |-> rel,
         by |-> IF f.relayed
                THEN IF Full(rel, f.airtime, RelayedBudget) THEN rel ELSE <<>>
                ELSE IF Full(all, f.airtime, TotalBudget) THEN all ELSE <<>>]

\* limiting_ledger: the ledgers, pruned, and the one that holds f back.
Limiting(f) ==
    LET all == Prune(samples)
        rel == Prune(relayed)
    IN  [all |-> all, rel |-> rel,
         by |-> IF f.relayed /\ Full(rel, f.airtime, RelayedBudget) THEN rel
                ELSE IF Full(all, f.airtime, TotalBudget) THEN all
                ELSE <<>>]

\* record: to the total ledger always, to the relayed one if relayed.
Record(all, rel, f) ==
    LET x == [age |-> 0, airtime |-> f.airtime]
    IN  /\ samples' = Append(all, x)
        /\ relayed' = IF f.relayed THEN Append(rel, x) ELSE rel

\* s is in the gate with f, to sleep for wait ticks.
Stands(s, f, at, wait, since) ==
    /\ pc' = [pc EXCEPT ![s] = at]
    /\ frame' = [frame EXCEPT ![s] = f]
    /\ due' = [due EXCEPT ![s] = wait]
    /\ spent' = [spent EXCEPT ![s] = since]

\* One more than every number of air.
NextNo == Max({0} \union DOMAIN air) + 1

\* Charged, and on to the medium hold.
Charge(s, f, all, rel) ==
    /\ Record(all, rel, f)
    /\ air' = [i \in DOMAIN air \union {NextNo} |->
                 IF i = NextNo THEN [by |-> s, frame |-> f, keyed |-> NotKeyed] ELSE air[i]]
    /\ Stands(s, f, "held", Lesser(busyFor, MaxHold), 0)

\* One turn of wait_for_budget: go, charged in the same breath, or sleep until
\* the oldest sample of the limiting ledger leaves the window.
CheckOrWait(s, f) ==
    LET limit == Limiting(f)
    IN  IF limit.by = <<>>
        THEN Charge(s, f, limit.all, limit.rel)
        ELSE /\ samples' = limit.all /\ relayed' = limit.rel
             /\ Stands(s, f, "waiting", Window - limit.by[1].age, 0)
             /\ UNCHANGED air

\* A handshake's frame is charged at once, and nothing is pruned.
Throttle(s, f) ==
    IF f.exempt THEN Charge(s, f, samples, relayed) ELSE CheckOrWait(s, f)

\* Mutant: the wait has no end of its own.
PassQuietForever(s, f, since) ==
    IF quietFor >= QuietWindow
    THEN Throttle(s, f)
    ELSE /\ Stands(s, f, "quiet", QuietWindow - quietFor, since)
         /\ UNCHANGED <<samples, relayed, air>>

\* One turn of _wait_for_incoming_quiet, since ticks into it: on once the far
\* side has been silent for the window or patience is out, else sleep until
\* the first of the two.
PassQuiet(s, f, since) ==
    IF quietFor >= QuietWindow \/ since >= QuietMax
    THEN Throttle(s, f)
    ELSE /\ Stands(s, f, "quiet", Lesser(QuietWindow - quietFor, QuietMax - since), since)
         /\ UNCHANGED <<samples, relayed, air>>

-----------------------------------------------------------------------------
(* The senders. *)

\* s is rid of its frame.
Out(s) == Stands(s, NoFrame, "idle", 0, 0)

\* A frame comes to the gate; a burst does not stay for quiet.
Enter(s, f) ==
    /\ pc[s] = "idle" /\ left > 0
    /\ left' = left - 1
    /\ IF f.raw THEN Throttle(s, f) ELSE PassQuiet(s, f, 0)
    /\ UNCHANGED heard

\* The sleep is over, or somewhat more than over.
QuietTurn(s) ==
    /\ pc[s] = "quiet" /\ due[s] = 0
    /\ PassQuiet(s, frame[s], spent[s])
    /\ UNCHANGED <<left, heard>>

Wake(s) ==
    /\ pc[s] = "waiting" /\ due[s] = 0
    /\ CheckOrWait(s, frame[s])
    /\ UNCHANGED <<left, heard>>

\* A handshake queued for the radio: the raw burst yields, its frame uncharged.
Preempted(s) ==
    /\ pc[s] = "waiting" /\ frame[s].raw
    /\ Out(s)
    /\ UNCHANGED <<samples, relayed, air, left, heard>>

\* More was overheard during the hold: it goes on, MaxHold in all.
HoldOn(s) ==
    /\ pc[s] = "held" /\ due[s] = 0
    /\ busyFor > 0 /\ spent[s] < MaxHold
    /\ Stands(s, frame[s], "held", Lesser(busyFor, MaxHold - spent[s]), spent[s])
    /\ UNCHANGED <<samples, relayed, air, left, heard>>

\* The hold is over: the command is issued.
Key(s) ==
    /\ pc[s] = "held" /\ due[s] = 0
    /\ busyFor = 0 \/ spent[s] >= MaxHold
    /\ air' = [i \in DOMAIN air |->
                 IF air[i].by = s /\ air[i].keyed = NotKeyed THEN [air[i] EXCEPT !.keyed = 0]
                 ELSE air[i]]
    /\ Out(s)
    /\ UNCHANGED <<samples, relayed, left, heard>>

\* The task is cancelled in the gate; a frame already charged stays charged.
Cancelled(s) ==
    /\ pc[s] # "idle"
    /\ air' = [i \in {j \in DOMAIN air : air[j].by # s \/ air[j].keyed # NotKeyed} |-> air[i]]
    /\ Out(s)
    /\ UNCHANGED <<samples, relayed, left, heard>>

-----------------------------------------------------------------------------
(* What the radio hears, and the clock. *)

senders == <<samples, relayed, pc, frame, due, spent, left, air>>

\* A fragment of a DIRECT message of which more is to come.
HearFragment ==
    /\ quietFor' = 0
    /\ UNCHANGED <<busyFor, senders>>

\* A packet is overheard after which the air is expected to stay busy: for
\* hold ticks, at most MaxHold of which count.
Overhear(hold) ==
    /\ Lesser(hold, MaxHold) > busyFor
    /\ busyFor' = Lesser(hold, MaxHold)
    /\ UNCHANGED <<quietFor, senders>>

\* The clock moves.  A sleep may end late, but hold and command end in time.
Older(ledger) ==
    [i \in DOMAIN ledger |->
        [ledger[i] EXCEPT !.age = IF @ <= Window THEN @ + 1 ELSE @]]

Less(n) == IF n > 0 THEN n - 1 ELSE 0

Tick ==
    /\ \A s \in Senders : pc[s] = "held" => spent[s] < MaxHold
    /\ samples' = Older(samples) /\ relayed' = Older(relayed)
    /\ quietFor' = Lesser(quietFor + 1, QuietWindow)
    /\ busyFor' = Less(busyFor)
    /\ due' = [s \in Senders |-> Less(due[s])]
    /\ spent' = [s \in Senders |-> CASE pc[s] = "quiet" -> Lesser(spent[s] + 1, QuietMax)
                                      [] pc[s] = "held" -> spent[s] + 1
                                      [] OTHER -> 0]
    /\ air' = [i \in {j \in DOMAIN air : air[j].keyed = NotKeyed
                                          \/ air[j].keyed + 1 + MaxHold <= Window} |->
                 [air[i] EXCEPT !.keyed = IF @ = NotKeyed THEN @ ELSE @ + 1]]
    /\ UNCHANGED <<pc, frame, left>>

GateInit ==
    /\ samples = <<>> /\ relayed = <<>> /\ air = <<>>
    /\ pc = [s \in Senders |-> "idle"]
    /\ frame = [s \in Senders |-> NoFrame]
    /\ due = [s \in Senders |-> 0] /\ spent = [s \in Senders |-> 0]
    /\ quietFor = QuietWindow /\ busyFor = 0
    /\ left = MaxFrames

GateNext ==
    \/ \E s \in Senders : \/ \E f \in Frames[s] : Enter(s, f)
                          \/ QuietTurn(s) \/ Wake(s) \/ Preempted(s)
                          \/ HoldOn(s) \/ Key(s) \/ Cancelled(s)
    \/ HearFragment
    \/ \E hold \in 1..(MaxHold + 1) : Overhear(hold)
    \/ Tick

GateSpec == GateInit /\ [][GateNext]_gateVars

\* The event loop's clock and its timers.
FairGate ==
    /\ GateSpec /\ WF_gateVars(Tick)
    /\ \A s \in Senders : WF_gateVars(QuietTurn(s)) /\ WF_gateVars(Wake(s)) /\ WF_gateVars(HoldOn(s) \/ Key(s))

-----------------------------------------------------------------------------
(* Properties. *)

GateTypeOK ==
    /\ samples \in Seq(Sample) /\ relayed \in Seq(Sample)
    /\ \A s \in Senders :
          /\ pc[s] \in {"idle", "quiet", "waiting", "held"}
          /\ frame[s] \in IF pc[s] = "idle" THEN {NoFrame} ELSE Frames[s]
          /\ due[s] \in CASE pc[s] = "idle" -> {0} [] pc[s] = "quiet" -> 0..QuietWindow
                         [] pc[s] = "waiting" -> 0..Window [] pc[s] = "held" -> 0..MaxHold
          /\ spent[s] \in CASE pc[s] = "quiet" -> 0..QuietMax [] pc[s] = "held" -> 0..MaxHold
                           [] OTHER -> {0}
    /\ quietFor \in 0..QuietWindow /\ busyFor \in 0..MaxHold
    /\ left \in 0..MaxFrames
    /\ \A i \in DOMAIN air : air[i].keyed \in (0..(Window - MaxHold)) \union {NotKeyed}

\* The positions of air keyed within the last Window - MaxHold ticks, of the
\* frames in class.
OnAir(class(_)) == {i \in DOMAIN air : air[i].keyed # NotKeyed /\ class(air[i].frame)}

\* Up to the last of them that waited for budget, they fit the budget, or
\* there is just the one.
Fits(recent, budget) ==
    \A last \in {i \in recent : ~air[i].frame.exempt} :
        LET upTo == {i \in recent : i <= last}
        IN  \/ MapThenSumSet(LAMBDA i : air[i].frame.airtime, upTo) <= budget
            \/ upTo = {last}

\* Whatever the senders, holds and cancellations: the frames keyed within any
\* Window - MaxHold fit the total budget, and those a repeater relays fit the
\* relayed budget -- handshakes that go first leave less for the others -- but
\* for handshake frames after the last other frame, and for one frame alone.
AirBudget ==
    /\ Fits(OnAir(LAMBDA f : TRUE), TotalBudget)
    /\ Fits(OnAir(LAMBDA f : f.relayed), RelayedBudget)

\* A frame passes the gate, however long it is itself, whatever its
\* neighbours send and however often: fragments and packets overheard without
\* end do not keep it, nor do other frames unless they keep coming.
GateEnds == \A s \in Senders : pc[s] # "idle" ~> pc[s] = "idle"

\* What _wait_for_incoming_quiet says of itself: a frame is never keyed into
\* the far side's burst just heard of.  A frame that had to wait for budget
\* goes on into one: nobody listens again after that wait.
NeverIntoBurst ==
    [][\A s \in Senders :
          pc[s] = "waiting" /\ ~frame[s].raw /\ pc'[s] = "held" => quietFor >= QuietWindow]_gateVars
=============================================================================
