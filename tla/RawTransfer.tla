----------------------------- MODULE RawTransfer -----------------------------
(***************************************************************************)
(* The raw window transfer of smci/_reconcile.py between one sender and    *)
(* one receiver: a window of packets is sent in bursts of fragments and    *)
(* parity frames; the receiver reassembles them and reports what it holds; *)
(* the sender re-sends what is missing for a bounded number of rounds,     *)
(* querying when no report comes.                                          *)
(*                                                                         *)
(* The radio loses, duplicates, delays and reorders: air, tx.queries,      *)
(* rx.words and rx.proofs only grow, and a frame in them may be received   *)
(* at any later time, any number of times, or never.                       *)
(***************************************************************************)
EXTENDS Naturals, FiniteSets

CONSTANTS
    N,              \* packets are 1..N, in the order they join a window
    Frags,          \* Frags[p]: the number of fragments p is cut into
    Provable,       \* packets RNS proves one by one (single-destination DATA)
    Rounds,         \* direct_raw_reconcile_rounds
    QueryAttempts,  \* direct_raw_query_attempts
    FallbackStrikes,\* direct_raw_fallback_strikes
    Reburst,        \* direct_raw_reburst_after_unanswered
    Parity,         \* whether bursts carry parity frames
    MaskWidth,      \* bits of a parity frame's coverage mask (8)
    IdMod,          \* packet identifiers wrap here (65536)
    Cuts,           \* fragment sizes: the path's length decides a window's
    MaxWindows,     \* bound: windows opened
    MaxFaults,      \* bound: events of the kinds in Faults
    Faults,         \* among "evict", "forget", "abort", "expire", "restart"
    None

Packets == 1..N
Ids == 0..IdMod - 1
Keys == Ids \X {Frags[p] : p \in Packets}
\* Fragment i of packet p, cut at size c: bytes that fit no other cut.
Chunks == UNION {{p} \X (1..Frags[p]) \X Cuts : p \in Packets}

\* None is no packet identifier, and no report that waits.
ASSUME NoneAssumption ==
    /\ None \notin Ids
    /\ \A k \in Keys, r \in 0..Rounds - 1 :
        /\ None # [key |-> k, round |-> r]
        /\ \A p \in Packets : None # [key |-> k, round |-> r, packet |-> p]

ASSUME SizeAssumption ==
    /\ N \in Nat \ {0} /\ Frags \in [Packets -> 1..255] /\ Provable \subseteq Packets
    /\ Rounds \in 1..4 /\ {QueryAttempts, FallbackStrikes, IdMod, MaskWidth} \subseteq Nat \ {0}
    /\ {Reburst, MaxWindows, MaxFaults} \subseteq Nat /\ Parity \in BOOLEAN /\ Cuts # {}
    /\ Faults \subseteq {"evict", "forget", "abort", "expire", "restart"}

VARIABLES
    tx,         \* the sender, see TxInit
    rx,         \* the receiver, see RxInit
    air,        \* data and parity frames sent
    faults      \* faults so far

vars == <<tx, rx, air, faults>>

Fault(kind) == kind \in Faults /\ faults < MaxFaults /\ faults' = faults + 1

-----------------------------------------------------------------------------
(* The sender: functions of its state x. *)

Key(x, p) == <<x.id[p], Frags[p]>>
Open(x) == {p \in x.parts : x.result[p] = "open"}
Missing(x, p) == (1..Frags[p]) \ x.acked[p]
HeldTotal(x) == Cardinality(UNION {{p} \X x.acked[p] : p \in x.parts})

\* The frames of a burst: every missing fragment, and after each packet with two
\* or more missing a parity frame over them, numbered Frags[p] + 1.
Burst(x) ==
    (UNION {{p} \X Missing(x, p) : p \in Open(x)}) \union
    {<<p, Frags[p] + 1>> : p \in {q \in Open(x) : Parity /\ Cardinality(Missing(x, q)) >= 2}}

Before(f, g) == f[1] < g[1] \/ (f[1] = g[1] /\ f[2] < g[2])

IsParity(f) == f[2] > Frags[f[1]]

\* The fragments frame f is the sum of, and those it names: a parity frame sums
\* every missing fragment, but its mask names only those it has a bit for.
Summed(x, f) == IF IsParity(f) THEN Missing(x, f[1]) ELSE {f[2]}
Covered(x, f) == IF IsParity(f) THEN Summed(x, f) \intersect (1..MaskWidth) ELSE {f[2]}

\* A frame as it goes on the air; the last two of a burst ask for a report.
FrameOf(x, f) ==
    [key |-> Key(x, f[1]), parity |-> IsParity(f), over |-> Covered(x, f),
     data |-> {f[1]} \X Summed(x, f) \X {x.cut}, round |-> x.rnd,
     flagged |-> Cardinality(x.unsent) <= 2]

\* One future registered under the pkt_id of every packet in ps.
Await(x, ps, n) ==
    [x EXCEPT !.mail = None,
              !.waiter = [i \in Ids |->
                IF \E p \in ps : x.id[p] = i
                THEN [total |-> Frags[CHOOSE p \in ps : x.id[p] = i], nonce |-> n, window |-> x.win]
                ELSE x.waiter[i]]]

Unwait(x, ps) ==
    [x EXCEPT !.waiter = [i \in Ids |-> IF \E p \in ps : x.id[p] = i THEN None ELSE x.waiter[i]]]

\* Mutant: remembers what was sent instead of what was confirmed.
RememberSent(x, ps) ==
    [x EXCEPT !.resumable = [p \in Packets |->
        IF p \in ps THEN [id |-> x.id[p], acked |-> 1..Frags[p]] ELSE x.resumable[p]]]

\* _remember_resumable for the packets of ps of which something is held.
Remember(x, ps) ==
    [x EXCEPT !.resumable = [p \in Packets |->
        IF p \in ps /\ x.acked[p] # {} THEN [id |-> x.id[p], acked |-> x.acked[p]]
        ELSE x.resumable[p]]]

Resolve(x, ps, v) ==
    [x EXCEPT !.result = [p \in Packets |-> IF p \in ps THEN v ELSE x.result[p]]]

Rest(x) == [x EXCEPT !.phase = "idle", !.unsent = {}, !.inRound = {}, !.unanswered = 0,
                     !.inARow = 0, !.empty = 0, !.attempt = 0, !.rnd = 0,
                     !.last = None, !.burst = FALSE,
                     !.mail = None, !.early = None, !.provisional = None,
                     !.airborne = FALSE, !.atEntry = FALSE]

\* Mutant: the window ends without a word to those still waiting.
EndWindowOpen(x, v) == Rest(Remember(x, Open(x)))

\* Mutant: the verdict is given to every packet of the window.
EndWindowAll(x, v) == Rest(Resolve(Remember(x, Open(x)), x.parts, v))

\* The leader returns; v is the result of every packet that has none yet.
EndWindow(x, v) == Rest(Resolve(Remember(x, Open(x)), Open(x), v))

EntriesFor(x, p, w) == {e \in w.entries : e.key = Key(x, p)}

Named(x, w) == {p \in Open(x) : EntriesFor(x, p, w) # {}}

\* Mutant: an answer only adds to what the sender believes is held.
BelievedAdded(x, p, e) == x.acked[p] \union e.held

\* The receiver's word replaces what the sender believed of p.
Believed(x, p, e) == IF e.complete THEN 1..Frags[p] ELSE e.held

\* _apply_window_entries
Apply(x, w) ==
    LET held(p) == Believed(x, p, CHOOSE e \in EntriesFor(x, p, w) : TRUE)
        whole == {p \in Named(x, w) : held(p) = 1..Frags[p]}
    IN [x EXCEPT !.acked = [p \in Packets |-> IF p \in Named(x, w) THEN held(p) ELSE x.acked[p]],
                 !.result = [p \in Packets |-> IF p \in whole THEN "true" ELSE x.result[p]],
                 !.resumable = [p \in Packets |-> IF p \in whole THEN None ELSE x.resumable[p]]]

\* _query_remote_fragments: one QUERY about every open packet.
Query(x) ==
    LET n == (x.nonce % 239) + 1
        y == Await(x, Open(x), <<"query", n>>)
    IN [y EXCEPT !.phase = "query", !.nonce = n, !.attempt = x.attempt + 1,
                 !.queries = x.queries \union
                    {[nonce |-> <<"query", n>>, keys |-> {Key(x, p) : p \in Open(x)}]},
                 !.early = None, !.provisional = None, !.airborne = FALSE]

\* A burst unless the last reconciles went unanswered (burst_allowed).
BurstAllowed(x) == x.inARow = 0 \/ (0 < Reburst /\ Reburst <= x.inARow)

\* The last missing fragment of the last packet.
LastOf(x) ==
    LET p == CHOOSE q \in Open(x) : \A o \in Open(x) : o <= q
    IN <<p, CHOOSE i \in Missing(x, p) : \A j \in Missing(x, p) : j <= i>>

\* Mutant: one round too many.
ExhaustedLate(r) == r > Rounds

Exhausted(r) == r = Rounds

\* Round r begins, or the window gives up after the last one.  The packets of
\* late are past their expiry.
Begin(x, r, late) ==
    LET y == [Resolve(Remember(x, late), late, "false") EXCEPT
                !.rnd = r, !.attempt = 0, !.inRound = Open(x) \ late]
        z == [y EXCEPT !.burst = BurstAllowed(y), !.last = LastOf(y)]
    IN IF Exhausted(r) THEN EndWindow(x, IF x.unanswered = Rounds THEN "false" ELSE "text")
       ELSE IF Open(y) = {} THEN Rest(y)
       ELSE IF z.burst
            THEN [Await(z, Open(z), <<"report", r % 4>>) EXCEPT
                    !.phase = "burst", !.unsent = Burst(z),
                    !.early = None, !.provisional = None, !.airborne = FALSE]
            ELSE Query(z)

\* The next round, with any expiry the faults allow.
BeginNext(x) ==
    \E late \in SUBSET Open(x) :
        /\ IF late = {} THEN UNCHANGED faults ELSE x.rnd + 1 < Rounds /\ Fault("expire")
        /\ tx' = Begin(x, x.rnd + 1, late)

\* The reconcile of a round was answered with w: the waiters go, the word is
\* applied, and the window ends, falls back to text or goes on.
Answered(x, w) ==
    LET y == Apply(Unwait(x, x.inRound), w)
        strikes == IF x.burst /\ HeldTotal(y) <= HeldTotal(x) THEN x.empty + 1 ELSE 0
        z == [y EXCEPT !.inARow = 0, !.empty = strikes]
    IN IF Open(y) = {} THEN tx' = Rest(y) /\ UNCHANGED faults
       ELSE IF strikes >= FallbackStrikes THEN tx' = EndWindow(z, "text") /\ UNCHANGED faults
       ELSE BeginNext(z)

-----------------------------------------------------------------------------
(* The sender's steps. *)

\* _next_pkt_id for the packets of fresh, in their order.
Numbered(fresh, p) == (tx.nextId + Cardinality({q \in fresh : q < p})) % IdMod

\* Packets S are handed over and a window opens for them.  A packet whose last
\* send failed half-way resumes it, unless that has expired meanwhile; what it
\* remembers does not say at what size the packet was cut.
OpenWindow(S, fresh, c) ==
    /\ tx.phase = "idle" /\ tx.win < MaxWindows
    /\ {p \in S : tx.resumable[p] = None} \subseteq fresh
    /\ LET x == [tx EXCEPT
                !.win = @ + 1, !.parts = S, !.cut = c,
                !.nextId = (@ + Cardinality(fresh)) % IdMod,
                !.id = [p \in Packets |-> IF p \in fresh THEN Numbered(fresh, p)
                                          ELSE IF p \in S THEN tx.resumable[p].id ELSE tx.id[p]],
                !.acked = [p \in Packets |-> IF p \in fresh THEN {}
                                             ELSE IF p \in S THEN tx.resumable[p].acked ELSE tx.acked[p]],
                !.result = [p \in Packets |-> IF p \in S THEN "open" ELSE tx.result[p]],
                !.resumable = [p \in Packets |-> IF p \in S THEN None ELSE tx.resumable[p]]]
       IN tx' = Begin(x, 0, {})
    /\ UNCHANGED <<rx, air, faults>>

\* The next frame of the burst goes out (or its send fails, which is a loss).
SendFrame ==
    /\ tx.phase = "burst"
    /\ \E f \in tx.unsent :
        /\ \A g \in tx.unsent \ {f} : Before(f, g)
        /\ air' = air \union {FrameOf(tx, f)}
        /\ tx' = [tx EXCEPT !.unsent = @ \ {f},
                            !.phase = IF tx.unsent = {f} THEN "report" ELSE "burst",
                            !.airborne = tx.unsent = {f},
                            !.atEntry = tx.unsent = {f} /\ tx.mail # None]
    /\ UNCHANGED <<rx, faults>>

\* The wait for the burst's report is about to end with one.
Reported ==
    /\ tx.phase = "report" /\ ~tx.airborne
    /\ IF tx.mail = None THEN {tx.provisional, tx.early} # {None} ELSE ~tx.atEntry

\* Offline, detached, or the path to the peer changed, at a check of the burst;
\* or offline or detached once its report is in, which is then not applied: the
\* window fails where it stands (its waiters included).
AbortBurst ==
    /\ tx.phase = "burst" \/ Reported
    /\ Fault("abort")
    /\ tx' = EndWindow(tx, "false")
    /\ UNCHANGED <<rx, air>>

\* The last frame has left the radio.
BurstEnds ==
    /\ tx.phase = "report" /\ tx.airborne
    /\ tx' = [tx EXCEPT !.airborne = FALSE]
    /\ UNCHANGED <<rx, air, faults>>

\* A report that was there when the wait began, or comes before the burst's end
\* on air, is progress and not the end of the wait.
TakeEarly ==
    /\ tx.phase = "report" /\ tx.mail # None /\ (tx.airborne \/ tx.atEntry)
    /\ LET x == Apply([tx EXCEPT !.early = tx.mail, !.atEntry = FALSE], tx.mail)
       IN IF Open(x) = {} THEN Answered(x, tx.mail)
          ELSE /\ tx' = Await(x, x.inRound, <<"report", x.rnd % 4>>)
               /\ UNCHANGED faults
    /\ UNCHANGED <<rx, air>>

\* w misses nothing of this window but the fragment sent last.
OnlyLast(x, w) ==
    UNION {{p} \X {i \in 1..Frags[p] : \E e \in EntriesFor(x, p, w) : i \notin e.held}
           : p \in x.inRound} = {x.last}

\* A report after the burst's end ends the wait, unless it is the second-last
\* fragment's: that one is kept, and the last fragment's own is waited for.
TakeReport ==
    /\ tx.phase = "report" /\ tx.mail # None /\ ~tx.airborne /\ ~tx.atEntry
    /\ IF tx.provisional = None /\ OnlyLast(tx, tx.mail)
       THEN /\ tx' = [Await(tx, tx.inRound, <<"report", tx.rnd % 4>>) EXCEPT !.provisional = tx.mail]
            /\ UNCHANGED faults
       ELSE Answered(tx, tx.mail)
    /\ UNCHANGED <<rx, air>>

\* The report wait is over: the provisional report, an early one, or a QUERY.
ReportTimeout ==
    /\ tx.phase = "report" /\ tx.mail = None /\ ~tx.airborne
    /\ IF tx.provisional # None THEN Answered(tx, tx.provisional)
       ELSE IF tx.early # None THEN Answered(tx, tx.early)
       ELSE tx' = Query(Unwait(tx, tx.inRound)) /\ UNCHANGED faults
    /\ UNCHANGED <<rx, air>>

\* Every packet still open was proved by the far side's RNS: no report is needed.
ReportProved ==
    /\ tx.phase = "report" /\ Open(tx) # {} /\ Open(tx) \subseteq tx.proved
    /\ LET x == [Unwait(tx, tx.inRound) EXCEPT
                    !.acked = [p \in Packets |-> IF p \in tx.inRound THEN 1..Frags[p] ELSE @[p]],
                    !.resumable = [p \in Packets |-> IF p \in tx.inRound THEN None ELSE @[p]]]
       IN tx' = Rest(Resolve(x, Open(tx), "true"))
    /\ UNCHANGED <<rx, air, faults>>

\* The QUERY was answered.
TakeAnswer ==
    /\ tx.phase = "query" /\ tx.mail # None
    /\ Answered(Unwait(tx, Open(tx)), tx.mail)
    /\ UNCHANGED <<rx, air>>

\* The QUERY was not: another attempt, or the round goes unanswered; the window
\* fails if the radio went away or the path changed meanwhile.
QueryTimeout ==
    /\ tx.phase = "query"
    /\ LET x == Unwait(tx, Open(tx))
           y == [x EXCEPT !.unanswered = @ + 1, !.inARow = @ + 1]
       IN \/ /\ tx.mail = None /\ tx.attempt < QueryAttempts
             /\ tx' = Query(x) /\ UNCHANGED faults
          \/ tx.mail = None /\ tx.attempt = QueryAttempts /\ BeginNext(y)
          \/ tx' = EndWindow(x, "false") /\ Fault("abort")
    /\ UNCHANGED <<rx, air>>

\* A report or answer arrives (_handle_incoming_completion_frame): it resolves the
\* future it was asked with, or one it says is complete.
Hear(w) ==
    /\ tx.mail = None
    /\ \E e \in w.entries :
        LET v == tx.waiter[e.key[1]]
        IN /\ v # None /\ v.window = tx.win /\ tx.phase # "idle"
           /\ v.total = e.key[2]
           /\ v.nonce = w.nonce \/ e.complete
    /\ tx' = [tx EXCEPT !.mail = w]
    /\ UNCHANGED <<rx, air, faults>>

\* A PROOF arrives and sets the event its packet's senders watch.
HearProof(p) ==
    /\ p \in rx.proofs \ tx.proved
    /\ tx' = [tx EXCEPT !.proved = @ \union {p}]
    /\ UNCHANGED <<rx, air, faults>>

TxInit ==
    [phase |-> "idle",  \* "idle", "burst", "report", "query"
     win |-> 0,         \* windows opened; the identity of a window's future
     parts |-> {},      \* the packets of the window
     rnd |-> 0,
     cut |-> None,
     id |-> [p \in Packets |-> None], acked |-> [p \in Packets |-> {}],
     result |-> [p \in Packets |-> "unsent"],    \* "open", "true", "false", "text"
     unsent |-> {},     \* frames of the burst still to go
     inRound |-> {},    \* the packets the round began with
     burst |-> FALSE,   \* whether the round sent a burst
     last |-> None,     \* the fragment a burst sends last
     unanswered |-> 0, inARow |-> 0, empty |-> 0,   \* rounds, rounds, bursts
     attempt |-> 0,     \* QUERYs of the round
     waiter |-> [i \in Ids |-> None],    \* _completion_query_waiters
     mail |-> None,     \* what resolved the current future
     early |-> None, provisional |-> None,
     airborne |-> FALSE,    \* whether the burst is still on the air
     atEntry |-> FALSE,     \* whether a report came before the wait for it
     resumable |-> [p \in Packets |-> None],
     nextId |-> 0, nonce |-> 0, proved |-> {}, queries |-> {}]

\* The process restarts: nothing of it is kept.
Restart ==
    /\ Fault("restart")
    /\ tx' = [TxInit EXCEPT !.win = tx.win, !.queries = tx.queries]
    /\ UNCHANGED <<rx, air>>

-----------------------------------------------------------------------------
(* The receiver: functions of its state y. *)

RxInit ==
    [bucket |-> [k \in Keys |-> None],  \* _reassembly
     done |-> {},       \* _dedup
     recent |-> {},     \* _recent_raw_pkts
     gaps |-> [k \in Keys |-> None],    \* _pending_gap_reports: the round to report
     tail |-> None,     \* _pending_sender_reports: the key and round
     grace |-> None,    \* _pending_proof_graces: the key, round and packet
     delivered |-> {},  \* packets handed to RNS whole
     garbled |-> FALSE, \* whether anything else was
     ever |-> [k \in Keys |-> {}],      \* history: fragments ever held
     words |-> {},      \* reports and answers sent
     proofs |-> {}]     \* packets proved

EmptyBucket == [got |-> <<>>, parity |-> {}, tail |-> FALSE]
Bucket(y, k) == IF y.bucket[k] = None THEN EmptyBucket ELSE y.bucket[k]
Held(b) == DOMAIN b.got
Store(b, i, d) == [b EXCEPT !.got = [j \in Held(b) \union {i} |-> IF j = i THEN d ELSE b.got[j]]]

\* Mutant: parity is taken for a fragment while more than one is missing.
SolvableAny(b) == {m \in b.parity : m.over \ Held(b) # {}}

\* The parity frames of b that miss exactly one fragment, and that fragment: what
\* is left of the parity once the others are taken out of it.
Solvable(b) == {m \in b.parity : Cardinality(m.over \ Held(b)) = 1}
Rebuilt(b, m) ==
    {c \in Chunks : Cardinality({i \in m.over \intersect Held(b) : c \in b.got[i]})
                    % 2 # (IF c \in m.data THEN 1 ELSE 0)}
SolveOne(b, m) ==
    Store([b EXCEPT !.parity = @ \ {m}], CHOOSE i \in m.over \ Held(b) : TRUE, Rebuilt(b, m))

\* Each fragment gained may make another parity frame solvable; a full bucket
\* is taken at once.
SolveNext(b, total) ==
    IF Held(b) = 1..total \/ Solvable(b) = {} THEN b
    ELSE SolveOne(b, CHOOSE m \in Solvable(b) : TRUE)

Solve(b, total) ==
    LET after[n \in 0..Cardinality(b.parity)] == IF n = 0 THEN b ELSE SolveNext(after[n - 1], total)
    IN after[Cardinality(b.parity)]

\* _bucket_state as an entry of a frame.
Entry(y, k) ==
    [key |-> k, complete |-> k \in y.done,
     held |-> IF k \in y.done THEN 1..k[2] ELSE Held(Bucket(y, k))]

\* Mutant: a report speaks only of the packet that caused it.
ReportAlone(y, k, r, complete) ==
    [y EXCEPT !.tail = None, !.grace = None,
              !.words = @ \union {[nonce |-> <<"report", r % 4>>,
                                   entries |-> {[key |-> k, complete |-> complete,
                                                 held |-> IF complete THEN 1..k[2] ELSE Held(Bucket(y, k))]}]}]

\* _send_completion_report: k first, then every other recent packet.
Report(y, k, r, complete) ==
    LET first == [key |-> k, complete |-> complete,
                  held |-> IF complete THEN 1..k[2] ELSE Held(Bucket(y, k))]
    IN [y EXCEPT !.tail = None, !.grace = None,
                 !.words = @ \union {[nonce |-> <<"report", r % 4>>,
                                      entries |-> {first} \union {Entry(y, j) : j \in y.recent \ {k}}]}]

\* The fragments of packet p, cut at size c.
Content(p, c) == [i \in 1..Frags[p] |-> {<<p, i, c>>}]

\* The bucket of k is full: it goes to RNS, and a report goes now, after a pause
\* for the rest of the burst, or never if a PROOF is about to say the same.
Deliver(y, k, r, b) ==
    LET whole == {p \in Packets : \E c \in Cuts : Content(p, c) = b.got}
        z == [y EXCEPT !.bucket[k] = None, !.done = @ \union {k}, !.gaps[k] = None,
                       !.delivered = @ \union whole, !.garbled = @ \/ whole = {}]
        alone == \A j \in z.recent : j \in z.done
    IN IF alone /\ whole \intersect Provable # {}
       THEN {[z EXCEPT !.grace = [key |-> k, round |-> r, packet |-> CHOOSE p \in whole : TRUE]]}
       ELSE IF b.tail THEN {Report(z, k, r, TRUE)}
       ELSE {[z EXCEPT !.tail = [key |-> k, round |-> r]]}

\* The receiver after frame f (_handle_direct_multifragment_frame).
Receive(y, f) ==
    LET k == f.key
        b == Bucket(y, k)
        i == CHOOSE i \in f.over : TRUE
        flag == [b EXCEPT !.tail = @ \/ f.flagged]
        took == IF f.parity
                THEN [flag EXCEPT !.parity = {m \in @ : m.over # f.over} \union
                                             {[over |-> f.over, data |-> f.data]}]
                ELSE IF i \in Held(b) THEN flag ELSE Store(flag, i, f.data)
        full == Solve(took, k[2])
        z == [y EXCEPT !.recent = @ \union {k}, !.ever[k] = @ \union Held(full)]
        ask == f.flagged \/ (full # took /\ full.tail)
    IN IF k \in y.done
       THEN {z} \union (IF f.flagged THEN {Report(z, k, f.round, TRUE)} ELSE {})
       ELSE IF ~f.parity /\ i \in Held(b) /\ b.got[i] # f.data
       THEN {[z EXCEPT !.bucket[k] = None, !.gaps[k] = IF f.flagged THEN f.round ELSE @]}
       ELSE IF Held(full) = 1..k[2] THEN Deliver(z, k, f.round, full)
       ELSE {[z EXCEPT !.bucket[k] = full, !.gaps[k] = IF ask THEN f.round ELSE @]}

-----------------------------------------------------------------------------
(* The receiver's steps. *)

Hold == UNCHANGED <<tx, air>>

\* A parity frame with an empty mask is no frame of ours (_decode_raw_fragment).
ReceiveFrame(f) == f.over # {} /\ rx' \in Receive(rx, f) /\ UNCHANGED faults /\ Hold

\* A report on gaps comes due: sent if the packet is still incomplete.
FireGaps(k) ==
    /\ rx.gaps[k] # None
    /\ LET y == [rx EXCEPT !.gaps[k] = None]
       IN rx' = IF rx.bucket[k] = None \/ k \in rx.done THEN y ELSE Report(y, k, rx.gaps[k], FALSE)
    /\ UNCHANGED faults /\ Hold

\* The report on the completed packet comes due.
FireTail ==
    /\ rx.tail # None
    /\ rx' = Report(rx, rx.tail.key, rx.tail.round, TRUE)
    /\ UNCHANGED faults /\ Hold

\* RNS proves a packet it received.
Prove(p) ==
    /\ p \in (rx.delivered \intersect Provable) \ rx.proofs
    /\ rx' = [rx EXCEPT !.proofs = @ \union {p}]
    /\ UNCHANGED faults /\ Hold

\* Mutant: the grace ends without a report in any case.
EndGraceSilent ==
    /\ rx.grace # None
    /\ rx' = [rx EXCEPT !.grace = None]
    /\ UNCHANGED faults /\ Hold

\* The grace is over: the PROOF took the report's place, or the report goes.
EndGrace ==
    /\ rx.grace # None
    /\ rx' = IF rx.grace.packet \in rx.proofs THEN [rx EXCEPT !.grace = None]
             ELSE Report(rx, rx.grace.key, rx.grace.round, TRUE)
    /\ UNCHANGED faults /\ Hold

\* What is held of the packets of ks at this moment is sent under nonce n.
Tell(n, ks) ==
    /\ rx' = [rx EXCEPT !.words = @ \union {[nonce |-> n, entries |-> {Entry(rx, k) : k \in ks}]}]
    /\ UNCHANGED faults /\ Hold

\* A QUERY arrives and is answered.
AnswerQuery(q) == Tell(q.nonce, q.keys)

\* A report the firmware did not ACK is written anew and sent again under its
\* nonce, if any packet is complete by then.
RetryReport(w) == w.nonce[1] = "report" /\ rx.done # {} /\ Tell(w.nonce, rx.recent)

\* A bucket idles out, or is the oldest of too many.
Evict(k) ==
    /\ rx.bucket[k] # None /\ Fault("evict")
    /\ rx' = [rx EXCEPT !.bucket[k] = None]
    /\ Hold

\* The memory of a delivered packet runs out (whole_packet_dedup_ttl).
Forget(k) ==
    /\ k \in rx.done /\ Fault("forget")
    /\ rx' = [rx EXCEPT !.done = @ \ {k}]
    /\ Hold

-----------------------------------------------------------------------------
Init == tx = TxInit /\ rx = RxInit /\ air = {} /\ faults = 0

SenderStep ==
    \/ SendFrame \/ TakeEarly \/ TakeReport \/ ReportTimeout
    \/ ReportProved \/ TakeAnswer \/ QueryTimeout

Next ==
    \/ \E S \in (SUBSET Packets) \ {{}} : \E fresh \in SUBSET S, c \in Cuts : OpenWindow(S, fresh, c)
    \/ SenderStep \/ BurstEnds
    \/ AbortBurst \/ Restart
    \/ \E w \in rx.words : Hear(w) \/ RetryReport(w)
    \/ \E p \in Packets : HearProof(p) \/ Prove(p)
    \/ \E f \in air : ReceiveFrame(f)
    \/ \E k \in Keys : FireGaps(k) \/ Evict(k) \/ Forget(k)
    \/ FireTail \/ EndGrace
    \/ \E q \in tx.queries : AnswerQuery(q)

Spec == Init /\ [][Next]_vars

\* Every wait of the leader has a deadline, and a burst leaves the radio.
FairSpec == Spec /\ WF_vars(SenderStep) /\ WF_vars(BurstEnds)

-----------------------------------------------------------------------------
(* Properties. *)

Nonces == {"report"} \X (0..3) \union {"query"} \X (0..239)

IsWord(w) ==
    /\ DOMAIN w = {"nonce", "entries"} /\ w.nonce \in Nonces
    /\ \A e \in w.entries :
        /\ DOMAIN e = {"key", "complete", "held"}
        /\ e.key \in Keys /\ e.complete \in BOOLEAN /\ e.held \subseteq 1..e.key[2]

IsFrame(f) ==
    /\ DOMAIN f = {"key", "parity", "over", "data", "round", "flagged"}
    /\ f.key \in Keys /\ f.round \in 0..Rounds - 1 /\ {f.parity, f.flagged} \subseteq BOOLEAN
    /\ f.over \subseteq 1..f.key[2] /\ f.data \subseteq Chunks
    /\ ~f.parity => Cardinality(f.over) = 1

TxTypeOK ==
    /\ DOMAIN tx = DOMAIN TxInit
    /\ tx.phase \in {"idle", "burst", "report", "query"}
    /\ tx.win \in 0..MaxWindows /\ tx.parts \subseteq Packets /\ tx.cut \in Cuts \union {None}
    /\ tx.rnd \in 0..Rounds - 1 /\ tx.inRound \subseteq tx.parts
    /\ tx.id \in [Packets -> Ids \union {None}]
    /\ \A p \in Packets : tx.acked[p] \subseteq 1..Frags[p]
    /\ tx.result \in [Packets -> {"unsent", "open", "true", "false", "text"}]
    /\ tx.unsent \subseteq UNION {{p} \X (1..Frags[p] + 1) : p \in Packets}
    /\ {tx.burst, tx.airborne, tx.atEntry} \subseteq BOOLEAN
    /\ tx.unanswered \in 0..Rounds /\ tx.inARow \in 0..tx.unanswered
    /\ tx.empty \in 0..FallbackStrikes - 1 /\ tx.attempt \in 0..QueryAttempts
    /\ \A i \in Ids : tx.waiter[i] # None =>
        tx.waiter[i].nonce \in Nonces /\ tx.waiter[i].window \in 1..tx.win
    /\ \A w \in {tx.mail, tx.early, tx.provisional} \ {None} : IsWord(w)
    /\ \A p \in Packets : tx.resumable[p] # None =>
        /\ tx.resumable[p].id \in Ids
        /\ tx.resumable[p].acked \subseteq 1..Frags[p] /\ tx.resumable[p].acked # {}
    /\ tx.nextId \in Ids /\ tx.nonce \in 0..239 /\ tx.proved \subseteq Provable
    /\ \A q \in tx.queries : q.nonce \in Nonces /\ q.keys \subseteq Keys

RxTypeOK ==
    /\ DOMAIN rx = DOMAIN RxInit
    /\ \A k \in Keys :
        /\ rx.bucket[k] # None =>
            /\ Held(rx.bucket[k]) \subseteq 1..k[2] /\ Held(rx.bucket[k]) # 1..k[2]
            /\ \A m \in rx.bucket[k].parity : m.over \subseteq 1..k[2] /\ m.data \subseteq Chunks
            /\ \A i \in Held(rx.bucket[k]) : rx.bucket[k].got[i] \subseteq Chunks
        /\ rx.gaps[k] \in 0..Rounds - 1 \union {None}
        /\ rx.ever[k] \subseteq 1..k[2]
        /\ k \in rx.done => rx.bucket[k] = None
    /\ rx.done \subseteq rx.recent /\ rx.recent \subseteq Keys
    /\ rx.delivered \subseteq Packets /\ rx.garbled \in BOOLEAN
    /\ rx.proofs \subseteq rx.delivered \intersect Provable
    /\ \A w \in rx.words : IsWord(w)

\* Every variable stays in its range; a bucket is never full and never stands
\* beside the memory of its packet.
TypeOK ==
    /\ TxTypeOK /\ RxTypeOK /\ (\A f \in air : IsFrame(f))
    /\ faults \in 0..MaxFaults

\* A packet reported sent was handed whole to the far side's RNS: neither an
\* eviction, a stale report nor a lost frame makes _apply_window_entries or a
\* proof confirm what did not arrive.
ConfirmedDelivered ==
    \A p \in Packets : tx.result[p] = "true" => p \in rx.delivered

\* What the receiver puts together from fragments and parity is one packet, whole
\* (_add_channel_fragment: "rather than risk delivering a corrupted amalgam").
NothingGarbled == ~rx.garbled

\* The sender leaves out of a burst only fragments the receiver held under the
\* packet's present identifier at some time, resumed sends included.
AckedWasHeld ==
    /\ \A p \in Open(tx) : tx.acked[p] \subseteq rx.ever[Key(tx, p)]
    /\ \A p \in Packets : tx.resumable[p] # None =>
        tx.resumable[p].acked \subseteq rx.ever[<<tx.resumable[p].id, Frags[p]>>]

\* The packet of key k is p: its frames carry fragments of p.
Carries(k, p) == \E f \in air : f.key = k /\ \E c \in f.data : c[1] = p

Signalled(k) ==
    \/ rx.tail # None \/ rx.grace # None
    \/ \E w \in rx.words : \E e \in w.entries : e.key = k /\ e.complete
    \/ \E p \in rx.proofs : Carries(k, p)

\* Once a packet is complete its sender is told, or will be: a report that says
\* so is sent or held, a proof is awaited, or RNS has proved the packet
\* (_schedule_sender_report, _send_completion_report, _proof_may_replace_report).
CompletionSignalled == \A k \in rx.done : Signalled(k)

\* Every window ends, with a verdict on each of its packets.
WindowEnds == (tx.phase # "idle") ~> (tx.phase = "idle" /\ Open(tx) = {})

\* The transfer implements the promise of RawDelivery.
Delivery == INSTANCE RawDelivery WITH
    submitted <- {p \in Packets : tx.id[p] # None},
    verdict <- tx.result, delivered <- rx.delivered
ImplementsDelivery == Delivery!Spec
=============================================================================
