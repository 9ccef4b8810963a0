----------------------------- MODULE PathScores -----------------------------
(***************************************************************************)
(* How a path is chosen (smci/_paths.py 668-1000): what a candidate's      *)
(* record says of it, the order of the candidates, and the rule that keeps *)
(* the current one, tries another or gives up.  PathSelection allows every *)
(* choice some record could lead to; this module says which is made.       *)
(*                                                                         *)
(* A candidate is a record: hops; samples, a sequence of [at, ok]; rate    *)
(* and signal, what the peer reported and what was heard last, each empty  *)
(* or one [is, at]; misses in a row; failedAt, Absent if never; seenAt;    *)
(* coolUntil.  Rates and scores are fractions <<n, d>>.  Time is in any    *)
(* unit of which w, the tuning, has the half-life, window and cool-down;   *)
(* a sample's weight halves at the end of each half-life, not gradually.   *)
(***************************************************************************)
EXTENDS Integers, Sequences, FiniteSets

Absent == -1

AtLeast(a, b) == a[1] * b[2] >= b[1] * a[2]
Below(a, b) == ~AtLeast(a, b)

\* PATH_HEALTHY_RATE, PATH_EXHAUST_MISSES and the rest as shipped, in units of a minute.
TuningShipped ==
    [halfLife |-> 3, window |-> 10, cooldown |-> 2, margin |-> 25, switch |-> 4, exhaust |-> 8,
     healthy |-> <<1, 2>>, optimistic |-> <<4, 5>>, weak |-> <<1, 4>>, floor |-> <<1, 20>>,
     weakSnr |-> 3, peerPathLen |-> Absent]

-----------------------------------------------------------------------------
(* What a record says. *)

Recent(at, now, w) == now - at \in 0..w.window

Halvings(w) == w.window \div w.halfLife
Weight(at, now, w) == 2^(Halvings(w) - (now - at) \div w.halfLife)

\* _path_delivery_rate: what counted, delivered and at all; no rate if nothing did.
DeliveryRate(samples, now, w) ==
    LET weighed(some) ==
            LET sum[k \in 0..Len(samples)] ==
                    IF k = 0 THEN 0
                    ELSE sum[k - 1] + IF Recent(samples[k].at, now, w) /\ samples[k].ok \in some
                                      THEN Weight(samples[k].at, now, w) ELSE 0
            IN  sum[Len(samples)]
    IN  <<weighed({TRUE}), weighed(BOOLEAN)>>

Measured(v, now, w) == DeliveryRate(v.samples, now, w)[2] > 0

\* _path_evidence: a reading of now, if there is one; and whether there was evidence, all
\* of it aged.
Reads(reading, now, w) == reading # <<>> /\ Recent(reading[1].at, now, w)

Stale(v, now, w) ==
    LET taken == {v.samples[k].at : k \in DOMAIN v.samples}
                 \union {v.rate[k].at : k \in DOMAIN v.rate}
                 \union {v.signal[k].at : k \in DOMAIN v.signal}
    IN  taken # {} /\ \A at \in taken : ~Recent(at, now, w)

\* _path_prior
Prior(v, now, w) ==
    IF Stale(v, now, w) THEN w.weak
    ELSE IF Reads(v.rate, now, w) THEN v.rate[1].is
    ELSE IF \/ Reads(v.signal, now, w) /\ v.signal[1].is < w.weakSnr
            \/ w.peerPathLen # Absent /\ v.hops < w.peerPathLen
    THEN w.weak
    ELSE w.optimistic

RateUsed(v, now, w) ==
    IF Measured(v, now, w) THEN DeliveryRate(v.samples, now, w) ELSE Prior(v, now, w)

\* _path_rank_kwargs: the tuning with what the peer reported last, [hops, at] or nothing.
WithReport(w, report, now) ==
    [w EXCEPT !.peerPathLen =
        IF report # <<>> /\ Recent(report[1].at, now, w) THEN report[1].hops ELSE Absent]

\* _path_score: transmissions per delivered frame, times those of one frame.
Score(v, now, w) ==
    LET rate == RateUsed(v, now, w)
        r == IF AtLeast(rate, w.floor) THEN rate ELSE w.floor
    IN  <<(v.hops + 1) * r[2], r[1]>>

\* _rank_paths, two candidates: not on cool-down, not stale, score, hops, seen last.
Ahead(a, b, now, w) ==
    LET one(p) == IF p THEN 1 ELSE 0
        s == Score(a, now, w)
        t == Score(b, now, w)
        by == <<one(a.coolUntil > now) - one(b.coolUntil > now),
                one(Stale(a, now, w)) - one(Stale(b, now, w)),
                s[1] * t[2] - t[1] * s[2],
                a.hops - b.hops,
                b.seenAt - a.seenAt>>
    IN  \E k \in 1..5 : by[k] < 0 /\ \A j \in 1..(k - 1) : by[j] = 0

-----------------------------------------------------------------------------
(* The choice among views, a function from paths to candidates. *)

FirstOf(views, S, now, w) == {p \in S : \A q \in S : ~Ahead(views[q], views[p], now, w)}

FreshEvidence(v) == v.failedAt # Absent /\ v.seenAt > v.failedAt

DeadView(v, w) == v.misses >= w.exhaust /\ ~FreshEvidence(v)

Eligible(views, current, p, now, w) ==
    LET v == views[p]
    IN  /\ ~DeadView(v, w)
        /\ \/ v.misses < w.switch
           \/ Measured(v, now, w) /\ AtLeast(DeliveryRate(v.samples, now, w), w.healthy)
           \/ /\ v.failedAt # Absent /\ now - v.failedAt >= w.cooldown
              /\ \/ p = current \/ current \notin DOMAIN views
                 \/ ~Measured(views[current], now, w) \/ ~Measured(v, now, w)
                 \/ FreshEvidence(v)
                 \/ AtLeast(DeliveryRate(v.samples, now, w), DeliveryRate(views[current].samples, now, w))

Untried(v, now, w) == v.samples = <<>> /\ v.misses = 0 /\ ~Stale(v, now, w)

RivalRate(v, now, w) == IF FreshEvidence(v) THEN Prior(v, now, w) ELSE RateUsed(v, now, w)

\* The current path, past the threshold, is better still than what could be tried.
StillBest(views, current, now, w) ==
    LET v == views[current]
        rate == DeliveryRate(v.samples, now, w)
        others == {p \in DOMAIN views \ {current} : Eligible(views, current, p, now, w)}
    IN  /\ Measured(v, now, w) /\ rate[1] > 0 /\ ~DeadView(v, w)
        /\ \A p \in others : ~Untried(views[p], now, w) /\ Below(RivalRate(views[p], now, w), rate)

\* _choose_path: the path, and why; several when candidates tie, nothing (none) when
\* each is exhausted or there is no candidate.
Choose(views, current, none, now, w) ==
    LET able == {p \in DOMAIN views : Eligible(views, current, p, now, w)}
        why(p) == IF current \notin DOMAIN views THEN "selected"
                  ELSE IF p = current THEN "current_best" ELSE "trial"
    IN  IF views = <<>> THEN {<<none, "none">>}
        ELSE IF current \in DOMAIN views /\ views[current].misses < w.switch THEN {<<current, "current">>}
        ELSE IF current \in DOMAIN views /\ StillBest(views, current, now, w) THEN {<<current, "current_best">>}
        ELSE IF able = {} THEN {<<none, "exhausted">>}
        ELSE {<<p, why(p)>> : p \in FirstOf(views, able, now, w)}

\* _switch_for_good: margin in hundredths.
SwitchForGood(current, candidate, coolUntil, now, w) ==
    coolUntil <= now /\ AtLeast(<<current[1] * (100 - w.margin), 100 * current[2]>>, candidate)

\* The candidates one of which _add_path_candidate drops for another: the last in order
\* that is not current.
Dropped(views, current, now, w) ==
    LET out == DOMAIN views \ {current}
    IN  {p \in out : \A q \in out : ~Ahead(views[p], views[q], now, w)}

-----------------------------------------------------------------------------
(* What a record learns. *)

NewView(hops, now) ==
    [hops |-> hops, samples |-> <<>>, rate |-> <<>>, signal |-> <<>>, misses |-> 0,
     failedAt |-> Absent, seenAt |-> now, coolUntil |-> 0]

SamplesKept == 8

\* _note_path_attempt_result, an attempt that counts.
AttemptNoted(v, ok, now) ==
    IF ok THEN [v EXCEPT !.misses = 0] ELSE [v EXCEPT !.misses = @ + 1, !.failedAt = now]

\* _note_path_result, the candidate's part.
SendNoted(v, ok, now) ==
    LET all == Append(v.samples, [at |-> now, ok |-> ok])
        kept == SubSeq(all, IF Len(all) > SamplesKept THEN 2 ELSE 1, Len(all))
    IN  IF ok THEN [v EXCEPT !.samples = kept, !.misses = 0]
        ELSE [v EXCEPT !.samples = kept, !.failedAt = now]

\* Its switch: the views and the current path after p delivered.
Switched(views, current, p, now, w) ==
    IF /\ current \in DOMAIN views /\ p # current
       /\ SwitchForGood(Score(views[current], now, w), Score(views[p], now, w), views[p].coolUntil, now, w)
    THEN [views |-> [views EXCEPT ![current].coolUntil = now + w.cooldown], current |-> p]
    ELSE [views |-> views, current |-> IF current \in DOMAIN views THEN current ELSE p]

\* _note_peer_reported_path, with a rate, on the candidates there are.
PeerReported(views, hops, rate, now) ==
    [p \in DOMAIN views |->
        IF views[p].hops = hops THEN [views[p] EXCEPT !.rate = <<[is |-> rate, at |-> now]>>] ELSE views[p]]

\* _reverse_flood_path: hashes of n digits, the last first; what is left over is dropped.
ReverseFloodPath(digits, n) ==
    LET k == Len(digits) \div n
    IN  [i \in 1..(k * n) |-> digits[(k - 1 - (i - 1) \div n) * n + ((i - 1) % n) + 1]]
=============================================================================
