------------------------------- MODULE Timing -------------------------------
(***************************************************************************)
(* How long the interface spaces, holds and waits (smci/_reconcile.py,     *)
(* _direct.py, _paths.py, _observability.py, _config.py): functions of the *)
(* hop count, of a frame's airtime, of what was measured and of the        *)
(* configuration, kept here apart from the components that call them,      *)
(* because what must hold is between them: a receiver's hold against the   *)
(* sender's spacing, a proof's delay against the wait it must end, an      *)
(* attempt's length against the far side's patience.                       *)
(*                                                                         *)
(* Times are in milliseconds, fractions of one dropped.  Multiples of      *)
(* airtimes are whole, or halves where the code has halves.                *)
(***************************************************************************)
EXTENDS Integers, Sequences, FiniteSets

Absent == -1    \* Python's None, of a time or a hop count

Least(a, b) == IF a <= b THEN a ELSE b
Most(a, b) == IF a >= b THEN a ELSE b
Positive(a) == Most(0, a)

-----------------------------------------------------------------------------
(* The configuration as shipped. *)

RawShipped ==
    [hopGapFactor |-> 2, gapOwnAirtime |-> TRUE, zeroHopGap |-> 150, burstQueueAhead |-> 1]

CheckShipped ==
    [timeout |-> 5000, max |-> 15000, maxMultihop |-> 18000,
     grace |-> 6000, graceMultihop |-> 10000, perHop |-> 2500,
     quietBase |-> 2000, quietPerHop |-> 3000]

ReportShipped == [base |-> 4000, perHop |-> 2500]

Hop1Shipped == [on |-> TRUE, minSamples |-> 3, multiplier |-> 2, min |-> 5000, default |-> 8000]

AckShipped ==
    [min |-> 5000, routedMax |-> 45000, base |-> 5000, perHop |-> 3000,
     adaptive |-> TRUE, minSamples |-> 3, multiplier |-> 2, floor |-> 3000, missBackoff |-> 2]

\* Factors in tenths.
RxHoldShipped ==
    [on |-> FALSE, max |-> 4000, flood |-> 25, hop |-> 15, turnaround |-> 400,
     jitterMin |-> 200, jitterMax |-> 800]

ListenShipped == [min |-> 200, max |-> 1000, successMin |-> 0, successMax |-> 400]

-----------------------------------------------------------------------------
(* Airtime. *)

Ceiling(a, b) == -((-a) \div b)

\* _estimate_airtime_s: a frame of n bytes by the LoRa formula, in quarters of
\* a symbol; bandwidth in tenths of a kilohertz.
Quarters(radio, n) ==
    LET slow == 10 * 2^radio.sf > 16 * radio.bw     \* low-data-rate optimisation
        preamble == IF radio.sf <= 8 THEN 32 ELSE 16
        bits == 8 * Most(1, n) - 4 * radio.sf + 44
        perBlock == 4 * (radio.sf - IF slow THEN 2 ELSE 0)
    IN  4 * preamble + 17 + 4 * (8 + Positive(Ceiling(bits, perBlock)) * radio.cr)

Airtime(radio, n) == (Quarters(radio, n) * 2^radio.sf * 5) \div (2 * radio.bw)

\* The flat estimate, while the radio's parameters are unknown.
AirtimeAtBitrate(bitrate, n) == (8000 * Most(1, n)) \div Most(1, bitrate)

\* _text_frame_on_air_bytes: a text of so many characters in the firmware's
\* framing, the cipher's blocks padded to 16.
TextFrameOnAir(chars, pathLen) == 6 + Positive(pathLen) + 16 * Ceiling(chars + 6, 16)

\* _note_radio_keyed: until when the radio is busy, after one frame more.
RadioKeyed(busyUntil, now, airtime) == Most(now, busyUntil) + Positive(airtime)

-----------------------------------------------------------------------------
(* The sender of a raw burst. *)

\* _raw_fragment_gap_s, for a fragment of this airtime.
Gap(raw, hops, airtime) ==
    IF hops <= 0
    THEN Positive(raw.zeroHopGap)
    ELSE Positive(((IF raw.gapOwnAirtime THEN 1 ELSE 0) + raw.hopGapFactor * hops) * airtime)

\* _raw_burst_next_send_wait_s
NextSendWait(raw, hops, gap, airtime, now, busyUntil) ==
    IF hops <= 0 /\ raw.burstQueueAhead > 0
    THEN Most(Positive(gap), busyUntil - raw.burstQueueAhead * Positive(airtime) - now)
    ELSE Positive(gap)

\* _noack_frame_hold_s: the lock after a frame that nobody acknowledges.
NoAckHold(raw, hops, airtime) ==
    IF hops > 0 THEN Gap(raw, hops, airtime) ELSE airtime + Positive(raw.zeroHopGap)

\* _completion_answer_hold_s, given the airtime of an acknowledgement.
AnswerHold(hops, ackAirtime) ==
    IF hops <= 0 THEN 0 ELSE (ackAirtime * (2 + 5 * hops)) \div 2

-----------------------------------------------------------------------------
(* What is measured: round trips, smoothed. *)

\* What is measured: nothing yet, or a smoothed round trip.
Measured(st) == st = <<>> \/ (Len(st) = 1 /\ st[1] \in [srtt : Nat, rttvar : Nat, samples : Nat])

\* _rtt_sample
Sampled(st, rtt) ==
    IF rtt <= 0 THEN st
    ELSE IF st = <<>>
    THEN <<[srtt |-> rtt, rttvar |-> rtt \div 2, samples |-> 1]>>
    ELSE LET s == st[1]
             err == rtt - s.srtt
             spread == IF err >= 0 THEN err ELSE -err
         IN  <<[srtt |-> (7 * s.srtt + rtt) \div 8,
                rttvar |-> (3 * s.rttvar + spread) \div 4,
                samples |-> s.samples + 1]>>

\* _completion_query_timeout_cap_s, the hop count known.
QueryCap(check, hops) == IF hops >= 2 THEN check.maxMultihop ELSE check.max

\* _completion_query_timeout_s: query is what was measured of this peer's
\* answers, firmware its last bound (Absent: neither); held is the pre-transmit
\* hold the answer may pay.
QueryTimeout(check, rx, hops, query, firmware) ==
    LET cap == Most(check.timeout, QueryCap(check, hops))
        floor == Least(check.timeout + check.perHop * Positive(hops), cap)
        measured == IF query # <<>> THEN 2 * (query[1].srtt + 4 * query[1].rttvar)
                    ELSE IF firmware # Absent THEN 2 * firmware
                    ELSE floor
    IN  Least(Most(measured + (IF rx.on THEN rx.max ELSE 0), floor), cap)

\* _completion_quiet_window_s; Absent: no window.
QuietWindow(check, hops, timeout, query) ==
    LET sized == check.quietBase + check.quietPerHop * Positive(hops)
    IN  IF check.quietBase <= 0 /\ check.quietPerHop <= 0 THEN Absent
        ELSE IF query # <<>> /\ query[1].samples >= 3
        THEN Positive(Least(timeout, Most(sized, query[1].srtt + 2 * query[1].rttvar)))
        ELSE Positive(Least(timeout, sized))

\* _completion_unacked_grace_s
UnackedGrace(check, hops) == Positive(IF hops >= 2 THEN check.graceMultihop ELSE check.grace)

\* _completion_report_wait_s: latency is what was measured of this peer's
\* reports, budget what a QUERY's answer would get.
ReportWait(report, hops, latency, budget) ==
    LET sized == report.base + report.perHop * Positive(hops)
    IN  Positive(Least(budget,
            IF latency = <<>> THEN sized ELSE Most(sized, latency[1].srtt + 2 * latency[1].rttvar)))

\* _observed_part_spacing_s: twice the median of the gaps between arrivals that
\* are shorter than maximum, within bounds.
PartSpacing(gaps, maximum) ==
    LET floor == 40
        near == {i \in DOMAIN gaps : gaps[i] >= 0 /\ gaps[i] < maximum}
        below(i) == {j \in near : gaps[j] < gaps[i] \/ (gaps[j] = gaps[i] /\ j < i)}
        median == CHOOSE i \in near : Cardinality(below(i)) = Cardinality(near) \div 2
    IN  IF near = {} THEN (IF maximum > 0 THEN Least(maximum, floor) ELSE 0)
        ELSE Most(floor, Least(maximum, 2 * gaps[median]))

-----------------------------------------------------------------------------
(* The receiver of a raw burst. *)

\* _report_hold_s, scaled by the fragment that made the report due.
ReportHold(raw, hops, airtime, arriving) ==
    LET spacing == IF hops > 0 THEN Gap(raw, hops, airtime) ELSE airtime + Positive(raw.zeroHopGap)
    IN  (IF arriving THEN 2 ELSE 1) * spacing + airtime \div 2

\* _receiver_hops_to: its own path to the sender, and what the sender reported
\* of its own (Absent: unknown).
ReceiverHops(own, reported) == Most(Positive(own), Positive(reported))

\* _proof_tail_hold_s: own is the path the proof itself will take.
ProofTailHold(raw, own, reported, airtime, parityDue, flagged) ==
    IF ReceiverHops(own, reported) = 0 \/ own = 0 THEN 0
    ELSE IF parityDue \/ ~flagged THEN ReportHold(raw, ReceiverHops(own, reported), airtime, FALSE)
    ELSE 0

\* How long after one fragment has come in the next one has, the first taking
\* airtime and the second next: the sender's spacing, and what the longer
\* fragment takes more at each sender and repeater.  Repeaters forward at once.
ArrivalGap(raw, hops, airtime, next) ==
    IF hops > 0
    THEN Gap(raw, hops, airtime) + (1 + hops) * (next - airtime)
    ELSE Most(next, Gap(raw, hops, airtime) + (next - airtime))
-----------------------------------------------------------------------------
(* One attempt of a DIRECT send. *)

\* _ack_timeout_cap_s (hops Absent: unknown).
AckCap(ack, hops) == Least(ack.base + ack.perHop * Positive(hops), ack.routedMax)

\* What _await_direct_ack makes of the firmware's suggestion.
FirmwareTimeout(ack, hops, suggested) ==
    Least(Least(Most((6 * suggested) \div 5, ack.min), AckCap(ack, hops)), ack.routedMax)

\* _adaptive_ack_timeout: st is the estimate of this peer, backoff what its
\* misses have made of it.
AdaptiveTimeout(ack, st, backoff, firmware) ==
    IF ~ack.adaptive \/ st = <<>> \/ st[1].samples < ack.minSamples THEN firmware
    ELSE Least(firmware, Most(ack.floor, ack.multiplier * (st[1].srtt + 4 * st[1].rttvar) * backoff))

\* _backoff_ack_rtt: a miss under a measured timeout widens the next.
BackedOff(ack, backoff) == backoff * ack.missBackoff

\* _await_direct_ack: the wait of one attempt; limit is ack_timeout_max_s.
AckTimeout(ack, hops, suggested, st, backoff, limit) ==
    LET sized == AdaptiveTimeout(ack, st, backoff, FirmwareTimeout(ack, hops, suggested))
    IN  IF limit > 0 THEN Least(limit, sized) ELSE sized

\* _ack_preempt_floor_s
PreemptFloor(hops, st) ==
    IF st # <<>> THEN Most(500, st[1].srtt + st[1].rttvar) ELSE 2000 + 1000 * Positive(hops)

Slowest(samples) == CHOOSE x \in samples : \A y \in samples : y <= x
RangeOf(seq) == {seq[i] : i \in DOMAIN seq}

\* _hop1_abort_deadline_s: own are the echoes of this peer's first hop, pool
\* those of every peer's; Absent: not armed.
Hop1Deadline(hop1, hops, own, pool, timeout) ==
    LET enough(seq) == Len(seq) >= hop1.minSamples /\ seq # <<>>
        echoed(seq) == Most(hop1.min, hop1.multiplier * Slowest(RangeOf(seq)))
        deadline == IF enough(own) THEN echoed(own)
                    ELSE IF enough(pool) THEN echoed(pool)
                    ELSE IF hop1.default > 0 THEN Most(hop1.min, hop1.default)
                    ELSE Absent
    IN  IF hop1.on /\ hops >= 1 /\ deadline # Absent /\ deadline < timeout THEN deadline ELSE Absent

\* _predicted_hold_for_rx: for how long more the air is busy after a packet of
\* this type and route was heard; ack and reply are the airtimes of 12 and 24
\* bytes.
PredictedHold(rx, packet, airtime, ack, reply) ==
    LET answered == packet.type \in {"REQ", "TEXT_MSG"}
        final == packet.type \in {"ACK", "ADVERT"}
    IN  IF packet.route = "FLOOD"
        THEN (rx.flood * airtime) \div 10 + (IF answered THEN reply + rx.turnaround ELSE 0)
        ELSE IF packet.route = "DIRECT" /\ ~final
        THEN (rx.hop * airtime * packet.hopsLeft) \div 10
                + (IF answered THEN ack + rx.turnaround + (rx.hop * ack * packet.hopsLeft) \div 10 ELSE 0)
        ELSE 0

\* _wait_for_medium_clear waits no longer, however much it hears meanwhile.
PreTransmitMax(rx) == IF rx.on THEN rx.max ELSE 0

\* _post_miss_hold_s, given how long the air is still expected busy and the
\* jitter drawn.
PostMissHold(rx, diagnosis, busyFor, jitter) ==
    Least(rx.max, (IF diagnosis = "downstream_loss" THEN 0 ELSE Positive(busyFor)) + jitter)

\* _post_attempt_listen_s: what one attempt may draw.
PostAttemptListen(listen, rx, ok, diagnosis, busyFor) ==
    IF ok THEN listen.successMin..listen.successMax
    ELSE IF rx.on THEN {PostMissHold(rx, diagnosis, busyFor, j) : j \in rx.jitterMin..rx.jitterMax}
    ELSE listen.min..listen.max

\* _validate_direct_timing_budget: the longest attempt, and whether it warns
\* that attempts of that length do not fit the patience of the receiver.
AttemptBudget(ack, listen, rx) ==
    ack.routedMax + PreTransmitMax(rx) + (IF rx.on THEN rx.max ELSE listen.max)

Warns(ack, listen, rx, attempts, patience) ==
    LET budget == AttemptBudget(ack, listen, rx)
    IN  budget > 0 /\ patience < attempts * budget
=============================================================================
