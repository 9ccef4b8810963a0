---------------------------- MODULE MCDirectSend ----------------------------
(***************************************************************************)
(* DirectSend on a small instance, and checks of Timing over bounded       *)
(* inputs, evaluated once.  The ones with Limit in their names show where  *)
(* a rule that the code relies on ends.                                    *)
(***************************************************************************)
EXTENDS DirectSend, Integers, Sequences, FiniteSets
CONSTANTS request, proof, plain, a, link, first, second
\* A LINKREQUEST to peer a, an LRPROOF for a, which asks for a second link, and a
\* plain PROOF for a.
MCPeer == [s \in Sends |-> a]
MCKey == [s \in Sends |-> CASE s = request -> link [] s = proof -> first [] OTHER -> None]
MCTier == [s \in Sends |-> IF s = plain THEN 1 ELSE 0]
\* direct_send_attempts_handshake and direct_send_attempts
MCAttempts == [s \in Sends |-> IF s = plain THEN 1 ELSE 2]
MCAsker == [k \in Links |-> a]

-----------------------------------------------------------------------------
(* The times. *)

T == INSTANCE Timing

\* The radio settings the estimates of the source are given for, and the
\* slowest and fastest LoRa settings in use.
FieldRadio == [sf |-> 7, bw |-> 625, cr |-> 8]
Radios == {FieldRadio, [sf |-> 12, bw |-> 1250, cr |-> 8], [sf |-> 7, bw |-> 2500, cr |-> 5]}

Hops == 0..8
Airtimes == {1, 100, 205, 500, 910, 1000, 1250}

\* A longer frame is never shorter on the air, and the two sizes of which the
\* source gives the airtime take it: 0.58 s and 0.14 s (_observability.py 769-780).
ASSUME AirtimeGrows ==
    /\ \A radio \in Radios : \A n \in 1..254 : T!Airtime(radio, n) <= T!Airtime(radio, n + 1)
    /\ T!Airtime(FieldRadio, 100) \in 570..590
    /\ T!Airtime(FieldRadio, 6) \in 135..145

\* A full text fragment of 151 characters is heard as 166 bytes without a path
\* (interface.py 1808-1814).
ASSUME FullFragmentOnAir == T!TextFrameOnAir(151, 0) = 166

\* An estimate stays between the smallest and largest sample, its spread within
\* their distance or the seed's half, so a timeout made of it cannot run away.
RECURSIVE Estimate(_, _)
Estimate(st, rtts) == IF rtts = <<>> THEN st ELSE Estimate(T!Sampled(st, Head(rtts)), Tail(rtts))

ASSUME EstimateWithinSamples ==
    \A z, b, c, d, e \in {1, 300, 1450, 8150} :
        LET seen == {z, b, c, d, e}
            st == Estimate(<<>>, <<z, b, c, d, e>>)
            low == CHOOSE x \in seen : \A y \in seen : x <= y
            high == CHOOSE x \in seen : \A y \in seen : y <= x
        IN  /\ st[1].srtt \in low..high
            /\ st[1].rttvar \in 0..T!Most(high - low, high \div 2)
            /\ st[1].samples = 5

Estimates == {<<>>} \union
    {<<[srtt |-> s, rttvar |-> v, samples |-> n]>> :
        s \in {1, 700, 5000}, v \in {0, 350, 5000}, n \in {1, 3}}

\* The proof that stands in for a report is keyed inside the sender's report
\* wait, for fragments up to 1.25 s at up to six hops, whatever was measured
\* (_reconcile.py 1933-1963).
ASSUME ProofTailFits ==
    \A hops \in 1..6, airtime \in Airtimes, rx \in {T!RxHoldShipped, [T!RxHoldShipped EXCEPT !.on = TRUE]} :
    \A latency, query \in Estimates : \A firmware \in {T!Absent, 500, 20000} :
        T!ReportHold(T!RawShipped, hops, airtime, FALSE)
            < T!ReportWait(T!ReportShipped, hops, latency,
                           T!QueryTimeout(T!CheckShipped, rx, hops, query, firmware))

\* Not "at every hop count", as 1958-1960 say: the answer budget caps the wait
\* at 18 s, and the field's own fragments of 0.91 s outgrow it at ten hops.
ASSUME ProofTailLimit ==
    LET wait(hops) == T!ReportWait(T!ReportShipped, hops, <<>>,
                          T!QueryTimeout(T!CheckShipped, T!RxHoldShipped, hops, <<>>, T!Absent))
    IN  /\ T!ReportHold(T!RawShipped, 9, 910, FALSE) < wait(9)
        /\ T!ReportHold(T!RawShipped, 10, 910, FALSE) > wait(10)

\* The hold for a burst still arriving outlasts the next fragment, up to two and
\* a half times as long as the one that made the report due, and one lost
\* fragment of the same length; so does that of a report of gaps outlast the
\* burst's last fragment if it is no longer (_reconcile.py 1900-1931).
ASSUME HoldsOutlast ==
    \A hops \in Hops, own \in BOOLEAN, airtime \in Airtimes :
        LET raw == [T!RawShipped EXCEPT !.gapOwnAirtime = own]
            hold == T!ReportHold(raw, hops, airtime, TRUE)
        IN  /\ \A next \in {x \in Airtimes : airtime <= x /\ 2 * x <= 5 * airtime} :
                    own => T!ArrivalGap(raw, hops, airtime, next) <= hold
            /\ 2 * T!ArrivalGap(raw, hops, airtime, airtime) <= hold
            /\ T!ArrivalGap(raw, hops, airtime, airtime) <= T!ReportHold(raw, hops, airtime, FALSE)

\* Both holds are scaled by the fragment that made the report due.  When that is
\* a short last fragment (here of 20 bytes), the hold is over before the next
\* full one has come in, a later fragment of the same burst or the parity the
\* proof waits for, at zero hop and through repeaters.
ASSUME ShortFragmentLimit ==
    LET short == T!Airtime(FieldRadio, 20)
        full == T!Airtime(FieldRadio, 180)
    IN  \A hops \in 0..3 :
            /\ T!ReportHold(T!RawShipped, hops, short, TRUE) < T!ArrivalGap(T!RawShipped, hops, short, full)
            /\ hops > 0 => T!ProofTailHold(T!RawShipped, hops, hops, short, TRUE, TRUE)
                                < T!ArrivalGap(T!RawShipped, hops, short, full)

\* A receiver that believes the sender nearer than it is would hold too short:
\* the hop count it uses is never below the sender's, if it was told
\* (_receiver_hops_to).
ASSUME StaleHopsLimit ==
    /\ \A own, reported \in Hops \union {T!Absent} : T!ReceiverHops(own, reported) >= reported
    /\ T!ReportHold(T!RawShipped, 1, 910, FALSE) < T!ArrivalGap(T!RawShipped, 2, 910, 910)

\* A zero-hop burst never has more than one frame waiting behind the one on the
\* air when it hands over the next (_raw_burst_next_send_wait_s).
ASSUME QueueBounded ==
    \A airtime \in Airtimes, before \in {0, 400, 3000} :
        LET busyUntil == T!RadioKeyed(before, 0, airtime)
            now == T!NextSendWait(T!RawShipped, 0, T!Gap(T!RawShipped, 0, airtime), airtime, 0, busyUntil)
        IN  T!RadioKeyed(busyUntil, now, airtime) - now <= 2 * airtime

\* A window of six packets of two fragments and parity each, at three hops,
\* lasts longer than the 60 s its report looks back, which are said to be longer
\* "than a window burst plus its report wait at three hops" (interface.py 342-344).
ASSUME RecentSpanLimit ==
    LET burst == 6 * 3 * T!Gap(T!RawShipped, 3, 910)
    IN  /\ burst + T!ReportWait(T!ReportShipped, 3, <<>>, 18000) > 60000
        /\ 2 * 3 * T!Gap(T!RawShipped, 3, 910) + T!ReportWait(T!ReportShipped, 3, <<>>, 18000) < 60000

Suggestions == {0, 4000, 10000, 60000}

\* No attempt waits longer for its ACK than the budget checked at start-up
\* counts, measured or not; an abort comes before the ACK's deadline.
ASSUME AttemptWithinBudget ==
    \A hops \in {T!Absent} \union Hops, suggested \in Suggestions, st \in Estimates, backoff \in {1, 4} :
        LET wait == T!AckTimeout(T!AckShipped, hops, suggested, st, backoff, 0)
        IN  /\ wait <= T!AckShipped.routedMax /\ wait >= T!AckShipped.floor
            /\ \A echoes \in {<<>>, <<900, 4000, 1700>>} :
                LET deadline == T!Hop1Deadline(T!Hop1Shipped, hops, <<>>, echoes, wait)
                IN  deadline # T!Absent => deadline \in T!Hop1Shipped.min..(wait - 1)

\* With the shipped values four attempts fit the patience of 200 s, and 120 s
\* would not have been enough; with the holds on, 200 s are not.
ASSUME ShippedBudget ==
    LET rxOn == [T!RxHoldShipped EXCEPT !.on = TRUE]
    IN  /\ ~T!Warns(T!AckShipped, T!ListenShipped, T!RxHoldShipped, 4, 200000)
        /\ T!Warns(T!AckShipped, T!ListenShipped, T!RxHoldShipped, 4, 120000)
        /\ T!Warns(T!AckShipped, T!ListenShipped, rxOn, 4, 200000)

RECURSIVE Misses(_, _)
Misses(ack, n) == IF n = 0 THEN 1 ELSE T!BackedOff(ack, Misses(ack, n - 1))

\* A miss under a measured timeout does not count against the path, and widens
\* the next; with round trips of 0.2 s and more the sixth is under the firmware's.
\* It need not be the second, as _direct.py 1340-1344 say.
ASSUME MissesBecomeEvidence ==
    LET wait(st, n) == T!AckTimeout(T!AckShipped, 2, 10000, st, Misses(T!AckShipped, n), 0)
        firmware == T!FirmwareTimeout(T!AckShipped, 2, 10000)
        of(srtt) == <<[srtt |-> srtt, rttvar |-> 0, samples |-> 3]>>
    IN  /\ \A srtt \in 200..5000 : wait(of(srtt), 5) = firmware
        /\ \A n \in 0..4 : wait(of(300), n) < firmware

\* An acknowledged report that nothing was measured for is sent again before the
\* sender's wait is over (_reconcile.py 2336-2344).
ASSUME RetryInTime ==
    \A hops \in Hops :
        2 * T!PreemptFloor(hops, <<>>) <= T!ReportWait(T!ReportShipped, hops, <<>>, 20000 + 2500 * hops)

\* The hold of a text answer outlasts the relays of the ACK before it, each up
\* to one and a half airtimes late.
ASSUME AnswerAfterAck ==
    \A hops \in 1..8, ack \in {100, 156} : 2 * T!AnswerHold(hops, ack) >= 2 * (1 + hops) * ack + 3 * hops * ack

\* The spacing is twice the upper median of the near gaps, within its bounds.
ASSUME SpacingSane ==
    \A z, b, c \in {0, 30, 90, 400, 2000} :
        T!PartSpacing(<<z, b, c>>, 750) \in 40..750

\* The air is kept free at least while the ACK of an overheard text comes back.
ASSUME PredictedCoversAck ==
    \A hopsLeft \in 0..4, airtime \in Airtimes :
        T!PredictedHold(T!RxHoldShipped, [type |-> "TEXT_MSG", route |-> "DIRECT", hopsLeft |-> hopsLeft],
                        airtime, 156, 205) >= hopsLeft * airtime + (1 + hopsLeft) * 156

-----------------------------------------------------------------------------
(* The options. *)

C == INSTANCE Configuration

Given(numbers, switches) == [numbers |-> numbers, switches |-> switches]
Defaults == Given(<<>>, <<>>)
SetTo(key, value) == [x \in {key} |-> value]

\* What Timing has as shipped is what an empty configuration gives.
ASSUME ShippedIsDefault ==
    LET check == C!CompletionCheck(Defaults)
        raw == C!Raw(Defaults)
        ack == C!Ack(Defaults)
        hop1 == C!Hop1Abort(Defaults)
        heard == C!Listening(Defaults)
    IN  /\ \A f \in DOMAIN T!CheckShipped : check[f] = T!CheckShipped[f]
        /\ T!ReportShipped = C!ReportWaits(Defaults)
        /\ T!ListenShipped = C!Listen(Defaults)
        /\ T!RawShipped = [hopGapFactor |-> raw.hopGapFactor \div 1000, gapOwnAirtime |-> raw.gapOwnAirtime,
                           zeroHopGap |-> raw.zeroHopGap, burstQueueAhead |-> raw.queueAhead]
        /\ T!Hop1Shipped = [hop1 EXCEPT !.multiplier = @ \div 1000]
        /\ T!AckShipped = [ack EXCEPT !.multiplier = @ \div 1000, !.missBackoff = @ \div 1000]
        /\ T!RxHoldShipped = [on |-> heard.holdsOn, max |-> heard.holdMax, flood |-> heard.floodFactor \div 100,
                              hop |-> heard.hopFactor \div 100, turnaround |-> heard.turnaround,
                              jitterMin |-> heard.jitterMin, jitterMax |-> heard.jitterMax]

\* Each spelling of no turns a switch off whose default is on; a misspelling turns
\* one on whose default is off; the new key of path selection overrules the old.
ASSUME SwitchesRead ==
    /\ \A text \in C!Falsy : ~C!Raw(Given(<<>>, SetTo("direct_raw_fragments_enabled", text))).on
    /\ C!Listening(Given(<<>>, SetTo("rx_log_holds_enabled", "of"))).holdsOn
    /\ ~C!Selection(Given(<<>>, SetTo("path_adopt_enabled", "no"))).on
    /\ C!Selection(Given(<<>>, [key \in {"path_adopt_enabled", "path_selection_enabled"} |->
                                IF key = "path_adopt_enabled" THEN "no" ELSE "yes"])).on

\* The start-up check is silent on the defaults, and speaks on the mistake it was
\* written for, 120 s of patience for attempts of 48 s (_config.py 1471-1477).
ASSUME WarnsOfIncoherence ==
    /\ ~C!Warned(Defaults)
    /\ C!Warned(Given([key \in {"reassembly_idle_timeout", "direct_post_send_listen_max"} |->
                       IF key = "reassembly_idle_timeout" THEN 120000 ELSE 3000], <<>>))
    /\ \A cfg \in {Defaults, Given(<<>>, SetTo("rx_log_holds_enabled", "yes"))} :
        C!LongestAttempt(cfg) =
            T!AttemptBudget(T!AckShipped, T!ListenShipped, [T!RxHoldShipped EXCEPT !.on = C!Listening(cfg).holdsOn])

\* But it takes the most patient send for all: with direct_send_attempts at zero it
\* is silent and no plain send makes an attempt.
ASSUME SilentWithoutAttemptsLimit ==
    LET cfg == Given(SetTo("direct_send_attempts", 0), <<>>)
    IN  ~C!Warned(cfg) /\ C!SendAttempts(cfg, FALSE) = 0

\* The largest raw frame, of 172 bytes, fits the budget of a window for relayed
\* frames at the field's settings and at SF 12 in 125 kHz; at SF 12 in 62.5 kHz it
\* does not, and goes out alone in its window.
ASSUME FrameFitsBudget ==
    /\ \A radio \in Radios : T!Airtime(radio, 172) < C!AirBudget(Defaults, TRUE)
    /\ T!Airtime([sf |-> 12, bw |-> 625, cr |-> 8], 172) > C!AirBudget(Defaults, TRUE)
    /\ C!AirBudget(Defaults, TRUE) < C!AirBudget(Defaults, FALSE)

\* A request for peers is repeated after 1, 2, 4, 8, 16 and then every 30 minutes.
RECURSIVE Rerequest(_)
Rerequest(k) == C!NextRerequest(Defaults, IF k = 1 THEN <<>> ELSE <<Rerequest(k - 1)>>)
ASSUME RerequestSlows ==
    [k \in 1..7 |-> Rerequest(k) \div 60000] = <<1, 2, 4, 8, 16, 30, 30>>
=============================================================================
