---------------------------- MODULE Configuration ----------------------------
(***************************************************************************)
(* What the configuration file makes of the interface (smci/_config.py):   *)
(* the options that are numbers or switches, with their defaults and the   *)
(* bounds put on them, and the values the code uses where it bounds an     *)
(* option only then.  The models take these as constants; their            *)
(* assumptions are about what comes out here.                              *)
(*                                                                         *)
(* A configuration is [numbers, switches], functions from the keys that    *)
(* are given to numbers and to texts.  Times are in milliseconds, factors, *)
(* fractions and decibels in thousandths, everything else as it is.        *)
(***************************************************************************)
EXTENDS Integers, Sequences, FiniteSets

Least(a, b) == IF a <= b THEN a ELSE b
Most(a, b) == IF a >= b THEN a ELSE b

\* cfg.get(key, default), of a number.
Number(cfg, key, default) == IF key \in DOMAIN cfg.numbers THEN cfg.numbers[key] ELSE default

\* _cfg_bool, of a text in lower case: what is not recognised is taken as yes.
Falsy == {"no", "false", "0", "off", "n", "f", "none", "disabled", "disable"}
CfgBool(text) == text \notin Falsy
Switch(cfg, key, default) == CfgBool(IF key \in DOMAIN cfg.switches THEN cfg.switches[key] ELSE default)

-----------------------------------------------------------------------------
(* The options, by the method that reads them. *)

\* _configure_transport.
Connection(cfg) ==
    LET retryMin == Most(1000, Number(cfg, "connect_retry_min", 5000))
    IN  [autoReconnect |-> Switch(cfg, "auto_reconnect", "yes"),
         maxReconnect |-> Number(cfg, "max_reconnect_attempts", 0),
         retryMin |-> retryMin, retryMax |-> Most(retryMin, Number(cfg, "connect_retry_max", 60000)),
         settle |-> Most(0, Number(cfg, "serial_open_settle", 2000)),
         handshakes |-> Most(1, Number(cfg, "handshake_attempts", 5)),
         handshakeTimeout |-> Most(1000, Number(cfg, "handshake_timeout", 5000)),
         commandTimeout |-> Most(1000, Number(cfg, "command_timeout", 15000)),
         noiseWarn |-> Most(1, Number(cfg, "serial_noise_warn_per_min", 5))]

Medium(cfg) ==
    [dutyOn |-> Switch(cfg, "duty_cycle_enabled", "yes"),
     dutyWindow |-> Number(cfg, "duty_cycle_window", 60000),
     relayedFraction |-> Number(cfg, "duty_cycle_max_fraction", 300),
     zeroHopFraction |-> Number(cfg, "duty_cycle_max_fraction_zero_hop", 850),
     exemptHandshake |-> Switch(cfg, "duty_cycle_exempt_handshake", "yes"),
     estimateBitrate |-> Number(cfg, "duty_cycle_estimate_bitrate", 1200)]

Listening(cfg) ==
    [deferOn |-> Switch(cfg, "incoming_quiet_defer_enabled", "yes"),
     quietWindow |-> Number(cfg, "incoming_quiet_window", 3000),
     quietMax |-> Number(cfg, "incoming_quiet_defer_max_wait", 15000),
     holdsOn |-> Switch(cfg, "rx_log_holds_enabled", "no"),
     holdMax |-> Number(cfg, "rx_log_hold_max", 4000),
     floodFactor |-> Number(cfg, "rx_log_hold_flood_factor", 2500),
     hopFactor |-> Number(cfg, "rx_log_hold_hop_factor", 1500),
     turnaround |-> Number(cfg, "rx_log_hold_turnaround", 400),
     jitterMin |-> Number(cfg, "rx_log_hold_jitter_min", 200),
     jitterMax |-> Number(cfg, "rx_log_hold_jitter_max", 800)]

\* _configure_fragmentation.
Fragmentation(cfg) ==
    [unknown |-> [min |-> Number(cfg, "fragment_delay_min", 5000), max |-> Number(cfg, "fragment_delay_max", 10000)],
     zeroHop |-> [min |-> Number(cfg, "fragment_delay_zero_hop_min", 500),
                  max |-> Number(cfg, "fragment_delay_zero_hop_max", 1500)],
     perHop |-> [min |-> Number(cfg, "fragment_delay_per_hop_min", 5000),
                 max |-> Number(cfg, "fragment_delay_per_hop_max", 10000)],
     shuffle |-> Switch(cfg, "fragment_order_shuffle", "yes"),
     maxKeys |-> Number(cfg, "reassembly_max_keys", 256),
     idle |-> Number(cfg, "reassembly_idle_timeout", 200000),
     idleCoop |-> Number(cfg, "reassembly_idle_timeout_coop", 180000),
     dedupTtl |-> Number(cfg, "whole_packet_dedup_ttl", 150000)]

\* _configure_retry, in the order of its parts.
Passes(cfg) ==
    [announceExtra |-> Number(cfg, "announce_retransmit_extra", 0),
     announceInterval |-> Number(cfg, "announce_min_interval", 300000),
     pathRequestExtra |-> Number(cfg, "path_req_retransmit_extra", 1),
     linkDataExtra |-> Number(cfg, "ordinary_data_link_retransmit_extra", 0),
     bareDataExtra |-> Number(cfg, "ordinary_data_bare_retransmit_extra", 1),
     jitterMin |-> Number(cfg, "retransmit_jitter_min", 8000),
     jitterMax |-> Number(cfg, "retransmit_jitter_max", 20000)]

CompletionCheck(cfg) ==
    [on |-> Switch(cfg, "direct_completion_check_enabled", "true"),
     timeout |-> Number(cfg, "direct_completion_check_timeout", 5000),
     max |-> Number(cfg, "direct_completion_check_timeout_max", 15000),
     maxMultihop |-> Number(cfg, "direct_completion_check_timeout_max_multihop", 18000),
     grace |-> Number(cfg, "direct_completion_unacked_grace", 6000),
     graceMultihop |-> Number(cfg, "direct_completion_unacked_grace_multihop", 10000),
     perHop |-> Number(cfg, "direct_completion_check_timeout_per_hop", 2500),
     quietBase |-> Number(cfg, "direct_completion_quiet_base", 2000),
     quietPerHop |-> Number(cfg, "direct_completion_quiet_per_hop", 3000)]

TextSend(cfg) ==
    [reconcile |-> Switch(cfg, "direct_fragment_reconcile_enabled", "yes"),
     pass0 |-> Number(cfg, "direct_fragment_pass0_attempts", 1),
     finish |-> Number(cfg, "direct_fragment_finish_attempts", 4),
     resume |-> Switch(cfg, "direct_fragment_resume_enabled", "yes")]

Raw(cfg) ==
    [on |-> Switch(cfg, "direct_raw_fragments_enabled", "yes"),
     inFlight |-> Number(cfg, "direct_fragmented_max_in_flight", 2),
     payloadCap |-> Number(cfg, "direct_raw_payload_cap", 170),
     queueAhead |-> Number(cfg, "direct_raw_burst_queue_ahead", 1),
     zeroHopGap |-> Number(cfg, "direct_raw_zero_hop_gap", 150),
     hopGapFactor |-> Number(cfg, "direct_raw_hop_gap_factor", 2000),
     gapOwnAirtime |-> Switch(cfg, "direct_raw_gap_own_airtime", "yes"),
     rounds |-> Most(1, Least(4, Number(cfg, "direct_raw_reconcile_rounds", 3))),
     queryAttempts |-> Number(cfg, "direct_raw_query_attempts", 2),
     maxRelayedRounds |-> Most(0, Number(cfg, "direct_raw_window_max_rounds", 2))]

Reports(cfg) ==
    [on |-> Switch(cfg, "direct_raw_report_enabled", "yes"),
     noack |-> Switch(cfg, "direct_report_noack", "yes"),
     ackMinHops |-> Most(0, Number(cfg, "direct_report_ack_min_hops", 2)),
     debounce |-> Switch(cfg, "direct_report_debounce", "yes"),
     holdDuringBurst |-> Switch(cfg, "direct_report_hold_during_burst", "yes")]

ReportWaits(cfg) ==
    [base |-> Number(cfg, "direct_raw_report_wait_base", 4000),
     perHop |-> Number(cfg, "direct_raw_report_wait_per_hop", 2500)]

Windows(cfg) ==
    [on |-> Switch(cfg, "direct_raw_window_enabled", "yes"),
     collect |-> Number(cfg, "direct_raw_window_collect", 750),
     maxParts |-> Number(cfg, "direct_raw_window_max_parts", 6),
     parity |-> Switch(cfg, "direct_raw_parity_enabled", "yes"),
     parityMinHops |-> Number(cfg, "direct_raw_parity_min_hops", 1)]

Fallback(cfg) ==
    [reburst |-> Number(cfg, "direct_raw_reburst_after_unanswered", 2),
     strikes |-> Number(cfg, "direct_raw_fallback_strikes", 2),
     cooldown |-> Number(cfg, "direct_raw_fallback_cooldown", 120000),
     incompleteStrikes |-> Number(cfg, "direct_raw_incomplete_strikes", 2),
     unsupportedTtl |-> Number(cfg, "direct_raw_path_unsupported_ttl", 86400000)]

Hop1Abort(cfg) ==
    [on |-> Switch(cfg, "direct_hop1_abort_enabled", "yes"),
     minSamples |-> Number(cfg, "direct_hop1_abort_min_samples", 3),
     multiplier |-> Number(cfg, "direct_hop1_abort_echo_multiplier", 2000),
     min |-> Number(cfg, "direct_hop1_abort_min", 5000),
     default |-> Number(cfg, "direct_hop1_abort_default", 8000)]

Ages(cfg) ==
    [maxAge |-> Number(cfg, "outgoing_max_age", 120000),
     proofMaxAge |-> Number(cfg, "proof_max_age", 45000),
     proofFresh |-> Number(cfg, "proof_fresh_s", 8000),
     proofGrace |-> Most(0, Number(cfg, "proof_report_grace", 250)),
     suppressLimit |-> Number(cfg, "outgoing_duplicate_suppress_limit", 3)]

\* _configure_path_discovery.
Discovery(cfg) ==
    [quick |-> Number(cfg, "path_discovery_quick_attempts", 2),
     base |-> Number(cfg, "path_discovery_base_cooldown", 20000),
     max |-> Number(cfg, "path_discovery_max_cooldown", 900000),
     factor |-> Number(cfg, "path_discovery_backoff_factor", 1800)]

\* The old key of the switch speaks where the new one is not given.
Selection(cfg) ==
    [on |-> LET old == IF "path_adopt_enabled" \in DOMAIN cfg.switches
                       THEN cfg.switches["path_adopt_enabled"] ELSE "yes"
            IN  Switch(cfg, "path_selection_enabled", old),
     weakSnr |-> Number(cfg, "path_weak_snr_db", 3000),
     switch |-> Most(1, Number(cfg, "path_switch_after_misses", 4)),
     margin |-> Most(0, Number(cfg, "path_switch_margin", 250)),
     cooldown |-> Most(0, Number(cfg, "path_switch_cooldown", 120000))]

Resets(cfg) ==
    [threshold |-> Number(cfg, "direct_path_reset_threshold", 3),
     rssiFloor |-> Number(cfg, "direct_path_reset_rssi_floor", -105000),
     patience |-> Number(cfg, "direct_path_reset_patience_multiplier", 3000),
     minAge |-> Number(cfg, "direct_path_reset_min_age", 60000)]

\* _configure_retry, the last of it.
Healthy(cfg) ==
    [window |-> Number(cfg, "direct_path_healthy_window", 120000),
     successes |-> Number(cfg, "direct_path_healthy_recent_successes", 5),
     patience |-> Number(cfg, "direct_path_healthy_patience_multiplier", 2500)]

Contacts(cfg) ==
    [refresh |-> Number(cfg, "contact_refresh_interval", 30000),
     grantAll |-> Switch(cfg, "telemetry_grant_all_contacts", "no"),
     announceTtl |-> Number(cfg, "announce_cache_ttl", 604800000),
     answerInterval |-> Number(cfg, "path_request_local_answer_min_interval", 600000)]

\* _configure_peer_discovery.
PeerSearch(cfg) ==
    [on |-> Switch(cfg, "peer_discovery_enabled", "yes"),
     upstream |-> Switch(cfg, "declares_upstream_rns", "no"),
     jitterMin |-> Number(cfg, "bind_response_jitter_min", 10000),
     jitterMax |-> Number(cfg, "bind_response_jitter_max", 30000),
     responseInterval |-> Number(cfg, "bind_response_min_interval", 300000),
     target |-> Number(cfg, "peer_discovery_target_peers", 3),
     rerequest |-> Number(cfg, "peer_discovery_rerequest_interval", 1800000),
     rerequestInitial |-> Number(cfg, "peer_discovery_rerequest_initial", 60000),
     ttl |-> Number(cfg, "peer_ttl", 86400000),
     sweep |-> Number(cfg, "peer_ttl_sweep_interval", 300000),
     correlationTtl |-> Number(cfg, "proof_correlation_ttl", 120000),
     pathRequestCap |-> Number(cfg, "path_request_direct_supplement_cap", 2),
     bootstrapCap |-> Number(cfg, "bootstrap_direct_supplement_cap", 2)]

AttemptLimits(cfg) ==
    [plain |-> Number(cfg, "direct_send_attempts", 2),
     handshake |-> Number(cfg, "direct_send_attempts_handshake", 4)]

Listen(cfg) ==
    [min |-> Number(cfg, "direct_post_send_listen_min", 200),
     max |-> Number(cfg, "direct_post_send_listen_max", 1000),
     successMin |-> Number(cfg, "direct_post_send_listen_success_min", 0),
     successMax |-> Number(cfg, "direct_post_send_listen_success_max", 400)]

Ack(cfg) ==
    [min |-> Number(cfg, "direct_ack_min_timeout", 5000),
     routedMax |-> Number(cfg, "direct_ack_timeout_routed_max", 45000),
     base |-> Number(cfg, "direct_ack_timeout_base", 5000),
     perHop |-> Number(cfg, "direct_ack_timeout_per_hop", 3000),
     adaptive |-> Switch(cfg, "direct_ack_rtt_adaptive_enabled", "yes"),
     minSamples |-> Number(cfg, "direct_ack_rtt_min_samples", 3),
     multiplier |-> Number(cfg, "direct_ack_rtt_timeout_multiplier", 2000),
     floor |-> Number(cfg, "direct_ack_rtt_min_timeout", 3000),
     missBackoff |-> Number(cfg, "direct_ack_rtt_miss_backoff", 2000)]

\* _configure_observability.
Observing(cfg) ==
    [stats |-> Number(cfg, "stats_interval", 60000),
     capture |-> Switch(cfg, "packet_capture_enabled", "no"),
     radioStats |-> Number(cfg, "radio_stats_interval", 300000),
     rxLog |-> Switch(cfg, "rx_log_observe_enabled", "yes")]

-----------------------------------------------------------------------------
(* Where a bound is put on an option only when it is used. *)

\* _raw_window_rounds: the rounds of a burst window over so many hops.
WindowRounds(cfg, hops) ==
    LET rounds == Most(1, Raw(cfg).rounds)
        cap == Raw(cfg).maxRelayedRounds
    IN  IF hops >= 1 /\ cap > 0 THEN Most(1, Least(rounds, cap)) ELSE rounds

WindowParts(cfg) == Most(1, Windows(cfg).maxParts)
QueryTries(cfg) == Most(1, Raw(cfg).queryAttempts)
EmptyBurstsAllowed(cfg) == Most(1, Fallback(cfg).strikes)
Pass0Attempts(cfg) == Most(1, TextSend(cfg).pass0)
Suppressions(cfg) == Most(1, Ages(cfg).suppressLimit)

\* _send_direct_with_attempts: the attempts of a send that was given no number.
SendAttempts(cfg, handshake) == IF handshake THEN AttemptLimits(cfg).handshake ELSE AttemptLimits(cfg).plain

\* _fragment_spacing_range; hops -1 is not known.
Spacing(cfg, hops) ==
    LET f == Fragmentation(cfg)
    IN  CASE hops = 0 -> f.zeroHop
          [] hops >= 1 -> [min |-> f.perHop.min * hops, max |-> f.perHop.max * hops]
          [] hops < 0 -> f.unknown

\* _loop_interval_s: no periodic loop sleeps for less than a second.
MinLoop == 1000
LoopInterval(interval) == IF interval >= MinLoop THEN interval ELSE MinLoop

\* The sleeps of the stats, radio stats, contact and peer loops; the two of the
\* bind REQUEST's repeat.
Sleeps(cfg) ==
    {LoopInterval(i) : i \in {Observing(cfg).stats, Observing(cfg).radioStats, Contacts(cfg).refresh,
                              PeerSearch(cfg).sweep, PeerSearch(cfg).rerequest, PeerSearch(cfg).rerequestInitial}}

\* _next_rerequest_interval_s, the first (current empty) and the next.
NextRerequest(cfg, current) ==
    Least(IF current = <<>> THEN PeerSearch(cfg).rerequestInitial ELSE 2 * current[1], PeerSearch(cfg).rerequest)

\* _connection_supervisor: the delay after a failed attempt to connect.
NextRetry(cfg, delay) == Least(2 * delay, Connection(cfg).retryMax)

\* _throttle_for_duty_cycle: the budget of a window, in milliseconds of airtime.
AirBudget(cfg, relayed) ==
    LET m == Medium(cfg)
    IN  (m.dutyWindow * (IF relayed THEN m.relayedFraction ELSE m.zeroHopFraction)) \div 1000

\* _validate_direct_timing_budget: the most attempts, the longest of them, and
\* whether it warns.
MostAttempts(cfg) == Most(Most(AttemptLimits(cfg).plain, AttemptLimits(cfg).handshake), TextSend(cfg).finish)
LongestAttempt(cfg) ==
    LET l == Listening(cfg)
    IN  Ack(cfg).routedMax + (IF l.holdsOn THEN 2 * l.holdMax ELSE Listen(cfg).max)
Warned(cfg) ==
    LongestAttempt(cfg) > 0 /\ Fragmentation(cfg).idle < MostAttempts(cfg) * LongestAttempt(cfg)
=============================================================================
