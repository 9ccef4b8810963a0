# Verification of the Smart MeshCore Interface

TLA+ models, TLC runs and TLAPS proofs for the Smart MeshCore Interface, an
interface of the Reticulum Network Stack (RNS) that carries RNS packets over
MeshCore LoRa radios. The program is the Python package
`Interface/src/smci/`; `Interface/SmartMeshCoreInterface.py` is the same code
glued into one file by `Interface/build_interface.py`, so the models refer to
the package only.

1. [The system](#1-the-system): its parts, and what is hard about them
2. [The modules](#2-the-modules): what models what, state by state
3. [The runs](#3-the-runs): what each shows, its bounds
4. [Fairness](#4-fairness)
5. [Proofs](#5-proofs)
6. [Where the code departs from what is said of it](#6-where-the-code-departs-from-what-is-said-of-it)
7. [Not modelled](#7-not-modelled)
8. [Plan](#8-plan)

## 1. The system

RNS calls `process_outgoing` on its own threads. Everything else runs on one
asyncio loop in a thread of its own: the outgoing worker, the tasks that send a
packet, the handlers of radio events, the supervisor of the connection and the
housekeeping loops. A task runs alone from one `await` to the next, so the
races are between tasks at their awaits, between RNS's threads and the loop,
and between the two ends of a lossy radio.

| component | state it keeps | operations | hard about it |
|---|---|---|---|
| radio lock (`_locks.py`, `_PriorityAsyncLock`) | `_locked`, deques of futures per tier, registries of pre-empting and reporting waiters, three events | `acquire`, `release`, `yield_to_preempt`, `preempt_event`, `report_event` | cancellation at any await, also between a grant and the moment the granted task runs; a holder that lends the radio and queues behind the borrower |
| fragmented-send semaphore (`_PriorityAsyncSemaphore`) | a count, futures per tier | `acquire`, `release` | the same hand-over, counted |
| duty-cycle limiter (`_DutyCycleLimiter`) | frames of the trailing window, in two ledgers (relayed, total) | `limiting_ledger`, `wait_for_budget`, `record`, the pruning of old samples | two budgets over one window; time passes between the wait and `record` |
| outgoing queue (`_routing.py` 60–330) | `_outqueue`, `_outgoing_inflight`, suppression counts | `process_outgoing`, the worker, release when the send tasks end, the ten-minute sweep, `detach` | threads against the loop; a full queue; forced copies; who releases what |
| raw window transfer (`_reconcile.py`) | sender: windows, bitmaps, waiters for reports, resumable sends; receiver: reassembly buckets, parity, pending reports, proof graces, the memory of delivered packets | bursts, reports, QUERYs, early and provisional reports, proofs, resumption | every frame and report may be lost, repeated, late; a report is a statement about the past |
| text fragments (`_direct.py` `_send_direct_fragmented`) | the same bitmap, acknowledged frame by frame | send, reconcile, resume | shares the receiver with raw windows |
| DIRECT attempts (`_direct.py` 262–446, 948–1610) | events of answered sends, who answered and how, superseded link proofs | attempt loop, answer, supersede, sweep | an answer before, during or between attempts; what an answer proves about a path |
| connection supervisor (`interface.py` 1313–2000) | `online`, the radio object, `_disconnect_event`, tasks | connect, set up, lose, reopen, `detach` | a disconnection during set-up; teardown under load, and while a set-up runs |
| path discovery (`_paths.py` 397–607) | pending discoveries, resolved paths, back-off | coalesced discovery, invalidation, stale reset | a leader that fails or is cancelled with others waiting; a peer forgotten meanwhile |
| path selection (`_paths.py` 881–1378) | the board of candidates, trials, the device's contact | choose, switch, score | sends, discoveries and set commands of several tasks at once; an outcome that arrives after the path changed |
| peers and tokens (`_peers.py`) | peers, tokens, binds | bind, learn, expire, forget | a forgotten peer with work in flight |
| routing decisions (`_routing.py` 252–1545) | announce cache, back-off of unknown destinations, rate limits, closed links | DIRECT, flood, both, delay, refuse, answer locally | stale entries, limits; tasks that carry the copies and fall back on each other |
| wire formats (`_wire.py`, `_common.py`) | none | frames to bytes and back, headers, Z85 | five versions of one frame; fields of one byte; what a truncated frame is taken for |
| medium access (`_direct.py` 99–240, `_observability.py` 769–981) | when a fragment was last heard, until when the air is expected busy | the gate of every frame: quiet wait, budget, medium hold | what is heard while waiting, and after the wait that looks at it; a neighbourhood that never falls silent |
| configuration (`_config.py`) | none: options are read once | defaults, bounds, the check at start-up | options that agree one by one and not together; bounds applied at the reading, at the use, or nowhere |
| timing (`_config.py`, and the `_s` functions of the other files) | smoothed round trips | spacings, holds, waits, airtimes | rules between functions nobody calls together: a receiver's hold and the sender's spacing, a proof's delay and the wait it is to end |
| channel broadcast, observability | — | — | see [section 7](#7-not-modelled) |

How they interact: a packet goes from RNS through the outgoing queue to a
routing decision, which spawns send tasks. A send task takes a path (selection,
discovery if there is none), then either an exchange per frame (attempts under
the radio lock) or, for packets to the same peer, a shared raw window, whose
leader holds the radio lock through a burst and lends it to handshakes.
The receiving side reassembles, hands the packet to RNS, and reports. RNS's
answer may itself prove the packet, and a proof or an answer stops the sender's
retries. When the last send task of a packet ends, the outgoing queue lets its
bytes be sent again. `detach` cancels all of it.

What makes each part correct:

- radio lock: one owner; a released lock is never stranded; urgent requests
  first; a yield really serves the one it yielded to;
- outgoing queue: no packet is sent twice at once, none is refused on account of
  a copy that is gone;
- raw transfer: "sent" is said only of packets that arrived whole; nothing
  garbled reaches RNS; the sender skips only what the receiver held; the
  receiver never stays silent about a complete packet; each window ends;
- semaphore and limiter: slots neither leaked nor doubled; the window's airtime
  stays in budget; waiting ends;
- supervisor: one port and one set of loops; a lost connection is noticed, and
  none but a lost one is given up; the interface comes back; detach leaves
  nothing behind;
- routing: no packet disappears in silence; a packet sent DIRECT instead of
  flooded is not flooded as well;
- discovery, selection, peers: one discovery per peer; every waiter resumed;
  nothing remembered of a forgotten peer;
- configuration: whatever the file says, the counts the code loops over are those the
  models assume, and a silent start-up check means that the attempts fit;
- attempts: one exchange at a time; no attempt begun after an answer; "sent" and
  path evidence only when earned; every send ends.

The hazards, one by one and each at its line, with the properties that would
catch them, are the list `hazards` of `PROJECT.json`.

## 2. The modules

### PriorityLock, PriorityMutex, PriorityLockProofs

`PriorityLock` is `_PriorityAsyncLock` with the tasks that use it. An action is
the code a task runs from one await to the next:

| model | code |
|---|---|
| `locked`, `waiters`, `preempters`, `reporters`, `event` | `_locked`, `_waiters`, `_preempt_waiters`, `_report_waiters`, the three `asyncio.Event`s |
| `AcquireFree`, `AcquireWait` | `acquire` on a free and on a taken lock, with registration of the flags |
| `Resume`, `Cancel`, `ResumeCancelled` | the three ways out of `await fut`: granted; cancelled, as the canceller sees it; and the `CancelledError` as the task sees it later |
| `Release`, `WakeNext`, `Grant` | `release`, `_wake_next`: the first pending future of the most urgent tier, cancelled ones popped on the way |
| `Yield`, `ResumeTier` | `yield_to_preempt` and `preempt_resume_priority`, called by a raw window between frames |
| `AskEvent` | `preempt_event`, `report_event`: created on first use |

A future that is granted and a task that has resumed are two states (`granted`,
`holding`): between them the task may be cancelled (`doomed`), the case the
`except CancelledError` clause of `acquire` exists for. A cancelled future
(`dropped`) stays in its deque until its task runs. Tiers are doubled, because
the code uses halves for a holder that yielded. A window that is cancelled in
the middle of a yield runs, in `ResumeCancelled`, the `finally` clause of
`_run_raw_window_rounds` too, for that clause releases the lock.
`owed` is a history variable: the pre-emptors a window has yielded to.

`PriorityMutex` is the promise: one owner, and ownership goes to a most urgent
waiter. `PriorityLock` implements it: the owner is the one task granted,
doomed or holding; a task wants the radio while its future is pending.

### RawTransfer, RawDelivery, RawTransferProofs

One sender and one receiver, each a record (`tx`, `rx`) transformed by
operators that follow the functions of `_reconcile.py`; `TxInit` and `RxInit`
name the field of the code each field stands for.

| model | code |
|---|---|
| `OpenWindow`, `Numbered` | the leader's set-up of a window: new identifiers, or those of a resumable send |
| `Begin`, `Exhausted`, `BurstAllowed` | the head of a round: expired packets leave, bursts are skipped after unanswered reconciles, the last round ends the window |
| `SendFrame`, `AbortBurst`, `BurstEnds` | the burst, its aborts (the one after a report is in, `Reported`, included), its end on air (later than its last frame's hand-over) |
| `TakeEarly`, `TakeReport`, `ReportTimeout`, `ReportProved` | the wait for a report: early reports, provisional ones, time-out, proofs |
| `Query`, `TakeAnswer`, `QueryTimeout` | `_query_remote_fragments` |
| `Apply`, `Answered` | `_apply_window_entries` and what the round makes of it, the fallback to text included |
| `Remember`, `EndWindow` | `_remember_resumable`, the results of the callers' futures |
| `Hear`, `HearProof` | `_handle_incoming_completion_frame` with its nonce test; a PROOF from the far side |
| `Receive`, `Solve`, `Deliver` | a frame at the receiver: conflict, storage, parity, completion |
| `Report`, `FireGaps`, `FireTail`, `EndGrace` | the reports: at once, on gaps, after the tail of the burst, in place of a proof that did not come |
| `AnswerQuery`, `RetryReport`, `Evict`, `Forget` | answers; a report sent again under its nonce with what is held by then; buckets and the memory of delivered packets running out |
| `Restart` | the sender's process dies and starts again |

The radio is unreliable in every way at once: the sets `air`, `tx.queries`,
`rx.words` and `rx.proofs` only grow, and whatever is in them may arrive at any
later moment, any number of times, in any order, or never.

Fragments are `<<packet, index, cut>>`, with `cut` the size the packet was cut
at, and parity is the symmetric difference of sets of such fragments: what XOR
does to bytes. A rebuilt fragment is therefore wrong in the model exactly when
it would be in the code. A parity frame names what it sums by a mask of `MaskWidth` bits
(eight on the wire; `Summed`, `Covered`): in every passing run a packet has at most three
fragments, so the mask suffices, and `RawMask.cfg` shows what happens when it does not.

`RawDelivery` is the promise without rounds and frames: packets are submitted,
perhaps delivered, and get one verdict per submission, "true" only when
delivered.

Abstractions: times are left out (a time-out may fire whenever the code's
deadline could pass, so every order of time-out and arrival is explored); there
is one window at a time (in the code a second window to a peer may open once the first
is closed to new packets, `_reconcile.py` 666–680, and run beside it: windows
that overlap are not modelled); how packets join a window is a choice of the
set; the "recent" list of a report is every key
seen (the code lists the latest eight of the last minute; a run has two
packets); RNS's proof of a packet is an external step.

### OutgoingQueue, OutgoingQueueProofs (which has the gate's proofs too)

A copy of a packet is in one place: with the thread that registered it
(`caller`), in `queue`, with the worker (`current`) or with its send tasks
(`working`). Actions: `Offer` and `Put` are the halves of `process_outgoing`,
under the lock and after it; `Take`, `Finish`, `TaskEnds`, `WaitThenRelease`
the worker and `_release_inflight_when_done`; `Sweep` the ten-minute sweep;
`Detach`, `CancelTasks`, `Stop`, `StopSending` the shutdown. What the worker
does with a packet (routing and sending) is one step that leaves up to
`MaxTasks` send tasks; they are the tasks the code lists in `spawned`, so
`OneCopy` speaks of those (the later passes of a flood are not among them: see
`routing_passes` in section 6). The number of a copy is taken and the copy is queued in
one step: the counter (`_outqueue_seq`) only orders entries of one tier, so two
threads that take numbers and queue in the other order merely swap two packets.
`forced` is a history variable: packets let through because RNS insisted.

### DirectSend, DirectSendProofs

One task per bare DIRECT send (no fragmentation), from the attempt loop down to
the exchange of one frame. The radio lock is `PriorityMutex`, the promise
`PriorityLock` is checked against.

| model | code |
|---|---|
| `table`, `ev`, `raised`, `cut` | `_send_answered_events`; the `cancel_event` a loop holds; the events that are set; those set as superseded |
| `answeredBy`, `how` | `_send_answered_at` (who replied), `_send_answered_how` |
| `owner`, `want` | `_direct_exchange_lock` |
| `asked`, `lapsed`, `online`, `detached` | LINKREQUESTs received, deadlines passed, the interface's flags |
| `Delay`, `Start` | the wait of an LRPROOF before its dispatch; `_answered_send_event` and the first pass of `_send_direct_with_attempts` |
| `Try` | the head of the loop: flags, event, deadline, then the lock |
| `GetRadio`, `Transmit`, `TransmitFails` | `_send_direct_frame_and_wait_for_ack` up to its send command: granted, deadline looked at, quiet and airtime waited for; the command returns or raises |
| `HearAck`, `CutWait`, `AckTimeout` | `_wait_for_ack_event`: its three ends |
| `EndListen` | the listen after an attempt, the release, and what the loop makes of the outcome |
| `Reply`, `Ask`, `Signal` | a PROOF or LRPROOF heard; a LINKREQUEST heard (`_supersede_link_proofs`); `_signal_send_answered` |
| `Sweep` | `_send_answered_sweep`: the answer or the event of a key, by age |
| `Lapse`, `ChangeRadio`, `Detach`, `Cancel` | deadlines, the radio lost and found, teardown |

`verdict` says what the loop returned and whether it recorded that as evidence
about the path to the peer (`credited`, `blamed`). History variables, which no
guard of the code reads: `late` (frames after an answer), `told`, `replied`,
`swept`, `noted`; `aired` tells the world which sends could be replied to.

### PathSelection, PathSelectionProofs

How DIRECT sends get a path to one peer: the scoreboard, the discovery sends
share, and the set commands that put a path on the radio's contact. One peer is
enough, as every table is keyed by the peer and no rule reads two entries.

| model | code |
|---|---|
| `board` | `_PathBoard`: candidates, consecutive misses, what was heard since the last miss, the current path, `device_path` (`belief`) |
| `resolved`, `fails`, `backoff`, `pending` | `_resolved_paths`, `_path_discovery_failures`, `_path_discovery_backoff_until`, `_pending_path_discoveries` |
| `device`, `line` | the path the radio's contact holds; the `change_contact_path` commands in line for the command lock |
| `bound`, `contact`, `online` | the peer is in `_peers`; its contact is known; the radio is there |
| `Added`, `Discovered`, `Missed`, `Result`, `Choices` | `_add_path_candidate` with its eviction, the scoreboard's part of `discover_path`, `_note_path_attempt_result`, `_note_path_result`, `_choose_path` |
| `Select`, `Refilled` | `_select_path` up to its set command, or to the discovery its caller runs |
| `Discover`, `Complete`, `EndsFor` | `_discover_path_coalesced`: follow, lead or be refused; its end for the leader and all followers, with a path, nothing or an exception |
| `Refreshed`, `Answered`, `Unanswered`, `AttemptsLeft` | the awaits of `discover_path` |
| `SetDone`, `BeliefAfter` | `_persist_resolved_path` when its command is done or failed |
| `Transmit`, `Heard`, `Silent`, `Void`, `GiveUp` | an attempt as far as paths are concerned: over what, with what outcome |
| `Bind`, `Round`, `Looked`, `AskAgain` | `_register_peer` of a new peer and `_discover_path_after_bind` |
| `Learn`, `Forget`, `Radio`, `BackoffEnds` | floods and peer reports, the TTL sweep, the radio lost and found, time |

Left out: rates, scores and ages, in whose place every choice the code could
make is possible (`Choices`, `Droppable`, `Result`); path selection switched
off, and with it the older stale-path reset; detach; raw windows, whose
fragments carry their paths themselves; the contact refresh's turn with the
command lock, which sets nothing. `n` and `round` count quick attempts and
post-bind rounds. A power of the back-off factor that is too large for a
float is `fails = Overflow`. `tangled` is a history variable: the peer was
forgotten while a discovery was in flight, and is so until that discovery and
those begun beside it are over.

### PathScores

The pure half of path selection: which of the choices that `PathSelection` allows is
made. A candidate is a record, rates and scores are fractions.

| model | code |
|---|---|
| `DeliveryRate`, `Stale`, `Reads`, `Prior` | `_path_delivery_rate`, `_path_evidence`, `_path_prior` |
| `Score`, `Ahead`, `Dropped` | `_path_score`, the key of `_rank_paths`, the eviction of `_add_path_candidate` |
| `Eligible`, `Untried`, `RivalRate`, `StillBest`, `Choose` | `_choose_path` with its local functions; a set, as candidates may tie |
| `SwitchForGood`, `Switched`, `SendNoted`, `AttemptNoted`, `PeerReported` | what the records learn |

A sample's weight halves at the end of each half-life, where the code's falls all the
time. The assumptions of `MCPathSelection`, which `path_selection` evaluates, are the rules: rates move
the right way, the order is one, and, over sends simulated from 3600 starts with the
shipped tuning, a dead path is used at most four times in a row while another
delivers, and not again (`GoodPathWins`). `PathSelectionProofs` has that `Choose` is
within `Choices` for any records (`ChoiceAllowed`).

### ConnectionSupervisor, ConnectionSupervisorProofs

| model | code |
|---|---|
| `sup` | where `_connection_supervisor` is, its callees included: `start`, `opening`, the awaits of `_setup_connection`, `waiting` for the event, `_close_connection` (`losing`, `failing`), `pausing`, `ended` |
| `link`, `mc`, `port` | the local `mc`, `self._mc`, and for each `MeshCore` object whether its port is closed, opening, up, or dropped |
| `words` | connections whose DISCONNECTED is on its way to the callback |
| `event`, `online`, `detached`, `gate`, `attempt` | `_disconnect_event` (`none` before the first), the flags, `_startup_gate`, the local `attempt` |
| `tasks`, `starts` | the loops that live as long as the process, and how often they were started |
| `tear` | `detach` on its thread and `_async_teardown` on the loop, await by await |
| `Start`, `Head`, `OpenFails`, `Opened`, `Foot` | the loop's head, `_open_connection`, the first part of `_setup_connection`, the loop's foot |
| `SetupFails`, `HandshakeAnswered`, `SettingsDone`, `ContactsDone`, `SetupDone` | `_handshake`, `_apply_device_settings`, `_setup_connection`; it fails in the handshake, or with an exception after `online = True` (a cache, a subscription) |
| `Lost`, `BeginClose`, `Closes`, `CloseDone` | the event, and `_close_connection` with commands that may fail |
| `Drop`, `OnDisconnected`, `Wakes` | the library, and `_on_mc_disconnected` |
| `Detach`, `DetachOffline`, `CancelSupervisor`, `TeardownBegins`, `TeardownPolled`, `WorkerEnds`, `TeardownDrained`, `HungUp` | `detach` and `_async_teardown` |

`cut` is a history variable: connections whose opening or closing was cut off by
a cancellation or a failed command, of which nobody knows whether they are
open. `stray` is one too: the event was set for one of those. Lengths of waits
are left out, and with them the back-off between attempts; the `cut` bound
`MaxLeft` says how many connections may refuse to close.

### PrioritySemaphore, SlotPool, PrioritySemaphoreProofs

`PrioritySemaphore` is `_PriorityAsyncSemaphore` with the sends of one peer.
`holders` and `waiters` are the code's fields, `pc` says where each send is, with
the same distinctions as in `PriorityLock` (`granted` before the task runs,
`dropped` in line, `doomed` when both came at once).

| model | code |
|---|---|
| `Free`, `AcquireFree`, `AcquireWait`, `Resume` | `acquire` up to and after its await |
| `Cancel`, `LeaveLine`, `PassOn` | a time-out (`wait_for`) or a cancellation; then the two branches of the `except` clause |
| `Release`, `GiveUp`, `WakeNext`, `Grant`, `IsNext` | `release` and `_wake_next` |

A send whose time-out passes goes on without a slot: it is `idle` here.
`SlotPool` is the promise: at most `Capacity` users, waiting only while all slots
are taken, and a slot given up goes at once to a most urgent waiter. The users
are the sends `granted`, `doomed` or `holding`.

### DutyCycle (proofs in OutgoingQueueProofs)

| model | code |
|---|---|
| `samples`, `relayed` | `_samples`, `_relayed`; an entry is its age and its airtime |
| `pc`, `frame`, `due`, `spent` | where a sender is in `_pre_transmit_gate`: asleep in `_wait_for_incoming_quiet`, in `wait_for_budget` or in `_wait_for_medium_clear`; until when, and for how long so far |
| `quietFor`, `busyFor` | `_last_incoming_direct_at` and `_medium_busy_until`, seen from now |
| `Prune`, `Busy`, `Full`, `Limiting`, `Record`, `CheckOrWait` | the limiter's methods; one turn of the loop of `wait_for_budget` |
| `Enter`, `PassQuiet`, `QuietTurn` | a frame comes to the gate; one turn of the loop of `_wait_for_incoming_quiet`, with its patience |
| `Throttle`, `Charge`, `Wake`, `Preempted` | `_throttle_for_duty_cycle`, its exempt frames, and the interrupt of raw bursts |
| `HoldOn`, `Key`, `Cancelled` | the medium hold goes on; the command goes out; the task is cancelled |
| `HearFragment`, `Overhear` | a fragment of a message not yet whole (`_reconcile.py` 2543); `_extend_medium_busy`, with any hold `_predicted_hold_for_rx` may come to |
| `Tick` | the clock: all ages grow by one |

`air` is a history variable: the frames charged, numbered in that order, each until its
keying is `Window - MaxHold` back (or its task is cancelled in the hold, and it never
goes out). The sample counts from its charge, while the frame goes out after the medium hold, up to `MaxHold`
later; the budget therefore holds over `Window - MaxHold`, which is what
`AirBudget` says, and not over `Window`. It says nothing of frames that are
exempt and come last, which nobody delays, nor of a frame alone, which an empty
ledger always lets through (`limiting_ledger`, 440–451). `QuietWindow = 0` is
`incoming_quiet_defer_enabled` off, `MaxHold = 0` is `rx_log_holds_enabled` off.

### Routing, RoutingProofs

| model | code |
|---|---|
| `tasks` | the tasks that carry a copy of a packet: `queued` (with the worker), `later` (delayed proofs), `primary` (`_send_direct_packet`), `copy` (`_send_direct_supplement`), `watch` (`broadcast_if_none_sent`), `flood`, `again` (first and later passes) |
| `bound`, `known` | `_peers`; what `_resolve_routing_peer` makes of a destination |
| `attempts`, `backoff`, `remembered` | `_unknown_dest_attempts`, `_unknown_dest_backoff_until`, `_pending_dest_proofs` with `_pending_link_requests` |
| `recent`, `closed` | the rate limits' tables; `_closed_links` |
| `inflight`, `reached` | `_outgoing_inflight`; the results of the supplement tasks |
| `Offer`, `LinkClosed`, `ExpiredInQueue`, `Delay`, `DelayInVain`, `Repeated`, `AnsweredLocally` | `process_outgoing`, the worker, `_send_outgoing_packet` with the tasks it delays in |
| `DispatchFirst`, `DispatchKnown`, `DispatchUnknown`, `Refuse` | `_dispatch_outgoing_packet`, `_send_path_request` |
| `FindPath`, `NoPath`, `NoContact`, `CopyTooLate`, `SendDirect`, `NotSent`, `GiveUpDirect` | `_send_direct_supplement`, `_send_direct_packet`, and the ends of `_send_direct_payload` |
| `Watch`, `Flood`, `Again`, `Pass` | the fall-back of a small mesh, `_send_broadcast_packet`, `_delayed_retry_pass`, `_send_channel_pass` |
| `Released` | `_release_inflight_when_done` |
| `LearnDirect`, `ChannelProof`, `Clear`, `Answered` | what an incoming packet or proof teaches (`_observe_incoming_rns_packet`, `_note_channel_proof`) |
| `ProofOverdue`, `WindowOver`, `ClosedOver`, `BackoffOver`, `Age`, `Change` | sweeps, time, the radio, peers, LINKCLOSEs heard |

Which peers get a supplementary copy is any choice within the cap. What a DIRECT
send does on the radio is `DirectSend`, and what a CHANNEL pass puts on the air
is one step. `onAir`, `alone`, `excused` and `unproved` are history variables: what
was sent of a copy, whether it was sent DIRECT with no flood beside it, why it was
not sent, and how many bootstrap sends a destination has left unanswered.

### TextFragments (proofs in PrioritySemaphoreProofs)

The fragmented sends to one peer as text frames, and that peer's reassembly.

| model | code |
|---|---|
| `send` | the locals of `_send_direct_fragmented`: identifier, `acked`, `resumed`, the pass and what it has still to send; `word` is the answer to its QUERY on its way |
| `memory` | `_resumable_sends`, per packet |
| `blame` | the failures `record_direct_send_result` has counted and no success has cleared, by the send that caused them |
| `far` | `_reassembly`, `_dedup` and what was handed to RNS at the other end |
| `told` | keys of which an answer "complete" is under way: late ones are accepted by any QUERY of the key |
| `Begin` | `_send_direct_fragmented_payload` and `_resume_state` |
| `SendOne`, `NextFragment`, `Expire` | `_send_direct_with_attempts` of a fragment; expiry before the first |
| `EndPass`, `PassEnds`, `GoOn`, `Redrive`, `Succeed`, `Return` | the passes and their ends |
| `Ask`, `TakeAnswer`, `HeldNow`, `TakeLast`, `NoAnswer` | `_query_remote_fragments` between the passes and, as `_check_remote_completion`, at the end |
| `Remember` | `remember_for_resume` |
| `Receive`, `Answer`, `Evict`, `Forget` | `_add_channel_fragment`, `_bucket_state`, the receiver's sweeps |
| `Abort`, `CancelSend` | offline or detached, seen after each exchange, the last of a pass included (842, 914: False although everything may be acknowledged); the task cancelled at an await, of which there is none between the last exchange and the end of the pass |

An exchange is one step: `DirectSend` has its inside, and the far side reads a frame
before the next one is sent. Unlike reports of raw windows, which may come at any time,
an answer "holds these" is matched to its QUERY by the nonce, so it is of use to that
QUERY only. (An answer of version 2 has no nonce: an old one could be taken for new.
That is left out.) `basis`, `sure` and `epoch` are history variables: which bucket the
sender's belief is about, and whether that was the bucket it ended with.

### WireFormat

Functions on sequences of bytes. A decoder returns the set of what it reads: one record,
or nothing where the code raises `ValueError`.

| model | code |
|---|---|
| `EncodeChannelFastpath`, `EncodeChannelMultifragment`, `EncodeDirectBare`, `DecodeFrame` | the text frames of `_wire.py` 55–138 |
| `EncodeBindFrame`, `DecodeBindFrame` | bind frames |
| `EncodeCompletion`, `EncodeCompletionV4`, `EncodeCompletionV5`, `DecodeCompletion` | completion frames of versions 1 to 5, with the bitmaps of what is held |
| `RawHeader`, `ParityMask`, `MaskNames`, `DecodeRaw` | raw fragments and parity |
| `Z85Encode`, `Z85Decode`, `TextChars`, `PayloadBudget`, `RawPayloadBudget` | Z85 by digit values; lengths and what fits |
| `ParseRnsHeader`, `PriorityTier`, `IsLinkHandshake`, `PlainProof`, `RetryClass` | the headers of RNS packets and the classes made of them |

The assumptions of `MCRawTransfer`, which `raw_single` and `raw_pair` evaluate, are what
encoders and decoders owe each other: each frame reads back as what was written (or as what its version can
say), no part of a frame is taken for a frame, and eight entries fit a text up to eighty
fragments each. Identifiers, totals and payloads are few and at the edges of their
fields; what is a matter of arithmetic is proved for all (section 5).

### Timing

Functions in milliseconds, of hop counts, airtimes, measurements and the configuration.

| model | code |
|---|---|
| `Airtime`, `TextFrameOnAir`, `RadioKeyed`, `PredictedHold` | `_observability.py` 769–869 |
| `Gap`, `NextSendWait`, `NoAckHold`, `AnswerHold` | the sender's spacing and what it keeps the lock for |
| `Sampled`, `AdaptiveTimeout`, `BackedOff` | smoothed round trips and the timeouts made of them |
| `QueryTimeout`, `QuietWindow`, `UnackedGrace`, `ReportWait` | how long a sender waits for an answer or a report |
| `ReportHold`, `ReceiverHops`, `ProofTailHold`, `PartSpacing` | how long a receiver holds back a report or a proof |
| `AckTimeout`, `Hop1Deadline`, `PreemptFloor`, `PostAttemptListen`, `AttemptBudget`, `Warns` | one attempt of a DIRECT send, and the check at start-up |

The assumptions of `MCDirectSend`, which `direct_send` evaluates, are the rules between them, over hop
counts to eight, airtimes to 1.25 s and the shipped configuration; those with Limit in
their names show where a rule ends (section 6). `ArrivalGap` is what repeaters that
forward at once make of the sender's spacing.

### Configuration

What a configuration file makes of the interface, as functions of the options given: a key
that is missing has its default, a number its bounds, a switch every spelling of "no".

| model | code (`_config.py` unless named) |
|---|---|
| `Number`, `CfgBool`, `Switch` | `cfg.get(key, default)`, `_cfg_bool` |
| `Connection`, `Medium`, `Listening`, `Fragmentation`, `Passes`, `CompletionCheck`, `TextSend`, `Raw`, `Reports`, `ReportWaits`, `Windows`, `Fallback`, `Ack`, `Hop1Abort`, `Ages`, `Discovery`, `Selection`, `Resets`, `Healthy`, `Contacts`, `PeerSearch` | the `_configure_` methods: key, default and bound of each option that is a number or a switch |
| `Suppressions`, `SendAttempts`, `Spacing`, `LoopInterval`, `Sleeps`, `NextRerequest`, `NextRetry`, `AirBudget` | options that are bounded or combined only where they are used |
| `LongestAttempt`, `MostAttempts`, `Warned` | `_validate_direct_timing_budget` |

Times are in milliseconds, factors, fractions and decibels in thousandths. The assumptions
at the end of `MCDirectSend`, which `direct_send` evaluates, compare it with `Timing`
(`ShippedIsDefault`: the shipped values are those of an empty file) and try the switches,
the start-up check and the slowing repetition of peer requests; the theorems about all
configurations are in `DirectSendProofs`.

`MCPriorityLock`, `MCRawTransfer`, `MCOutgoingQueue`, `MCDirectSend`,
`MCPathSelection`, `MCConnectionSupervisor`, `MCPrioritySemaphore`, `MCDutyCycle`,
`MCRouting` and `MCTextFragments` hold the constants of the runs. Definitions marked `Mutant:` in
the modules are plausible mistakes in the definition that follows; each is put in
its place to see that the property named in `PROJECT.json` notices.

## 3. The runs

Passing runs:

| run | what it shows | bounds, and why they are enough |
|---|---|---|
| `priority_lock` | With a handshake, a fresh proof, a report, an exchange and a yielding window: exclusion, no lost wake-up, registries and events that tell the truth, yields that serve, handshakes served, implementation of `PriorityMutex` (and with it the order of tiers). | Five tasks, one of each kind and tier the code uses; each may ask again and again. Two at one tier never meet here except a window behind a report; the proofs cover any number of tasks. Windows are not cancelled (see the first item of "Seen while reading" in section 6). |
| `raw_single` | One packet of two fragments with parity, two rounds, one fault of any kind at any moment: believed or remembered means once held, confirmed means delivered, delivered means whole. | Two fragments are the fewest with parity; two rounds the fewest in which a re-sent fragment meets parity of the first round. After the one window nothing is sent, so `Restart` shows only that the receiver goes on. |
| `raw_pair` | Two packets, one provable, in a window that may be aborted: no completion is silent, verdicts are as `RawDelivery` has them, and the window ends. | One round: the receiver's reports do not depend on the sender's rounds beyond their number. |
| `outgoing_queue` | Two threads, two packets, a queue of two, suppression limit two, one packet slow enough for the sweep, detach at any moment: one copy at a time, no stuck entry, bytes freed. | Four calls: an original, a suppressed and a forced copy, and another packet. |
| `direct_send` | A LINKREQUEST, an LRPROOF and a plain PROOF to one peer over two attempts (one for the PROOF): one exchange at a time, at most one frame after an answer, expired packets stay unsent, verdicts and evidence are earned, every send returns. | Three sends make two in line behind one on the radio; two attempts the fewest with a retry. One peer, and anonymous replies, which are as foreign to it as another peer's. A key is swept at most once and only while a send waits in line; the radio comes and goes, replies and requests come only while sends are under way; a deadline passes only where it is looked at. Two sends never share a key here (they do in the proofs). |
| `path_selection` | Two sends and the peer's binder, with everything that can fail failing at any moment: one discovery at a time, each follower hears its end, no query within the back-off, a scoreboard within its bounds that keeps its current path, and a belief about the radio's contact that is true. | Three tasks are a leader, a follower and one that sends meanwhile. Three paths are one more than `Kept`, so that there is an eviction. `Switch` and `Exhaust` are one, so that paths die soon (`PathBlame.cfg` has them differ); two quick attempts; one post-bind round. `Overflow` is one where the code's is about 1200 (`1.8 ** 1207`): the step is the same. Paths, and the two sends, are interchangeable, so the run uses their symmetry. |
| `connection_supervisor` | The radio opens or not, answers or not, drops at any await; `auto_reconnect` on and off, serial and not, two attempts or endless; detach at any await: each loss noticed, none imagined, one port and one set of loops, a clean detach, coming back, and an end of detach. | Three connections: the one in use, one that could not be closed, the next. Two attempts are the fewest that count. Nothing bounds the number of losses. |
| `priority_semaphore` | Slots neither leaked, doubled nor idle beside a waiter; `SlotPool` implemented. | Two slots, five sends of two tiers: two that hold, and three in line with two at one tier. |
| `duty_cycle` | Ledgers pruned as they should be, both budgets kept on the air, every frame past the gate whatever is heard. | A window of four ticks, budgets of two and four, a hold of one; a quiet window of one, so that each tick may bring the fragment that starts it anew, and patience for two; frames of one to three ticks, relayed, zero-hop, raw and exempt; three frames of two senders: two fill a budget, and the third waits for one ledger or for the other. |
| `routing` | No packet disappears in silence; none is flooded after a DIRECT copy. | A Link's proof, a packet over that Link (they share its identifier, so that what one does to the back-off the other feels) and a path request offered twice, so that a rate limit meets it. Three peers, with a small mesh of up to two, so that one change of a peer crosses the bound. A cap and a threshold of one. One change of the radio, a peer or a Link, and one packet in flight at a time: two copies in flight share nothing but the tables, which last; the proofs have any number. |
| `text_fragments` | Two sends of the same bytes: success is said only of what arrived whole, and leaves no failure of its own counted. | Two fragments are the fewest of which one may be missing; two sends the fewest with something remembered, or with one beside another. Both classes, one raw window before at most, one fault of any kind at any moment. The sends are interchangeable, so the run uses their symmetry. |

Every module's `TypeOK` is proved (section 5), so no run spends its time on it.

Three more configurations pass and are to be run by hand: `RawResume.cfg` (a second window
for a packet, resumed or afresh, while frames and reports of the first are about;
`AckedWasHeld`, which is proved for any number of windows, and `WindowEnds`),
`RawPairEvict.cfg` (`raw_pair` with an eviction in place of the abort) and `RawExpiry.cfg`.

In every run identifiers do not wrap (`MaxWindows * N < IdMod`, as the theorems under
`Regular` assume): 65536 packets
within the receiver's memory of an identifier do not happen on such a radio. A
restart does, and `RawRestart.cfg` shows what it does to identifiers.
`Cuts` is one size in all passing runs, which is the case of an unchanged path
length; `RawRecut.cfg` has two. `RawExpiry.cfg` is a longer instance of `raw_pair`:
one fragment each, two rounds, one packet may expire between them.

The run that ends in a violation is in [section 6](#6-where-the-code-departs-from-what-is-said-of-it).

## 4. Fairness

- `PriorityLock`: weak fairness of resuming (granted or cancelled) and of
  releasing: the loop runs every ready task, and all that a holder awaits has a
  time-out. Nobody is obliged to ask, to yield or to cancel.
- `RawTransfer`: weak fairness of the sender's steps and of the end of a burst:
  each wait of the leader has a deadline. Nothing is assumed of the radio or of
  the receiver: `WindowEnds` holds when not one frame arrives.
- `OutgoingQueue`: weak fairness of the threads between their two halves, of the
  worker, and of the ends of send tasks, which have time-outs throughout.
  Nothing obliges RNS to repeat a packet, or the interface to be detached.
- `DirectSend`: weak fairness of "some send that has begun takes a step of its own
  or is cancelled": the loop runs its ready tasks, and every await of a send has
  a time-out. That no single send is favoured by it does not matter, for the
  sends are finitely many and so are the attempts of each. No reply, ACK or
  deadline is assumed, and a send need not begin.
- `ConnectionSupervisor`: weak fairness of the supervisor, the teardown and the
  callbacks: the loop runs ready tasks, each await has a time-out or waits for
  the event, and detach gives each step of its own five seconds. Strong fairness
  of `Opened` and `HandshakeAnswered`: asked again and again, the radio is there
  at last; without it no interface comes back. Nothing is assumed of the worker,
  so `DetachEnds` holds with a worker that hangs, nor of drops and detaches.
- `DutyCycle`: weak fairness of the clock and of a sender that is due; none of what is heard. `GateEnds`
  needs the bound on frames: behind an unending stream of small frames a large one may
  wait for ever, as there is no order among those that wait.
- `PrioritySemaphore`, `Routing` and `TextFragments` have safety properties only and no fairness.
- `PathSelection` has no liveness property and no fairness: that a follower
  hears of the end of a discovery is a safety property (it waits for a task that
  leads), given that every await of the leader has a time-out.

## 5. Proofs

Proved for every value of the constants that meets the modules' assumptions:

| module | theorem | says |
|---|---|---|
| `PriorityLockProofs` | `Invariance` | `Spec => []Inv` |
| | `TypeCorrect`, `MutualExclusionHolds`, `NoLostWakeupHolds`, `RequestsAreLiveHolds`, `YieldServesPreemptorHolds` | type correctness, the four safety properties of the run |
| | `ImplementsMutexHolds` | the refinement: `Spec => Mutex!Spec` |
| `RawTransferProofs` | `Invariance`, `AckedWasHeldHolds` | `Spec => []Inv`; what the sender leaves out was once held |
| | `TypeCorrect` | type correctness: no bucket is full or oversized, no window exceeds its rounds, strikes or QUERYs, every word and frame is well formed |
| | `AllTrueHolds` | `Spec => []AllTrue`, the second invariant (under `Regular`, see below) |
| | `NothingGarbledHolds`, `ConfirmedDeliveredHolds` | under `Regular`, what is put together is a packet that was sent, and what is confirmed was delivered |
| | `ImplementsDeliveryHolds` | under `Regular`, the refinement: `Spec => Delivery!Spec` |
| | `SilentOnlyIfOvertaken` | a completion goes unreported only if the proof of another provable packet took the place of its report |
| | `CompletionSignalledHolds` | no completion goes unreported, if at most one packet is provable |
| | `BitmapReads`, `MaskReads`, `Z85GroupReads`, `BudgetFits` | have-bitmaps, parity masks and Z85 groups read back; a payload in its budget fits |
| | `CoveredIsTheMask` | what the model of parity covers is what the byte on the wire names |
| | `ProofTailFitsReportWait`, `HoldOutlastsNext`, `QueueStaysShort` | proof delays fit report waits up to six hops; holds outlast the next fragment; one frame at most waits in the radio |
| `OutgoingQueueProofs` | `TypeCorrect`, `NoStuckEntryHolds`, `OneCopyHolds` | type correctness; every registered packet has a copy somewhere; a packet not forced has one only |
| | `AirBudgetHolds` | `DutyCycle`: the gate's types, and its invariant about both budgets |
| `DirectSendProofs` | `Invariance` | `Spec => []Inv` |
| | `TypeCorrect`, `OneExchangeHolds`, `OneLateFrameHolds`, `ExpiredNeverSentHolds` | type correctness, the three invariants of the run |
| | `EvidenceSoundHolds`, `TrueMeansHeardHolds` | its two action properties |
| | `EstimateStaysWithin`, `AttemptsFitPatience` | a smoothed round trip stays within its samples' bounds; no warning at start-up means the attempts fit |
| | `OptionsMeetAssumptions`, `SilentMeansFits` | any configuration gives the counts the models assume; a silent check, that the attempts of every send fit the receiver's patience |
| | `RetryDelaysGrow`, `NoLoopSpins` | the supervisor's delays are a second at least, and never shrink; no loop sleeps for less than a second |
| `PathSelectionProofs` | `Invariance` | `Spec => []Inv` |
| | `TypeCorrect`, `OneDiscoveryHolds`, `FollowersHaveLeaderHolds`, `BeliefTrueHolds`, `BoardSoundHolds` | type correctness, the four invariants of the run |
| | `BackoffRespectedHolds` | its action property |
| | `ChoiceAllowed`, `MissAlike` | `_choose_path`, with its rates and ages, makes a choice the model allows; a miss is the model's miss |
| `ConnectionSupervisorProofs` | `Invariance`, `TypeCorrect` | `Spec => []Inv`, type correctness |
| | `LossNoticedHolds`, `OneOfEachHolds`, `DetachCleanHolds` | the three invariants of the run |
| | `LossIsRealHolds` | its action property |
| `PrioritySemaphoreProofs` | `Invariance`, `SlotsAccountedHolds` | `Spec => []Inv`, the invariant of the run |
| | `ImplementsPoolHolds` | the refinement: `Spec => Pool!Spec` |
| | `NoFalseBlameHolds` | `TextFragments`: its invariant about failures counted |
| | `TrueIsWholeHolds` | `TextFragments`: its invariant about success, and that nothing garbled is put together, if the two cuts count differently (`Distinct`) |
| `RoutingProofs` | `Invariance`, `TypeCorrect` | `Spec => []Inv`, type correctness |
| | `NoSilentLossHolds`, `LastResortHolds` | the two invariants of the run |

The lock's theorems have one more assumption, `Cancellable \intersect Windows =
{}`: no window is cancelled while it waits in a yield. Without it mutual
exclusion is false: TLC with a cancellable window finds two owners in 8 states.

Mutual exclusion of the lock is not inductive: a grant is right only if the
entry granted is really pending and nobody else owns the radio. `Inv` adds
that (`QueueOK`) a pending task is in the deque of its tier, whoever is in a
deque is pending or cancelled there, and once only, and (`OwnerOK`) the lock is
taken exactly when there is one owner and nobody waits for a free lock. The
lemmas follow the code: what removing an entry leaves (`WithoutFacts`), what
`_wake_next` establishes (`WokeUp`), then one lemma per action. That requests are live
needs no more than that whoever is in a registry is inside `acquire`; that yields serve
needs `OwedOK`, which says of each pre-emptor a window still owes where it is and at
which tier, so that the window cannot be granted before it. The refinement maps the owner
to the one task granted, doomed or holding; a grant goes to a most urgent waiter
because `_wake_next` looks at every tier in order.

For `RawTransfer` the idea is the history `rx.ever`, the fragments ever held under a key,
which only grows: a report is true of it when sent (`WordOK`), and stays so however late it
is heard. `Inv` says that of every report on the air, held back or taken in by the sender,
and of what the sender believes and remembers. Nothing is assumed of losses, repetitions,
evictions, restarts or cuts.

That a completed packet is signalled needs the other direction: that nothing forgets
what is owed. `Signals` says that the frames of a key, and what is rebuilt of them, are
bytes sent under that key (`Sourced`), and that each completed key is owed nothing
(`Owed`): it is in a report that went out, the held report or the proof grace is there to
send it, or it is of a provable packet and some packet was proved. Every report names all
recent keys (`ReportSignals`), so one that goes out, held for whichever packet, speaks for
all; the only step that loses a report is a grace that ends in a proof, and then the proof
is of the packet itself or of another (`Overtaken`). The second case is the one that
`RawGrace.cfg` shows (section 6), so `SilentOnlyIfOvertaken` says that it is the only one,
and `CompletionSignalledHolds`, with one provable packet at most, has no exception left.

`NothingGarbled` and `ConfirmedDelivered` need more than "was held": that all that speaks
of an identifier speaks of one packet. `AllTrue` says that some history `own` (which packet
each identifier was given to) makes it so: every frame on the air is a cut of its owner or a
sum of such cuts under a mask that names them all; every bucket holds what it says of its
owner; "complete", in a report, an answer, the sender's mail or its belief, means that
the owner was delivered. Parity is the heart of it: `RebuiltRight` has that what is left of
a sum without the fragments held is the one that is missing, and `SolveGood`, by
induction on the passes of `Solve`, that a bucket stays good however many are solved. On
the sender's side a verdict is "true" only for what was delivered (`Earned`), and each step
keeps that (`Follows`). `Regular` is what the code's setting has to give: one cut,
packets of no more fragments than the mask has bits, no restart, and identifiers that do
not come round (`MaxWindows * N < IdMod`). The first three are needed, as `RawRecut.cfg`,
`RawMask.cfg` and `RawRestart.cfg` show; the last because a receiver that remembers an old
identifier takes a new packet under it for the old one.

The refinement of `RawDelivery` rests on the same invariant. A window's opening is
a submission, which needs that nothing is open between windows (`Awake`); whatever else
the sender does changes results from "open" to a verdict, and to "true" only what was
delivered (`Judged`), which is some order of verdicts one by one; the receiver gains at
most the packet an identifier in use was given to (`Gained`), so one that was submitted.

`TypeOK` goes function by function: each of the sender's keeps it well formed (`Formed`),
and `Timed` has the counters of a window, of which `unanswered` is the delicate one: it
stays in range because it never passes the round in hand. That no bucket holds a fragment
beyond its packet's size needs the solver again (`SolvePieces`), here for any frames of the
right shape, so with no assumption but those on the constants.

The theorems about `WireFormat` and `Timing` are arithmetic, a lemma at a time. A bitmap
or mask reads back because each byte is a sum of distinct powers of two, eight at most,
so no induction is needed; `CoveredIsTheMask` ties `RawTransfer` to the bytes. Times are
linear in the hop count except for products with airtimes, which are bounded hop count by
hop count (`ProofTailFitsReportWait`).

The queue's `NoStuckEntry` needs that copies have numbers of their own and are in
one place each, which its `TypeOK` says; the two together are inductive. `OneCopy`
needs that the bytes of an only copy are registered as long as it is anywhere
(`OnlyCopy`), so that a second is refused unless it is forced.

For `DirectSend`, `Inv` joins three parts that depend on each other. `LockOK`:
who is on the radio owns it, and only who waits in line wants it. `SignalOK`: an
event is set only of a key that was told, and of every key that was told unless
it was swept; an answer recorded is a reply somebody sent. `LoopOK`: an attempt
that ended as answered watches an event that is set, and a frame after the
answer belongs to the attempt in hand. The bound of one late frame follows
because the head of the loop looks at the event (`UnsetMeansTimely`), and the
properties about verdicts from what each end of the loop knows (`StepHeard`).
Nothing is assumed of the constants but what the code makes so: budgets are at
least one, an LRPROOF has the key of its link and goes to whom asked for it, no
other send has such a key. Several sends may share a key, as the supplementary
copies of a packet do.

For `PathSelection`, `Inv` joins `BoardOK` (the scoreboard is finite, within
`Kept`, and knows its current path: `AddedOK` has the arithmetic of an
eviction), `LineOK` (whoever has a set command in line is waiting for it, once),
`FutureOK` (the future in the table, and every future waited for, is of a task
that leads; unless the peer was forgotten, nobody else leads) and `BeliefTrue`.
`FutureOK` is inductive because the end of a discovery takes out every follower
of its leader (`CompleteOK`), and a new leader starts only when the table is
empty (`DiscoverOK`). `BackoffRespected` needs one more fact, `QuietOK`: while a
discovery is in flight there is no back-off, for only its own end sets one.
`ChoiceAllowed` maps records to a scoreboard (`BoardOf`): a path is dead, and below the
threshold, in one as in the other, and all the rest of the rule only picks among those.

For `ConnectionSupervisor`, `Inv` says of each stage of the supervisor what it
holds (`HandsOK`: a connection in hand from `opening` to the close, and `mc` is it or
nothing), which ports may be open (`PortsOK`: the one in hand, those that were cut
off, and at the end that of `mc`), that the words of closed connections have been heard
when the next is opened (`WordsOK`), that an event is set only for a loss or a stray
word (`EventOK`), that attempts keep to their limit and the worker is started once
(`CountsOK`), and what each step of the teardown has ended (`DetachOK`).
`LossNoticed` is part of it: it is kept because the callback sets
whatever event there is, and because a new event is made only when the connection is
fresh. The properties then follow without a further induction.

For `PrioritySemaphore` the invariant is the lock's, counted: whoever is in a deque is
pending or dropped there, once; `holders` is the number of sends with a slot; nobody
waits while a slot is free. The refinement needs no more: under the mapping, cancelling
a pending send is `Leave`, cancelling a granted one is nothing, and handing on is
`Pass`, which is right because `_wake_next` looks at every tier from the most urgent.

For `DutyCycle`, `AirBudget` speaks of what is on the air and the limiter looks at ledgers.
`Covered` ties the two: each frame that was charged and may still count has a sample of its
own in its ledgers, and that sample is no older than the frame has been held, or `MaxHold`
more than the time since it was keyed. So no sample is pruned while its frame matters, and
the sum of a ledger bounds the airtime of those frames. The sums are folds over sets; what a
sum does when a frame is added, keyed or forgotten are lemmas proved by induction on numbers.

For `TextFragments`, `AllText` again says that some history of the identifiers makes it
true. A belief is a claim about a bucket at the time it was learnt (`Claim`, with the
bucket's `epoch`): if the far side has not lost the bucket since, the fragments are in it or
the packet is delivered. ACKs and answers make claims, receptions keep them, evictions make
them old, and what is remembered for the next send is one. `Distinct`, that no packet is
cut in the same number of fragments both ways, is needed for `TrueIsWhole`, as
`TextCuts.cfg` shows, and not for `NoFalseBlame`.

`OptionsMeetAssumptions` is what the `ASSUME`s about constants rest on: whatever the
configuration, rounds, tries, strikes and limits come out in the ranges the models take
for granted.

For `Routing`, `NoSilentLoss` is not inductive: it says nothing of a copy whose tasks
are still at work. `CarriedOK` does: a copy in flight is settled (sent, or excused), or
some task of it will see to it, and `ReachedOK` that a copy whose supplement task said
"sent" is settled, which is what the fall-back relies on. `LastResort` needs `AloneOK`:
of a copy sent DIRECT alone, a flood is the only task and comes when nothing was sent.
`BackoffOK` ties the attempts counted to bootstrap sends left unanswered, so that no
packet is refused for any other reason ("wronged" is no reason `NoSilentLoss` accepts).

Induction over data has its limits here: a theorem with an operator as parameter cannot be
used, nor can anything in a module that reaches a `RECURSIVE` operator. So what recurses in a
module with proofs is a recursive function (`Solve`) or a fold (the sums of `DutyCycle`), and
inductions go over sets of numbers (`NatClosed`: a set that has 0 and with each number the
next has all of them).

Only model-checked: liveness (`HandshakeServed`, `WindowEnds`, `BytesFreed`,
`EverySendEnds`, `BackOnline`, `DetachEnds`, `GateEnds`), which the prover does not reach. What is evaluated for bounded inputs only are the assumptions of
the MC modules about `WireFormat`, `Timing`, `PathScores` and `Configuration`, but for
those that are theorems above.

## 6. Where the code departs from what is said of it

One is a run that TLC finds violated, and the entry of `findings` in `PROJECT.json`
with the lines on both sides:

- `routing_passes`: the later passes of a flood are not tracked, so the bytes are taken
  in again, and flooded again, while passes are still to come.
  `_send_broadcast_packet` says they are (`_routing.py` 1267–1273), but no caller
  but one gives it the list, and that one too late (1330, 225–240).

Eight more have a configuration of their own, to be run by hand:

- `tlc -config TextExpiry.cfg MCTextFragments` (`ExpiredNeverSent`): a packet found too old
  before its first fragment is logged and counted as dropped ("packet expired ... before
  attempt 0 could transmit", `_direct.py` 1067–1089, or 1130–1138 after the wait for the
  radio), but `send_one` only returns False, as for a lost ACK, and the loop of 833–844 looks
  at `detached` and `online` only: the other fragments go out, and the second pass sends
  the first, no deadline given (807). The raw path returns instead.
- `tlc -config TextCuts.cfg MCTextFragments` (`NothingGarbled`): what a raw window left behind
  is resumed as text when both cut the packet in the same number of fragments
  (`_reconcile.py` 94 compares the number only), and the receiver joins the two cuts; the
  same kind of mixture as in `RawRecut.cfg`.

- `tlc -config QuietStale.cfg MCDutyCycle` (`NeverIntoBurst`): a frame listens for the far
  side's burst first and waits for budget then, up to a whole window; a fragment heard
  meanwhile stops nobody (`_direct.py` 217–222), where 105–108 says of the quiet wait that
  it comes "immediately before" the keying, "so this interface never keys the radio into
  the middle of a peer's own DIRECT burst it just heard evidence of".
- `tlc -config RawRestart.cfg MCRawTransfer` (`ConfirmedDelivered`): identifiers start
  from zero in each process (`interface.py` 771), receivers remember the old ones; a
  new packet is confirmed that was never delivered, where `_reconcile.py` 1684–1688
  rests on a report of completeness that "cannot become untrue".
- `tlc -config RawRecut.cfg MCRawTransfer` (`NothingGarbled`): a send is resumed at
  another fragment size (`_reconcile.py` 94–121, `_wire.py` 366–374) and the
  receiver joins the two cuts, where 2694–2696 says "a repeated frag_idx must be
  byte-identical by construction".
- `tlc -config RawMask.cfg MCRawTransfer` (`NothingGarbled`): a packet of nine fragments or
  more (a low `direct_raw_payload_cap`, `_config.py` 498, makes them; only more than 255
  are refused, `_reconcile.py` 646) gets parity that sums all that is missing under a mask
  that names the first eight (`_wire.py` 398–412), and the receiver rebuilds a wrong
  fragment, where `interface.py` 388–390 says "at most 8 data fragments per part".
- `tlc -config RawGrace.cfg MCRawTransfer` (`CompletionSignalled`): a second packet's wait
  for a proof cancels the first packet's report (`_reconcile.py` 1819), where 1807–1814
  says "If the grace expires, the report goes exactly as before".
- `tlc -config PathBlame.cfg MCPathSelection` (`MissEarned`): a miss is counted against
  the path that is resolved when the attempt ends, not "the path it went over"
  (`_paths.py` 1116, 1177–1178; the same in 1431–1434).

What the checks with Limit in their names show (in `MCDirectSend` and `MCPathSelection`), and one more:

- the delay of a proof is not "comfortably inside the wait at every hop count"
  (`_reconcile.py` 1958–1960): the answer budget caps the wait at 18 s, and fragments of
  0.91 s outgrow it at ten hops (`ProofTailLimit`);
- both holds are scaled by the fragment that made the report due. When that is a short
  last one, the hold is over before the next full fragment, or the parity, has come in,
  where 1911–1923 say that two spacings keep "one lost fragment" from ending the silence
  and 1955–1961 that one spacing is "what the tail actually costs" (`ShortFragmentLimit`);
- the 60 s a report looks back are not "longer than a window burst plus its report wait at
  three hops" (`interface.py` 342–344) for six packets of two fragments with parity
  (`RecentSpanLimit`);
- after a miss under a measured timeout the next attempt need not run "on the firmware
  timeout" (`_direct.py` 1340–1344): up to five in a row may not count against the path
  (`MissesBecomeEvidence`);
- an untried path does not "always get its trial" (`_paths.py` 902–907): one heard weakly
  waits while the current path, its last two sends lost, outscores it (`TrialLimit`);
- the candidate that is dropped for a new one can be the only one not dead
  (`EvictionLimit`);
- `direct_send_attempts = 0` passes the start-up check in silence and no plain send makes an
  attempt, for the check takes the most patient kind of send for all (`_config.py`
  1478–1483; `SilentWithoutAttemptsLimit`);
- at SF 12 in 62.5 kHz the largest raw frame is 20.2 s long, more than the 18 s a window has
  for relayed frames: it goes out alone in its window (`FrameFitsBudget`).

Seen while reading, without a run of its own:

- two bind REQUESTs within the jitter of a RESPONSE both get one, for the time of the last is
  noted after the frame is sent and looked at before (`_peers.py` 380–395), where 373–376 call
  the minimum interval "real suppression";
- a resumed text send whose QUERY goes unanswered may return True on the fragments it
  remembers (`_direct.py` 851–920), where the comment of 849 says the answer "is the ground
  truth"; `TrueIsWhole` excepts buckets lost since;
- the ACKs of a resumed send's first pass are not counted for the path (`_direct.py` 847);
- a raw window that `detach` cancels while it waits inside `yield_to_preempt`
  runs its `finally` clause with `lock_held` still true (`_reconcile.py`
  1063–1064; only 917–921 clear it) and releases the lock of the task it yielded
  to; `ResumeCancelled` models it, `Cancellable` without windows leaves it out of
  the run, and with a window in it TLC finds two owners;
- an LRPROOF superseded while it waits for the radio is transmitted once more
  (`_direct.py` 1035 looks at the event, 1475–1534 do not), where the log of 427–431
  says "not (re)sent" and `docs/history.md:3793` "no further attempts";
- a path set by the radio whose answer is lost leaves `device_path` wrong until
  another path is set (`_paths.py` 620–637);
- after about 1200 failed rounds in a row (12 days at 900 s each) the power of
  `_paths.py` 409 raises `OverflowError`: each discovery then ends its senders with an
  exception, without the broadcast they fall back to;
- a discovery whose peer was forgotten and bound anew runs beside the new one; the
  first to end takes the other's future from the table (`_paths.py` 598), and a third
  may start (`OneDiscovery` excepts it);
- a burst that aborts (`_reconcile.py` 938–941, 960–962, 1011–1013, 1026–1028)
  returns past the lines that remove its waiters (1065–1066), where
  `tests/test_completion_report_one_hop_0920.py:318` expects none to be left;
- an early report is applied before the held fragments are counted
  (`_reconcile.py` 1047, 1087, 1133–1136), so a burst it speaks of may count among
  the bursts that placed nothing;
- a forced copy shares its original's entry, and the original's end frees the
  bytes while the copy is queued (`_routing.py` 96–101, 218);
- the event of a send that has waited longer than its time to live (120 s) is
  swept though the send still watches it, and an answer then does not stop its
  attempts (`_direct.py` 436–443); `OneLateFrame` and `TrueMeansHeard` except
  swept keys for that reason;
- an LRPROOF that was ACKed and then superseded during the listen counts as
  dropped (`_direct.py` 1111–1115); a LINKREQUEST that arrives late, older than
  the link whose LRPROOF is pending, supersedes it all the same (406–434);
- a discovery in flight writes the resolved path of a peer that was forgotten
  meanwhile (`_paths.py` 513 after `_peers.py` 453–497);
- `online = True` (`interface.py` 1575) overwrites the `online = False` of a
  disconnection during set-up, and that of `detach`; the supervisor wakes all the
  same (`LossNoticed`), and a detached interface may keep `online` true;
- a supervisor that `detach` cancels in `_open_connection` or `_close_connection`
  leaves the port as it is (`cut`; `DetachClean` excepts it), as does a close whose
  commands fail; the comment at `interface.py` 1901–1905 has detach close it;
- the DISCONNECTED of a connection that could not be closed takes down the next one
  (1717–1724 do not ask whose it is; `LossIsReal` excepts it, `stray`);
- a link that drops during the poll of the radio's statistics marks them as
  unsupported for the rest of the process (`_observability.py` 900–935);
- a frame counts in the duty cycle's window from its charge, before the medium hold and
  the command lock, so a window of the true length may carry more than the budget by what
  a hold shifts into it (`_direct.py` 220–240; `AirBudget` takes `MaxHold` off);
- a duty-cycle sender in line for air may wait behind any number of smaller frames that
  came later: `wait_for_budget` has no order (`_locks.py` 453–495);
- exempt frames are charged and never prune: with nothing but those the ledgers grow
  (`_direct.py` 78–87, `_locks.py` 497–503);
- a packet flooded without copies because its destination is in back-off is not
  remembered (`_routing.py` 1141–1147), so its CHANNEL proof does not lift the back-off,
  and a mesh that becomes small meanwhile refuses the next;
- rate limits, and `_note_path_request_on_air`, count a packet before it is sent; one
  that is then lost is not let through again within the window (`_routing.py` 637–720);
- `_fragment_spacing_range` is said to serve the DIRECT-fragmented sender (`_wire.py` 515–519,
  `_config.py` 246–248); its callers are the supplement's spacing and the fragments of a
  CHANNEL pass only (`_routing.py` 1491, 1592);
- `_send_direct_supplement` returns True when `_send_direct_payload` sent nothing (an
  expiry in the wait for the radio, a path reset), though its docstring says "True if
  the packet actually reached the radio"; the small-mesh flood is then left out
  (`_routing.py` 1392–1397, 1482; `NotSent`).

## 7. Not modelled

- Channel broadcast, beyond its passes (`Routing`): the fragments of a pass; their
  receiver is the reassembly of `RawTransfer` without reports.
- Medium access: how an overheard frame is classified (`_classify_rx_log_for_window`).
- Observability (captures, counters): no state others depend on.
- Configuration: names, ports, paths, the channel, the radio's parameters, and what becomes
  of a text that is no number.
- Wire formats: the hashes and Link identifiers of RNS.
- RNS itself, the `meshcore` library and the radio's firmware: outside the
  repository; modelled where the code meets them, as steps that may or may not
  happen.
- Of the DIRECT attempts: the pre-emptible waits of reports and answers.
- Of the peers: bind frames, token learning, telemetry grants, the cache file.
- Of routing: which peers get a supplementary copy, the content and the file of the
  announce cache, sizes of packets (a packet too large for DIRECT is `NoContact`).
- Of the supervisor: the discovery of serial ports, the device settings one by one,
  the lengths of waits.
- Of the text fragments: answers of version 2, without a nonce; which sends try a raw
  window first, and the cool-down of paths without raw support.

## 8. Plan

Done: the radio lock, the semaphore, the duty cycle, raw windows, text fragments, the
outgoing queue, routing, DIRECT attempts, path selection and discovery, the connection,
the wire formats, the times, the choice of a path, the configuration; proofs of every safety
property a run checks, and of every refinement.
Next, the most consequential first:

1. The announce cache and the choice of supplementary peers as operators.
2. Raw windows to one peer that overlap.

Runs stay few: where a new one asks the same question as one of section 3 on a richer
model, or shows more than the one of section 6, it takes its place.
