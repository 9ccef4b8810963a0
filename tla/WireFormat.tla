------------------------------ MODULE WireFormat ------------------------------
(***************************************************************************)
(* The wire formats of smci/_wire.py and the Z85 text of smci/_common.py:  *)
(* what is written into a frame and what is read out of it, as functions   *)
(* on sequences of bytes.  A decoder returns the set of what its input may *)
(* be: empty where the code raises ValueError, else one element.           *)
(*                                                                         *)
(* Left out are the one-letter marker before a text frame, which chooses   *)
(* the decoder, and the Z85 alphabet: a character is its place in it.      *)
(***************************************************************************)
EXTENDS Integers, Sequences, FiniteSets

Smaller(a, b) == IF a <= b THEN a ELSE b
Larger(a, b) == IF a >= b THEN a ELSE b
AsBit(b) == IF b THEN 1 ELSE 0
Onwards(raw, i) == SubSeq(raw, i, Len(raw))

-----------------------------------------------------------------------------
(* Numbers and sets of small numbers as bytes. *)

PktIdBytes(id) == <<id \div 256, id % 256>>
PktIdOf(raw, i) == raw[i] * 256 + raw[i + 1]

\* The byte with the bits of S, and the bits of a byte.
ByteOf(S) ==
      (IF 0 \in S THEN 1 ELSE 0) + (IF 1 \in S THEN 2 ELSE 0)
    + (IF 2 \in S THEN 4 ELSE 0) + (IF 3 \in S THEN 8 ELSE 0)
    + (IF 4 \in S THEN 16 ELSE 0) + (IF 5 \in S THEN 32 ELSE 0)
    + (IF 6 \in S THEN 64 ELSE 0) + (IF 7 \in S THEN 128 ELSE 0)

BitWeight == <<1, 2, 4, 8, 16, 32, 64, 128>>

BitsOf(b) == {k \in 0..7 : (b \div BitWeight[k + 1]) % 2 = 1}

\* The have-bitmap of a packet of total fragments, numbered from 0.
BitmapSize(total) == (total + 7) \div 8
Bitmap(total, held) ==
    [j \in 1..BitmapSize(total) |->
        ByteOf({k \in 0..7 : 8 * (j - 1) + k \in held \intersect (0..total - 1)})]
BitmapHeld(total, bytes) ==
    {i \in 0..total - 1 : i % 8 \in BitsOf(bytes[i \div 8 + 1])}

-----------------------------------------------------------------------------
(* Z85: four bytes are five characters, the count of padding bytes in front. *)

\* The digits of a group are taken from its last on.
Z85Digits(v) ==
    LET v1 == v \div 85
        v2 == v1 \div 85
        v3 == v2 \div 85
        v4 == v3 \div 85
    IN <<v4 % 85, v3 % 85, v2 % 85, v1 % 85, v % 85>>
Z85Value(d) == (((d[1] * 85 + d[2]) * 85 + d[3]) * 85 + d[4]) * 85 + d[5]

GroupValue(b) == ((b[1] * 256 + b[2]) * 256 + b[3]) * 256 + b[4]
GroupBytes(v) ==
    LET v1 == v \div 256
        v2 == v1 \div 256
        v3 == v2 \div 256
    IN <<v3, v2 % 256, v1 % 256, v % 256>>

Z85Pad(n) == (4 - (n % 4)) % 4

Z85Encode(bytes) ==
    LET pad == Z85Pad(Len(bytes))
        padded == bytes \o [i \in 1..pad |-> 0]
        text[g \in 0..Len(padded) \div 4] ==
            IF g = 0 THEN <<pad>>
            ELSE text[g - 1] \o Z85Digits(GroupValue(SubSeq(padded, 4 * g - 3, 4 * g)))
    IN text[Len(padded) \div 4]

Z85Decode(text) ==
    LET body == Tail(text)
        value(g) == Z85Value(SubSeq(body, 5 * g - 4, 5 * g))
        out[g \in 0..Len(body) \div 5] ==
            IF g = 0 THEN <<>> ELSE out[g - 1] \o GroupBytes(value(g))
        bytes == out[Len(body) \div 5]
    IN IF text = <<>> \/ text[1] \notin 0..3 \/ Len(body) % 5 # 0 THEN {}
       ELSE IF \E i \in 1..Len(body) : body[i] \notin 0..84 THEN {}
       ELSE IF \E g \in 1..Len(body) \div 5 : value(g) \div 65536 > 65535 THEN {}
       ELSE {SubSeq(bytes, 1, Len(bytes) - text[1])}

\* Characters of a frame of n bytes: the marker, the pad count and the groups.
TextChars(n) == 2 + 5 * ((n + Z85Pad(n)) \div 4)

PayloadMargin == 4

\* _payload_budget: payload bytes that fit a text of budget characters.
PayloadBudget(budget, header) == Larger(0, ((budget - 2) \div 5) * 4 - header - PayloadMargin)

-----------------------------------------------------------------------------
(* RNS packets in text frames: the first byte is the version and two flags. *)

ProtocolVersion == 1
MultiFragment == 128
Coop == 64

EncodeChannelFastpath(payload, id, attempt) ==
    <<ProtocolVersion>> \o PktIdBytes(id) \o <<attempt>> \o payload
EncodeChannelMultifragment(payload, id, idx, total, attempt) ==
    <<ProtocolVersion + MultiFragment>> \o PktIdBytes(id) \o <<idx, total, attempt>> \o payload
EncodeDirectBare(payload) == <<ProtocolVersion>> \o payload

\* A header without an identifier or an attempt has -1 for them.
FrameRec(raw, multi, id, idx, total, attempt, payload) ==
    [multi |-> multi, coop |-> (raw[1] \div Coop) % 2 = 1, id |-> id,
     idx |-> idx, total |-> total, attempt |-> attempt, payload |-> payload]

DecodeFrame(raw, mode) ==
    IF Len(raw) < 1 \/ raw[1] % Coop # ProtocolVersion THEN {}
    ELSE IF raw[1] >= MultiFragment
    THEN IF Len(raw) < 6 \/ raw[5] < 1 \/ raw[4] >= raw[5] THEN {}
         ELSE {FrameRec(raw, TRUE, PktIdOf(raw, 2), raw[4], raw[5], raw[6], Onwards(raw, 7))}
    ELSE IF mode = "channel"
    THEN IF Len(raw) < 4 THEN {}
         ELSE {FrameRec(raw, FALSE, PktIdOf(raw, 2), 0, 1, raw[4], Onwards(raw, 5))}
    ELSE {FrameRec(raw, FALSE, -1, 0, 1, -1, Onwards(raw, 2))}

-----------------------------------------------------------------------------
(* Bind frames: who one is, and what one can do. *)

BindVersion == 1
BindPrefixBytes == 6
\* What a node declares: an RNS upstream of its own, and raw fragments.
BindCapability(upstream, raw) == AsBit(upstream) + 2 * AsBit(raw)

EncodeBindFrame(type, cap, attempt, prefix) ==
    <<BindVersion, type, cap, attempt % 256>> \o prefix

DecodeBindFrame(raw) ==
    IF Len(raw) # 4 + BindPrefixBytes \/ raw[1] # BindVersion \/ raw[2] \notin {0, 1} THEN {}
    ELSE {[type |-> raw[2], cap |-> raw[3], attempt |-> raw[4], prefix |-> Onwards(raw, 5)]}

-----------------------------------------------------------------------------
(* Completion frames: QUERY and ANSWER, of five versions.  An entry tells of *)
(* one packet; NoValue stands for Python's None.                             *)

Asking == 0
Telling == 1
MaxEntries == 8
PathUnknown == 255
RateScale == 250
NoValue == -1

\* What an entry's bytes are from version 4 on.
EntryBytes(e) ==
    LET total == Larger(1, Smaller(255, e.total))
    IN PktIdBytes(e.id) \o <<total, AsBit(e.complete)>> \o Bitmap(total, e.held)

\* _completion_entries_bytes, with what stands between the nonce and the entries.
EntriesBytes(entries, nonce, view) ==
    LET n == Smaller(Len(entries), MaxEntries)
        after[k \in 0..n] == IF k = 0 THEN <<n, nonce % 256>> \o view
                             ELSE after[k - 1] \o EntryBytes(entries[k])
    IN after[n]

EncodeCompletionV4(type, entries, nonce) == <<4, type>> \o EntriesBytes(entries, nonce, <<>>)

\* rate is in steps of 1/RateScale.
EncodeCompletionV5(type, entries, nonce, path, rate) ==
    LET view == <<IF path < 0 THEN PathUnknown ELSE Smaller(254, path),
                  IF rate = NoValue THEN PathUnknown ELSE Larger(0, Smaller(RateScale, rate))>>
    IN <<5, type>> \o EntriesBytes(entries, nonce, view)

\* _encode_completion_frame: of one packet, in any version.
EncodeCompletion(version, type, e, nonce, path, rate) ==
    IF version >= 5 THEN EncodeCompletionV5(type, <<e>>, nonce, path, rate)
    ELSE IF version >= 4 THEN EncodeCompletionV4(type, <<e>>, nonce)
    ELSE <<version, type, AsBit(e.complete)>> \o PktIdBytes(e.id) \o <<e.total % 256>>
         \o (IF version >= 3 THEN <<nonce % 256>> ELSE <<>>)
         \o (IF version >= 2 /\ type = Telling THEN Bitmap(e.total, e.held) ELSE <<>>)

\* A bitmap in a QUERY says nothing.
HeldIn(type, held) == IF type = Telling THEN held ELSE {}

\* The entries of raw, read one after another from position at on; at is 0 once
\* one of them was cut short.
ReadEntries(raw, at, n) ==
    LET read[k \in 0..n] ==
            IF k = 0 THEN [at |-> at, got |-> <<>>]
            ELSE LET r == read[k - 1]
                     total == raw[r.at + 2]
                     size == BitmapSize(total)
                 IN IF r.at = 0 \/ Len(raw) < r.at + 3 THEN [r EXCEPT !.at = 0]
                    ELSE IF total < 1 \/ Len(raw) < r.at + 3 + size THEN [r EXCEPT !.at = 0]
                    ELSE [at |-> r.at + 4 + size,
                          got |-> Append(r.got,
                            [id |-> PktIdOf(raw, r.at), total |-> total, complete |-> raw[r.at + 3] # 0,
                             held |-> HeldIn(raw[2],
                                BitmapHeld(total, SubSeq(raw, r.at + 4, r.at + 3 + size)))])]
    IN read[n]

DecodeCompletionV4(raw) ==
    LET header == IF raw[1] >= 5 THEN 6 ELSE 4
        all == ReadEntries(raw, header + 1, raw[3])
    IN IF Len(raw) < header \/ raw[3] \notin 1..MaxEntries THEN {}
       ELSE IF all.at # Len(raw) + 1 THEN {}
       ELSE {[version |-> raw[1], type |-> raw[2], nonce |-> raw[4], entries |-> all.got,
              path |-> IF raw[1] < 5 \/ raw[5] = PathUnknown THEN NoValue ELSE raw[5],
              rate |-> IF raw[1] < 5 \/ raw[6] = PathUnknown THEN NoValue ELSE Smaller(RateScale, raw[6])]}

DecodeCompletion(raw) ==
    LET body == IF raw[1] >= 3 THEN 7 ELSE 6
        bits == raw[1] >= 2 /\ raw[2] = Telling
    IN IF Len(raw) < 6 \/ raw[1] \notin 1..5 \/ raw[2] \notin {Asking, Telling} THEN {}
       ELSE IF raw[1] >= 4 THEN DecodeCompletionV4(raw)
       ELSE IF Len(raw) # body + (IF bits THEN BitmapSize(raw[6]) ELSE 0) THEN {}
       ELSE {[version |-> raw[1], type |-> raw[2], nonce |-> IF raw[1] >= 3 THEN raw[7] ELSE NoValue,
              entries |-> <<[id |-> PktIdOf(raw, 4), total |-> raw[6], complete |-> raw[3] # 0,
                             held |-> IF bits THEN BitmapHeld(raw[6], Onwards(raw, body + 1)) ELSE {}]>>,
              path |-> NoValue, rate |-> NoValue]}

-----------------------------------------------------------------------------
(* Raw fragments and their parity. *)

RawVersion == 2
RawHeaderSize == 9
RawReport == 4
RawParity == 8
RawRxLimit == 172
RawTxLimit == 174

\* A parity frame has its coverage mask in place of an index.
RawHeader(dst, src, id, idx, total, attempt, report, parity) ==
    <<RawVersion * 16 + (attempt % 4) + RawReport * AsBit(report) + RawParity * AsBit(parity)>>
    \o dst \o src \o PktIdBytes(id) \o <<idx % 256, total % 256>>

\* The mask byte of a parity frame over the fragments idxs: eight bits of it.
ParityMask(idxs) == ByteOf(idxs)
\* The fragments a mask names.
MaskNames(mask, total) == BitsOf(mask) \intersect (0..total - 1)

DecodeRaw(raw) ==
    LET parity == (raw[1] \div RawParity) % 2 = 1
        idx == raw[8]
        total == raw[9]
    IN IF Len(raw) < RawHeaderSize \/ raw[1] \div 16 # RawVersion THEN {}
       ELSE IF total < 1 \/ (~parity /\ idx >= total) THEN {}
       ELSE IF parity /\ (idx = 0 \/ ~(BitsOf(idx) \subseteq 0..total - 1) \/ Len(raw) < RawHeaderSize + 2)
       THEN {}
       ELSE {[dst |-> SubSeq(raw, 2, 3), src |-> SubSeq(raw, 4, 5), id |-> PktIdOf(raw, 6),
              idx |-> idx, total |-> total, attempt |-> raw[1] % 4, parity |-> parity,
              report |-> (raw[1] \div RawReport) % 2 = 1, payload |-> Onwards(raw, 10)]}

\* _direct_raw_payload_budget and _raw_parity_fits, for a path of that many bytes.
RawPayloadBudget(cap, path) ==
    Larger(0, Smaller(cap, Smaller(RawRxLimit, RawTxLimit - Larger(0, path))) - RawHeaderSize)
RawParityFits(budget, path) ==
    RawHeaderSize + 1 + budget <= Smaller(RawRxLimit, RawTxLimit - Larger(0, path))

-----------------------------------------------------------------------------
(* RNS packets: what the interface reads of their headers. *)

\* RNS's own numbers.
TypeData == 0
TypeAnnounce == 1
TypeLinkRequest == 2
TypeProof == 3
DestPlain == 2
DestLink == 3
CtxResourcePrf == 5
CtxResourceIcl == 6
CtxResourceRcl == 7
CtxPathResponse == 11
CtxKeepalive == 250
CtxLinkIdentify == 251
CtxLinkProof == 253
CtxLrRtt == 254
CtxLrProof == 255

\* _parse_rns_header, with hashes of size bytes (16); an absent field is <<>> or NoValue.
ParseRnsHeader(data, size) ==
    LET relayed == (data[1] \div 64) % 2 = 1
        at == IF relayed THEN 2 + size ELSE 2
    IN IF Len(data) < 2 THEN {}
       ELSE {[packet_type |-> data[1] % 4, destination_type |-> (data[1] \div 4) % 4, relayed |-> relayed,
              destination_hash |-> IF Len(data) >= at + size THEN SubSeq(data, at + 1, at + size) ELSE <<>>,
              context |-> IF Len(data) > at + size THEN data[at + size + 1] ELSE NoValue]}

\* The destination a path request asks for: the first bytes of its data.
PathRequestTarget(data, relayed, size) ==
    LET at == (IF relayed THEN 2 + size ELSE 2) + size + 1
    IN IF Len(data) < at + size THEN <<>> ELSE SubSeq(data, at + 1, at + size)

LinkBand == CtxKeepalive..CtxLrProof

ProofIsLinkClass(h) == h.context = CtxResourcePrf \/ h.context \in LinkBand
PlainProof(h) == h.packet_type = TypeProof /\ ~ProofIsLinkClass(h)

Handshake == 0
Answering == 1
Normal == 2
Low == 3

PriorityTier(h) ==
    IF PlainProof(h) THEN Answering
    ELSE IF \/ h.packet_type \in {TypeLinkRequest, TypeProof}
            \/ h.context \in {CtxResourcePrf, CtxResourceIcl, CtxResourceRcl}
            \/ h.context \in LinkBand
    THEN Handshake
    ELSE IF h.context = CtxPathResponse THEN Low
    ELSE Normal

IsLinkHandshake(h) ==
    \/ h.packet_type = TypeLinkRequest
    \/ h.context \in {CtxLrProof, CtxLrRtt, CtxLinkIdentify, CtxLinkProof}

\* The retry budget a packet's flood has: by the name of its setting.
RetryClass(h) ==
    IF h.packet_type = TypeAnnounce THEN "announce"
    ELSE IF h.packet_type = TypeData /\ h.destination_type = DestPlain THEN "path_req"
    ELSE IF h.destination_type = DestLink THEN "link"
    ELSE "bare"
=============================================================================
