---------------------------- MODULE MCRawTransfer ----------------------------
(***************************************************************************)
(* RawTransfer on small instances, and what WireFormat's encoders and      *)
(* decoders owe each other on small inputs, evaluated once.                *)
(***************************************************************************)
EXTENDS RawTransfer, WireFormat
OneEach == [p \in Packets |-> 1]
TwoEach == [p \in Packets |-> 2]
OneTwo == [p \in Packets |-> IF p = 1 THEN 1 ELSE 2]
Nine == [p \in Packets |-> 9]
Three == [p \in Packets |-> 3]

-----------------------------------------------------------------------------
(* The frames. *)

SomeIds == {0, 1, 255, 256, 65535}
SomePayloads == {<<>>, <<7>>, <<0, 128, 255>>}
BytesUpTo(n, B) == UNION {[1..k -> B] : k \in 0..n}
Prefixes(s) == {SubSeq(s, 1, k) : k \in 0..Len(s) - 1}
SomeEntries ==
    {[id |-> i, total |-> t, complete |-> c, held |-> h] :
        i \in {0, 511, 65535}, t \in {1, 3, 8, 9, 17, 255}, c \in BOOLEAN,
        h \in {{}, {0}, {0, 2, 7, 8}, 0..254}}
TwoEntries == {e \in SomeEntries : e.id = 511 /\ e.total \in {3, 9}}

\* Every frame shape reads back as it was written, in the mode it is of; a fragment
\* reads alike in both; nothing cut into its header is taken.
ASSUME TextFramesRead ==
    \A id \in SomeIds, a \in {0, 255}, p \in SomePayloads :
        /\ DecodeFrame(EncodeChannelFastpath(p, id, a), "channel") =
            {[multi |-> FALSE, coop |-> FALSE, id |-> id, idx |-> 0, total |-> 1, attempt |-> a, payload |-> p]}
        /\ DecodeFrame(EncodeDirectBare(p), "direct") =
            {[multi |-> FALSE, coop |-> FALSE, id |-> -1, idx |-> 0, total |-> 1, attempt |-> -1, payload |-> p]}
        /\ \A mode \in {"channel", "direct"}, t \in {1, 2, 255} : \A i \in {0, t - 1} :
            LET raw == EncodeChannelMultifragment(p, id, i, t, a)
            IN /\ DecodeFrame(raw, mode) =
                    {[multi |-> TRUE, coop |-> FALSE, id |-> id, idx |-> i, total |-> t, attempt |-> a, payload |-> p]}
               /\ \A k \in 0..5 : DecodeFrame(SubSeq(raw, 1, k), mode) = {}
        /\ \A t \in {1, 2, 255} : DecodeFrame(EncodeChannelMultifragment(p, id, t, t, a), "channel") = {}

\* A bind frame reads back whole, its attempt modulo a byte; none of another length does.
ASSUME BindFramesRead ==
    \A type \in {0, 1}, up \in BOOLEAN, raw \in BOOLEAN, a \in {0, 3, 256} :
        LET prefix == <<1, 2, 3, 4, 5, 6>>
            body == EncodeBindFrame(type, BindCapability(up, raw), a, prefix)
        IN /\ DecodeBindFrame(body) =
                {[type |-> type, cap |-> BindCapability(up, raw), attempt |-> a % 256, prefix |-> prefix]}
           /\ \A s \in Prefixes(body) \union {Append(body, 0)} : DecodeBindFrame(s) = {}

\* What a completion frame of a version says of an entry.
Said(version, type, e) ==
    [e EXCEPT !.held = IF type = Telling /\ version >= 2 THEN @ \intersect (0..e.total - 1) ELSE {}]

\* A completion frame of any version reads back as what that version can say, and no
\* part of it, nor it with a byte more, is taken for a frame.
ASSUME CompletionFramesRead ==
    \A version \in 1..5, type \in {Asking, Telling}, e \in SomeEntries, path \in {NoValue, 0, 3, 300},
       rate \in {NoValue, 0, 250} :
        LET raw == EncodeCompletion(version, type, e, 241, path, rate)
        IN /\ DecodeCompletion(raw) =
                {[version |-> version, type |-> type, nonce |-> IF version >= 3 THEN 241 ELSE NoValue,
                  entries |-> <<Said(version, type, e)>>,
                  path |-> IF version < 5 THEN NoValue ELSE IF path = 300 THEN 254 ELSE path,
                  rate |-> IF version < 5 THEN NoValue ELSE rate]}
           /\ path = 0 /\ rate = 0 =>
                \A s \in Prefixes(raw) \union {Append(raw, 0)} : DecodeCompletion(s) = {}

\* So does one of several entries; it carries the first eight, whose text fits a
\* message up to eighty fragments each; none is taken that claims none or more.
ASSUME ManyEntriesRead ==
    /\ \A type \in {Asking, Telling}, e \in TwoEntries, f \in TwoEntries :
        LET raw == EncodeCompletionV5(type, <<e, f>>, 7, 2, 125)
        IN /\ DecodeCompletion(raw) =
                {[version |-> 5, type |-> type, nonce |-> 7, path |-> 2, rate |-> 125,
                  entries |-> <<Said(5, type, e), Said(5, type, f)>>]}
           /\ \A s \in Prefixes(raw) : DecodeCompletion(s) = {}
    /\ \A n \in 0..10 :
        LET entries == [k \in 1..n |-> [id |-> k, total |-> 8 * k, complete |-> FALSE, held |-> {k - 1}]]
            raw == EncodeCompletionV4(Telling, entries, 0)
            many == <<4, Telling, n, 0>> \o [k \in 1..5 * n |-> 1]
        IN /\ {m.entries : m \in DecodeCompletion(raw)} =
                IF n = 0 THEN {} ELSE {SubSeq(entries, 1, Smaller(n, MaxEntries))}
           /\ TextChars(Len(raw)) <= 160
           /\ DecodeCompletion(many) = {} <=> n \notin 1..MaxEntries
    /\ \A t \in 1..255 :
        LET raw == EncodeCompletionV5(Telling, [k \in 1..8 |-> [id |-> k, total |-> t, complete |-> FALSE, held |-> {}]],
                                      0, 0, 0)
        IN TextChars(Len(raw)) <= 160 <=> t <= 80

\* A raw fragment reads back whole, and nothing cut into its header is taken.
ASSUME RawFramesRead ==
    \A id \in SomeIds, a \in 0..3, rep \in BOOLEAN, p \in SomePayloads :
        /\ \A t \in {1, 9, 255} : \A i \in {0, t - 1} :
            LET raw == RawHeader(<<1, 2>>, <<3, 4>>, id, i, t, a, rep, FALSE) \o p
            IN /\ DecodeRaw(raw) = {[dst |-> <<1, 2>>, src |-> <<3, 4>>, id |-> id, idx |-> i, total |-> t,
                                     attempt |-> a, parity |-> FALSE, report |-> rep, payload |-> p]}
               /\ \A k \in 0..8 : DecodeRaw(SubSeq(raw, 1, k)) = {}
        \* Of a parity frame over fragments beyond the eighth only, nothing is taken.
        /\ \A over \in {{0, 1}, {0, 8}, {7, 8}, {8, 9}} :
            LET raw == RawHeader(<<1, 2>>, <<3, 4>>, id, ParityMask(over), 12, a, rep, TRUE) \o <<5, 6>>
            IN IF over \subseteq 8..11 THEN DecodeRaw(raw) = {}
               ELSE \A m \in DecodeRaw(raw) : m.parity /\ MaskNames(m.idx, 12) = over \intersect (0..7)

\* Whatever its length, a text decodes to the bytes it encodes (numbers of more than
\* 31 bits are beyond TLC; Z85GroupReads is proved for all).
ASSUME Z85Reads ==
    /\ \A s \in BytesUpTo(5, {0, 1, 127}) : Z85Decode(Z85Encode(s)) = {s}
    /\ \A s \in BytesUpTo(9, {90}) :
        Z85Decode(Z85Encode(s)) = {s} /\ TextChars(Len(s)) = 1 + Len(Z85Encode(s))
    /\ \A c \in BytesUpTo(3, {0, 3}) : Len(c) > 1 => Z85Decode(c) = {}
    /\ Z85Decode(<<4, 0, 0, 0, 0, 1>>) = {} /\ Z85Decode(<<0, 0, 0, 0, 85, 1>>) = {}

\* A packed RNS header, with a transport's hash before the destination's or without.
Packed(relayed, dest, type, hash, context, data) ==
    <<(IF relayed THEN 64 ELSE 0) + 4 * dest + type, 0>>
    \o (IF relayed THEN <<90, 91>> ELSE <<>>) \o hash \o <<context>> \o data

ASSUME RnsHeadersRead ==
    \A relayed \in BOOLEAN, dest \in 0..3, type \in 0..3, context \in {0, 11, 250, 255}, data \in SomePayloads :
        LET raw == Packed(relayed, dest, type, <<8, 9>>, context, data)
        IN /\ ParseRnsHeader(raw, 2) =
                {[packet_type |-> type, destination_type |-> dest, relayed |-> relayed,
                  destination_hash |-> <<8, 9>>, context |-> context]}
           /\ PathRequestTarget(raw, relayed, 2) = SubSeq(data, 1, IF Len(data) >= 2 THEN 2 ELSE 0)

\* The classes of a header, where PriorityTier and the others overlap.
ASSUME Classes ==
    \A h \in [packet_type : 0..3, destination_type : 0..3, context : {NoValue} \union (0..255)] :
        /\ IsLinkHandshake(h) => PriorityTier(h) = Handshake
        /\ PlainProof(h) <=> h.packet_type = TypeProof /\ PriorityTier(h) = Answering
        /\ PriorityTier(h) = Low => h.context = CtxPathResponse
=============================================================================
