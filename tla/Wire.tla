--------------------------------- MODULE Wire ---------------------------------
(***************************************************************************)
(* The wire format of chitchat: how a reply is cut to the size of a        *)
(* datagram, serialized, and read back.  process_message (lib.rs) works    *)
(* out how much room a delta has; DeltaSerializer (delta.rs) adds one      *)
(* operation after another as long as CompressedStreamWriter               *)
(* (serialize.rs) says that they fit; Delta::serialize writes the delta    *)
(* again when the message is sent; the receiver undoes all of it.          *)
(*                                                                         *)
(* Bytes.  Every length is the real number of bytes.  The bytes of a       *)
(* stream are the positions 0 .. end-1 of its operations laid end to end;  *)
(* a block is an interval of them and the length it is stored under.       *)
(* Operations are made of bytes that zstd compresses (text) or does not    *)
(* (noise).                                                                *)
(***************************************************************************)
EXTENDS Integers, Sequences, SequencesExt, FiniteSetsExt

CONSTANTS
    MaxPayloads,    \* values of max_datagram_payload_size
    DigestSizes,    \* how many nodes a digest may list
    Ids,            \* ChitchatIds: [node_id: length of the name, ip: "V4" or "V6"]
    KeyValueShapes, \* key-values: [key: length, value: length, noise: BOOLEAN]
    MaxOps          \* bound on the operations of one delta

ASSUME PayloadAssumption == \A max \in MaxPayloads : max \in Nat /\ max > 0
ASSUME ShapesAssumption ==
    /\ DigestSizes \subseteq Nat
    /\ Ids # {} /\ \A id \in Ids : id.node_id \in Nat
    /\ \A kv \in KeyValueShapes : kv.key \in Nat /\ kv.value \in Nat

BLOCK_THRESHOLD == 16384
BLOCK_META_LEN == 3
NO_MORE_BLOCKS_LEN == 1
MIN_MTU == 100
U16_MAX == 65535
\* Stands for what a usize wraps around to below zero.
Wrapped == 2000000000

VARIABLES
    stage,          \* how far the reply has come
    reply,          \* the kind of the reply, its payload limit, its digest, its mtu
    cursor,         \* where compute_partial_delta_respecting_mtu is in its loops
    writer,         \* the DeltaSerializer's CompressedStreamWriter
    builder,        \* the DeltaSerializer's DeltaBuilder
    datagram,       \* the serialized message
    decoded         \* the delta as the receiver has rebuilt it

wireVars == <<stage, reply, cursor, writer, builder, datagram, decoded>>

-----------------------------------------------------------------------------
(* Lengths of the codecs *)

U8 == 1
U16 == 2
U32 == 4
U64 == 8
StrLen(n) == U16 + n
IpAddrLen(ip) == U8 + (IF ip = "V4" THEN 4 ELSE 16)
SocketAddrLen(ip) == IpAddrLen(ip) + U16
ChitchatIdLen(id) == StrLen(id.node_id) + U64 + SocketAddrLen(id.ip)
DeletionStatusLen == U8
KeyValueMutationLen(kv) == StrLen(kv.key) + StrLen(kv.value) + U64 + DeletionStatusLen
NodeDigestLen == U64 + U64 + U64

\* What zstd makes of so many bytes of noise and of text.
ZstdLen(noise, text) == 10 + noise + text \div 4

\* A digest of n nodes; heartbeats and generations do not compress.
DigestLen(n) ==
    LET id == CHOOSE i \in Ids : TRUE
        noise == n * (U64 + U64)
    IN  U32 + ZstdLen(noise, U16 + n * (ChitchatIdLen(id) + NodeDigestLen) - noise)

\* Magic number, protocol version and message type.
MESSAGE_HEADER_LEN == 2 + U8 + U8

MessageLen(kind, digest_len, delta_len) ==
    MESSAGE_HEADER_LEN + (IF kind = "SynAck" THEN digest_len ELSE 0) + delta_len

-----------------------------------------------------------------------------
(* Delta operations *)

NodeOp(id) == [op |-> "Node", id |-> id, version |-> 0, noise |-> FALSE,
               len |-> U8 + ChitchatIdLen(id) + U64 + U64]
KeyValueOp(kv, version) == [op |-> "KeyValue", id |-> kv, version |-> version, noise |-> kv.noise,
                            len |-> U8 + KeyValueMutationLen(kv)]
SetMaxVersionOp(version) == [op |-> "SetMaxVersion", id |-> [none |-> TRUE], version |-> version,
                             noise |-> FALSE, len |-> U8 + U64]

NewBuilder == [done |-> <<>>, current |-> <<>>, valid |-> TRUE]

\* DeltaBuilder::flush: the node in progress, if any, is complete.
BuilderFlush(b) ==
    [b EXCEPT !.done = IF b.current = <<>> THEN @ ELSE Append(@, b.current), !.current = <<>>]

KeyValuesOf(ops) == SelectSeq(ops, LAMBDA o : o.op = "KeyValue")

\* DeltaBuilder::apply_op: a node comes once, and its key-values after it in
\* increasing order of their versions.
ApplyOp(b, op) ==
    LET flushed == BuilderFlush(b)
        values == KeyValuesOf(b.current)
    IN  CASE op.op = "Node" ->
                IF \E i \in DOMAIN flushed.done : flushed.done[i][1].id = op.id
                THEN [flushed EXCEPT !.valid = FALSE]
                ELSE [flushed EXCEPT !.current = <<op>>]
          [] op.op = "KeyValue" ->
                IF b.current = <<>> \/ (values # <<>> /\ Last(values).version >= op.version)
                THEN [b EXCEPT !.valid = FALSE]
                ELSE [b EXCEPT !.current = Append(@, op)]
          [] op.op = "SetMaxVersion" ->
                IF b.current = <<>> THEN [b EXCEPT !.valid = FALSE]
                                    ELSE [b EXCEPT !.current = Append(@, op)]

\* A delta is the sequence of its nodes, each the sequence of its operations.
BuilderFinish(b) == BuilderFlush(b).done

GetOperations(delta) == FlattenSeq(delta)

BuildAll(ops) == FoldLeft(ApplyOp, NewBuilder, ops)

DeltaOf(ops) ==
    LET b == BuildAll(ops)
    IN  IF b.valid THEN BuilderFinish(b) ELSE <<"invalid">>

-----------------------------------------------------------------------------
(* CompressedStreamWriter *)

WriterWithThreshold(threshold) == [ops |-> <<>>, end |-> 0, blocks |-> <<>>, threshold |-> threshold]

\* Where the buffered bytes (uncompressed_block) begin, and how many they are.
Flushed(w) == IF w.blocks = <<>> THEN 0 ELSE Last(w.blocks).to
Buffered(w) == w.end - Flushed(w)

PlusBlock(sum, b) == sum + BLOCK_META_LEN + b.len
OutputLen(w) == FoldLeft(PlusBlock, 0, w.blocks)

PlusOp(sum, o) == sum + o.len
OpsLen(ops) == FoldLeft(PlusOp, 0, ops)

\* How many of the bytes from..to-1 belong to operations that do not compress.
NoiseIn(ops, from, to) ==
    LET start[i \in 1..Len(ops)] == IF i = 1 THEN 0 ELSE start[i - 1] + ops[i - 1].len
        Overlap(i) == Min({to, start[i] + ops[i].len}) - Max({from, start[i]})
        noisy == {i \in DOMAIN ops : ops[i].noise /\ Overlap(i) > 0}
    IN  MapThenSumSet(Overlap, noisy)

\* Faulty variant: flushing empties the buffer instead of draining the block.
FlushClearing(w) ==
    LET from == Flushed(w)
        to == Min({w.end, from + w.threshold})
    IN  IF Buffered(w) = 0 THEN w
        ELSE [w EXCEPT !.blocks = Append(@, [from |-> from, to |-> w.end, len |-> to - from,
                                             type |-> "Uncompressed"])]

\* A block that does not fit in its own length once compressed is stored as it
\* is.
FlushBlock(w) ==
    LET from == Flushed(w)
        to == Min({w.end, from + w.threshold})
        noise == NoiseIn(w.ops, from, to)
        compressed == ZstdLen(noise, to - from - noise)
    IN  IF Buffered(w) = 0 THEN w
        ELSE [w EXCEPT !.blocks = Append(@,
                IF compressed \in 0..(to - from)
                THEN [from |-> from, to |-> to, len |-> compressed, type |-> "Compressed"]
                ELSE [from |-> from, to |-> to, len |-> to - from, type |-> "Uncompressed"])]

\* Faulty variant: the block that the new item may open is not accounted for.
UpperboundOfOneBlock(w, op) ==
    BLOCK_META_LEN + OutputLen(w) + Buffered(w) + op.len

SerializedLenUpperboundAfter(w, op) ==
    LET new_block_needed == Buffered(w) + op.len > w.threshold
    IN  BLOCK_META_LEN + OutputLen(w) + Buffered(w) + op.len + NO_MORE_BLOCKS_LEN
        + (IF new_block_needed THEN BLOCK_META_LEN ELSE 0)

FlushNext(w, i) == FlushBlock(w)
FlushBlocks(w, n) == FoldLeft(FlushNext, w, [i \in 1..n |-> i])

\* Blocks are flushed as long as there is more than one block's worth of bytes.
WriterAppend(w, op) ==
    LET appended == [w EXCEPT !.ops = Append(@, op), !.end = @ + op.len]
        full_blocks == (Buffered(appended) - 1) \div w.threshold
    IN  FlushBlocks(appended, full_blocks)

WriteAll(threshold, ops) == FoldLeft(WriterAppend, WriterWithThreshold(threshold), ops)

WriterFinish(w) == FlushBlock(w)

PayloadLen(finished) == OutputLen(finished) + NO_MORE_BLOCKS_LEN

\* Faulty variant: the delta is written in one block, whatever its length.
SerializeInOneBlock(delta) ==
    WriterFinish(WriteAll(U16_MAX, GetOperations(delta)))

\* Delta::serialize, with a writer of its own.
SerializeDelta(delta) == WriterFinish(WriteAll(BLOCK_THRESHOLD, GetOperations(delta)))

\* deserialize_stream: the blocks are unpacked one after the other into one
\* buffer, which the items are read from.
Contiguous(blocks) ==
    \A i \in DOMAIN blocks : blocks[i].from = IF i = 1 THEN 0 ELSE blocks[i - 1].to

BlockBytes(b) == IF b.type = "Compressed" THEN b.to - b.from ELSE b.len

PlusBytes(sum, b) == sum + BlockBytes(b)
BytesOf(blocks) == FoldLeft(PlusBytes, 0, blocks)

DeserializeStream(w) ==
    IF Contiguous(w.blocks) /\ BytesOf(w.blocks) = OpsLen(w.ops) THEN w.ops ELSE <<>>

-----------------------------------------------------------------------------
(* A reply, from process_message to the peer *)

NoReply == [kind |-> "none", max |-> 0, digest_len |-> 0, mtu |-> 0]
NoDatagram == [len |-> 0, stream |-> WriterWithThreshold(1)]

WireInit ==
    /\ stage = "idle"
    /\ reply = NoReply
    /\ cursor = "node"
    /\ writer = WriterWithThreshold(1)
    /\ builder = NewBuilder
    /\ datagram = NoDatagram
    /\ decoded = <<>>

\* Faulty variant: the digest of a SYN-ACK is not accounted for.
RoomIgnoringDigest(kind, max, digest_len) == max - 1

\* The room a message leaves for its delta; a release build wraps around where
\* a debug build panics.
DeltaRoom(kind, max, digest_len) ==
    IF kind = "SynAck" THEN max - 1 - digest_len ELSE max - 1

\* process_message computes the mtu; DeltaSerializer::with_mtu insists on 100
\* bytes.
StartReply(kind, max, nodes) ==
    LET digest_len == IF kind = "SynAck" THEN DigestLen(nodes) ELSE 0
        room == DeltaRoom(kind, max, digest_len)
    IN  /\ stage = "idle"
        /\ \E mtu \in IF room >= 0 THEN {room} ELSE {room, Wrapped} :
              /\ reply' = [kind |-> kind, max |-> max, digest_len |-> digest_len, mtu |-> mtu]
              /\ stage' = IF mtu >= MIN_MTU THEN "building" ELSE "panicked"
              /\ writer' = WriterWithThreshold(Min({BLOCK_THRESHOLD, Max({mtu, 1})}))
        /\ UNCHANGED <<cursor, builder, datagram, decoded>>

\* DeltaSerializer::try_add_op, and what its caller does with the answer.
TryAddOp(op, accepted, refused, stage_if_refused) ==
    LET fits == SerializedLenUpperboundAfter(writer, op) <= reply.mtu
        built == ApplyOp(builder, op)
    IN  /\ stage = "building"
        /\ \/ /\ fits /\ op.len <= U16_MAX /\ built.valid
              /\ writer' = WriterAppend(writer, op)
              /\ builder' = built
              /\ cursor' = accepted
              /\ UNCHANGED stage
           \/ /\ fits /\ (op.len > U16_MAX \/ ~built.valid)
              /\ stage' = "panicked"
              /\ UNCHANGED <<cursor, writer, builder>>
           \/ /\ ~fits
              /\ stage' = stage_if_refused
              /\ cursor' = refused
              /\ UNCHANGED <<writer, builder>>
        /\ UNCHANGED <<reply, datagram, decoded>>

\* compute_partial_delta_respecting_mtu: a node, then its key-values by version,
\* or a SetMaxVersion if it has none; the first refusal but that of a
\* SetMaxVersion ends the delta.
TryAddNode(id) ==
    /\ cursor \in {"node", "values"}
    /\ \A i \in DOMAIN writer.ops : writer.ops[i].op = "Node" => writer.ops[i].id # id
    /\ Len(writer.ops) < MaxOps
    /\ TryAddOp(NodeOp(id), "first", cursor, "complete")

TryAddKv(kv) ==
    /\ cursor \in {"first", "values"}
    /\ Len(writer.ops) < MaxOps
    /\ TryAddOp(KeyValueOp(kv, Len(writer.ops)), "values", cursor, "complete")

TrySetMaxVersion ==
    /\ cursor = "first"
    /\ TryAddOp(SetMaxVersionOp(Len(writer.ops)), "node", "node", "building")

NoMoreStaleNodes ==
    /\ stage = "building"
    /\ cursor \in {"node", "values"}
    /\ stage' = "complete"
    /\ UNCHANGED <<reply, cursor, writer, builder, datagram, decoded>>

BuiltDelta == BuilderFinish(builder)

\* DeltaSerializer::finish: what Delta::serialized_len answers from now on.
BuiltLen == PayloadLen(WriterFinish(writer))

\* Socket::send: the message is serialized; Delta::serialize asserts that the
\* delta has the length that was promised.
SerializeMessage ==
    LET stream == SerializeDelta(BuiltDelta)
    IN  /\ stage = "complete"
        /\ datagram' = [len |-> MessageLen(reply.kind, reply.digest_len, PayloadLen(stream)),
                        stream |-> stream]
        /\ stage' = IF PayloadLen(stream) = BuiltLen THEN "serialized" ELSE "length mismatch"
        /\ UNCHANGED <<reply, cursor, writer, builder, decoded>>

\* The transport refuses a message longer than its limit; the receiver
\* rebuilds the delta of any other.
SendMessage ==
    /\ stage = "serialized"
    /\ \/ /\ datagram.len > reply.max
          /\ stage' = "refused by transport"
          /\ UNCHANGED decoded
       \/ /\ datagram.len <= reply.max
          /\ stage' = "received"
          /\ decoded' = DeltaOf(DeserializeStream(datagram.stream))
    /\ UNCHANGED <<reply, cursor, writer, builder, datagram>>

WireNext ==
    \/ \E kind \in {"SynAck", "Ack"}, max \in MaxPayloads, n \in DigestSizes :
          StartReply(kind, max, n)
    \/ \E id \in Ids : TryAddNode(id)
    \/ \E kv \in KeyValueShapes : TryAddKv(kv)
    \/ TrySetMaxVersion
    \/ NoMoreStaleNodes
    \/ SerializeMessage
    \/ SendMessage

WireSpec == WireInit /\ [][WireNext]_wireVars

-----------------------------------------------------------------------------
(* Properties *)

\* The delta that is sent has the length the serializer promised, although the
\* two are written by different writers: with blocks of min(16384, mtu) bytes
\* in DeltaSerializer::with_mtu, of 16384 in Delta::serialize, which asserts
\* the equality and brings the gossip task down otherwise.
PromisedLength == stage # "length mismatch"

\* As long as no operation is longer than a block, a delta keeps to its mtu,
\* wherever the block boundaries fall and whatever zstd does to the blocks
\* (serialized_len_upperbound_after: "an upperbound of the serialized len").
DeltaWithinMtu ==
    (stage \in {"complete", "serialized"}
        /\ \A i \in DOMAIN writer.ops : writer.ops[i].len <= writer.threshold)
        => BuiltLen <= reply.mtu

\* What the receiver rebuilds is the delta that was built, key-value for
\* key-value, when operations straddle blocks, too.
DeltaRoundTrip == stage = "received" => decoded = BuiltDelta

\* As long as the digest alone is below the payload limit of the transport, a
\* message outgrows it by three bytes at most: process_message subtracts one
\* byte for a header of four.  (Those three bytes are enough for UDP to refuse
\* a message whose delta fills its mtu.)
OverrunBounded ==
    (stage = "serialized" /\ reply.digest_len < reply.max
        /\ \A i \in DOMAIN writer.ops : writer.ops[i].len <= writer.threshold)
        => datagram.len <= reply.max + 3
=============================================================================
