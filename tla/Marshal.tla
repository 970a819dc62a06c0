------------------------------ MODULE Marshal ------------------------------
(***************************************************************************)
(* The binary protocol (lib/shared/marshal.c, binary.c): how a sample is   *)
(* built, field by field, in the writer's buffer, and how the reader finds *)
(* and decodes it in its own.                                              *)
(*                                                                         *)
(* Values are those of TextCodec.  A double travels as its mantissa, 30    *)
(* bits of it, and an exponent of one byte.                                *)
(***************************************************************************)
EXTENDS MBuffer, TLC

CONSTANTS
  StringMax,   \* STRING_T_MAX_SIZE: the longest string that is sent whole
  ShortMax,    \* UINT16_MAX: the longest message with a short header
  ReallocMoves \* whether a block that grows is moved

ASSUME MarshalAssumption ==
  /\ StringMax \in 0..255 /\ ShortMax \in Nat
  /\ ReallocMoves \in BOOLEAN

SyncByte == 170
DataP == 1   \* OMB_DATA_P
LDataP == 2  \* OMB_LDATA_P
PacketHeaderSize == 5

HeaderSize(type) == IF type = LDataP THEN PacketHeaderSize + 2 ELSE PacketHeaderSize

(* The types of protocol values, and of the elements of vectors.           *)
Tag == [long |-> 1, double |-> 2, string |-> 4, int32 |-> 5, uint32 |-> 6, int64 |-> 7,
        uint64 |-> 8, blob |-> 9, guid |-> 10, datetime |-> 16]
NaNTag == 3
FalseTag == 11
TrueTag == 12
VectorTag == 13
ElementTag == "[double]" :> 15 @@ "[int32]" :> 5 @@ "[uint32]" :> 6 @@ "[int64]" :> 7
              @@ "[uint64]" :> 8 @@ "[bool]" :> 14

Words == {"long", "int32", "uint32"}
DoubleWords == {"int64", "uint64", "guid"}
ElementSize(type) == CASE type \in {"[int32]", "[uint32]"} -> 4
                       [] type = "[bool]" -> 1
                       [] OTHER -> 8

----------------------------------------------------------------------------
(* htonl, ntohl and their like, for integers of 32 bits.                   *)

Bytes(n, width) ==
  [k \in 1..width |-> IF width - k > 3 THEN (IF n < 0 THEN 255 ELSE 0)
                                      ELSE (n \div 256^(width - k)) % 256]

Integer(bytes) ==
  LET n == Len(bytes)
      low == SubSeq(bytes, IF n > 4 THEN n - 3 ELSE 1, n)
      top == IF n >= 4 /\ low[1] > 127 THEN low[1] - 256 ELSE low[1]
  IN  FoldLeft(LAMBDA v, b : 256 * v + b, top, Tail(low))

----------------------------------------------------------------------------
(* Writing.                                                                *)

FitsByte(exponent) == exponent \in -128..127

DoubleBytes(v) ==
  IF v # <<>> /\ FitsByte(v[2])
    THEN <<Tag.double>> \o Bytes(v[1], 4) \o <<v[2] % 256>>
    ELSE <<NaNTag, 0, 0, 0, 0, 0>>

ElementBytes(type, e) ==
  IF type = "[bool]" THEN <<IF e = 1 THEN TrueTag ELSE FalseTag>> ELSE Bytes(e, ElementSize(type))

Truncated(s) == IF Len(s) > StringMax THEN SubSeq(s, 1, StringMax) ELSE s

(* marshal_value: the pieces a value is written in, one mbuf_write each.   *)
Pieces(value) ==
  LET v == value.v IN
  CASE value.type \in Words -> <<<<Tag[value.type]>> \o Bytes(v[1], 4)>>
    [] value.type \in DoubleWords -> <<<<Tag[value.type]>> \o Bytes(v[1], 8)>>
    [] value.type = "double" -> <<DoubleBytes(v)>>
    [] value.type \in {"string", "datetime"} ->
         <<<<Tag[value.type], Len(Truncated(v))>>, Truncated(v)>>
    [] value.type = "blob" -> <<<<Tag.blob>> \o Bytes(Len(v), 4), v>>
    [] value.type = "bool" -> <<<<IF v[1] = 1 THEN TrueTag ELSE FalseTag>>>>
    [] value.type \in DOMAIN ElementTag ->
         <<<<VectorTag, ElementTag[value.type]>> \o Bytes(Len(v), 2),
           FlattenSeq([k \in DOMAIN v |-> ElementBytes(value.type, v[k])])>>

(* A blob without data is a NULL pointer, which mbuf_write refuses.        *)
NullPiece(value, piece) == value.type = "blob" /\ piece = <<>>

(* marshal_value: a piece that cannot be written undoes the message.       *)
MarshalValue(buf, value) ==
  LET Piece(s, piece) == IF ~s.ok \/ NullPiece(value, piece) THEN [s EXCEPT !.ok = FALSE]
                         ELSE Write(s.buf, piece)
      Undone(s) == IF s.ok THEN s ELSE [s EXCEPT !.buf = ResetWrite(@)]
  IN  Once(Undone, Fold(Piece, [ok |-> TRUE, buf |-> buf], Pieces(value)))

(* A byte stored behind the buffer's back, at an offset in its message.    *)
Poke(buf, offset, bytes) == [buf EXCEPT !.base = Stored(@, buf.msg + offset, bytes)]
MessageByte(buf, offset) ==
  IF buf.msg + offset < Length(buf) THEN buf.base[buf.msg + offset + 1] ELSE 0

(* marshal_get_msgtype.                                                    *)
MsgType(buf) == MessageByte(buf, 2)

(* marshal_init.                                                           *)
MarshalInit(buf, type) ==
  Write(BeginWrite(buf), <<SyncByte, SyncByte, type>> \o Zeros(HeaderSize(type) - 3)).buf

(* marshal_measurements: the count, the stream, the sequence number, the   *)
(* time.  Its failures are not looked at.                                  *)
MarshalMeasurements(buf, stream, seqno, now) ==
  LET Number(b) == MarshalValue(b, [type |-> "int32", v |-> <<seqno>>]).buf
      Time(b) == MarshalValue(b, [type |-> "double", v |-> now]).buf
      Rest(start) == IF start.ok THEN Once(Time, Number(start.buf)) ELSE ResetWrite(buf)
  IN  Once(Rest, Write(buf, <<0, stream>>))

(* marshal_values, of one value: it is counted in the header.              *)
CountValue(buf) ==
  LET at == HeaderSize(MsgType(buf))
  IN  Poke(buf, at, <<(MessageByte(buf, at) + 1) % 256>>)

MarshalValues(buf, value) ==
  Once(LAMBDA done : IF done.ok /\ MsgType(done.buf) \in {DataP, LDataP}
                       THEN [done EXCEPT !.buf = CountValue(@)] ELSE done,
       MarshalValue(buf, value))

(* marshal_finalize, where a message is too long for its header: the rest  *)
(* is moved by two bytes.  It goes through a pointer to the message taken  *)
(* before the buffer grew; when that moved the memory, nothing reaches it. *)
Lengthened(buf) ==
  LET padded == Write(buf, <<0, 0>>).buf
      rest == BytesAt(buf, buf.msg + PacketHeaderSize, MessageLength(buf) - PacketHeaderSize)
  IN  Poke(Poke(padded, PacketHeaderSize + 2, rest), 2, <<LDataP>>)

SetLength(buf) ==
  LET length == MessageLength(buf) - HeaderSize(MsgType(buf))
  IN  CASE MsgType(buf) = DataP -> Poke(buf, 3, Bytes(length, 2))
        [] MsgType(buf) = LDataP -> Poke(buf, 3, Bytes(length, 4))
        [] OTHER -> buf

TooLong(buf) == MsgType(buf) = DataP /\ MessageLength(buf) > ShortMax

MarshalFinalize(buf) ==
  IF ~TooLong(buf) THEN SetLength(buf)
  ELSE IF ReallocMoves /\ Needed(buf, 2) > 0 /\ HasRoom(buf, 2) THEN Write(buf, <<0, 0>>).buf
  ELSE Once(SetLength, Lengthened(buf))

----------------------------------------------------------------------------
(* Reading.  An operation gives [res, buf], res one of "ok", "wait" and    *)
(* "error", and what it read.                                              *)

(* bin_find_sync: to the next two SYNC_BYTEs, if there are.                *)
SyncOffset(buf) ==
  LET hits == {k \in buf.rd + 1..buf.wr - 1 :
                 buf.base[k] = SyncByte /\ buf.base[k + 1] = SyncByte}
  IN  IF hits = {} THEN -1 ELSE Min(hits) - buf.rd - 1

FindSync(buf) ==
  Once(LAMBDA n : [res |-> n, buf |-> IF n >= 0 THEN ConsumeMessage(Skip(buf, n)) ELSE buf],
       SyncOffset(buf))

NoValue == [type |-> "none", v |-> <<>>]

(* What was read after n bytes, or not.                                    *)
Took(buf, n, value) ==
  IF CanRead(buf, n) THEN [ok |-> TRUE, buf |-> Skip(buf, n), value |-> value]
                     ELSE [ok |-> FALSE, buf |-> buf, value |-> NoValue]

UnmarshalDouble(buf) ==
  LET b == Peek(buf, 5)
      exponent == IF b[5] > 127 THEN b[5] - 256 ELSE b[5]
  IN  [type |-> "double", v |-> <<Integer(SubSeq(b, 1, 4)), exponent, 0>>]

(* A length of `width` bytes, then that many bytes.                        *)
UnmarshalBytes(buf, width, type) ==
  IF ~CanRead(buf, width)
    THEN [ok |-> FALSE, buf |-> buf, value |-> NoValue]
    ELSE LET n == Integer(Peek(buf, width))
             rest == Skip(buf, width)
         IN  IF n < 0 THEN [ok |-> FALSE, buf |-> rest, value |-> NoValue]
             ELSE Took(rest, n, [type |-> type, v |-> Peek(rest, n)])

VectorType(tag) == CHOOSE t \in DOMAIN ElementTag : ElementTag[t] = tag

UnmarshalElements(buf, type, n) ==
  LET size == ElementSize(type)
      Element(k) == BytesAt(buf, buf.rd + (k - 1) * size, size)
      Value(e) == IF type # "[bool]" THEN Integer(e) ELSE IF e = <<TrueTag>> THEN 1 ELSE 0
  IN  Took(buf, n * size,
           IF CanRead(buf, n * size) THEN [type |-> type, v |-> [k \in 1..n |-> Value(Element(k))]]
                                     ELSE NoValue)

(* A vector of an unknown type counts as read, without its elements.       *)
UnmarshalVector(buf) ==
  IF ~CanRead(buf, 3)
    THEN [ok |-> FALSE, buf |-> Skip(buf, 1), value |-> NoValue]
    ELSE LET tag == Peek(buf, 1)[1]
             n == Integer(SubSeq(Peek(buf, 3), 2, 3))
         IN  IF \E t \in DOMAIN ElementTag : ElementTag[t] = tag
               THEN UnmarshalElements(Skip(buf, 3), VectorType(tag), n)
               ELSE Took(buf, 3, NoValue)

(* unmarshal_value.  A long comes out as an int32.                         *)
TypeOf(tag) == CHOOSE t \in DOMAIN Tag : Tag[t] = tag
ReadAs(type) == IF type = "long" THEN "int32" ELSE type

UnmarshalTagged(buf, tag) ==
  CASE tag \in {Tag[t] : t \in Words} ->
         Took(buf, 4, [type |-> ReadAs(TypeOf(tag)), v |-> <<Integer(Peek(buf, 4))>>])
    [] tag \in {Tag[t] : t \in DoubleWords} ->
         Took(buf, 8, [type |-> TypeOf(tag), v |-> <<Integer(Peek(buf, 8))>>])
    [] tag = Tag.double -> Took(buf, 5, UnmarshalDouble(buf))
    [] tag = NaNTag -> [ok |-> TRUE, buf |-> Skip(buf, 5),
                        value |-> [type |-> "double", v |-> <<>>]]
    [] tag \in {Tag.string, Tag.datetime} -> UnmarshalBytes(buf, 1, TypeOf(tag))
    [] tag = Tag.blob -> UnmarshalBytes(buf, 4, "blob")
    [] tag \in {FalseTag, TrueTag} ->
         Took(buf, 0, [type |-> "bool", v |-> <<IF tag = TrueTag THEN 1 ELSE 0>>])
    [] tag = VectorTag -> UnmarshalVector(buf)
    [] OTHER -> [ok |-> FALSE, buf |-> buf, value |-> NoValue]

UnmarshalValue(buf) ==
  IF ~CanRead(buf, 1)
    THEN [ok |-> FALSE, buf |-> buf, value |-> NoValue]
    ELSE UnmarshalTagged(Skip(buf, 1), Peek(buf, 1)[1])

(* unmarshal_typed_value.                                                  *)
UnmarshalTyped(buf, type) ==
  Once(LAMBDA got : [got EXCEPT !.ok = @ /\ got.value.type = type], UnmarshalValue(buf))

NoHeader == [length |-> 0, values |-> 0, stream |-> 0, seqno |-> 0, now |-> <<>>]
Stops(res, buf) == [res |-> res, buf |-> buf, header |-> NoHeader]

(* unmarshal_init, once the whole message is known to be there.            *)
UnmarshalStream(buf, length) ==
  LET start == Peek(buf, 2)
      Header(seqno, now) ==
        IF ~now.ok THEN Stops("error", now.buf)
        ELSE [res |-> "ok", buf |-> now.buf,
              header |-> [length |-> length, values |-> start[1], stream |-> start[2],
                          seqno |-> seqno.value.v[1], now |-> now.value.v]]
      Time(seqno) ==
        IF ~seqno.ok THEN Stops("error", seqno.buf)
        ELSE Once(LAMBDA now : Header(seqno, now), UnmarshalTyped(seqno.buf, "double"))
  IN  IF ~CanRead(buf, 2) THEN Stops("wait", ResetRead(buf))
      ELSE Once(Time, UnmarshalTyped(Skip(buf, 2), "int32"))

(* Mutant of UnmarshalLength: the header is read, complete or not.         *)
UnmarshalLengthAnyway(buf, type) ==
  LET width == HeaderSize(type) - 3
  IN  IF ~CanRead(buf, width) THEN Stops("wait", ResetRead(buf))
                              ELSE UnmarshalStream(Skip(buf, width), Integer(Peek(buf, width)))

UnmarshalLength(buf, type) ==
  LET width == HeaderSize(type) - 3
      length == Integer(Peek(buf, width))
      rest == Skip(buf, width)
  IN  IF ~CanRead(buf, width) THEN Stops("wait", ResetRead(buf))
      ELSE IF ReadRemaining(rest) < length THEN Stops("wait", ResetRead(rest))
      ELSE UnmarshalStream(rest, length)

(* unmarshal_init.                                                         *)
UnmarshalInit(mbuf) ==
  LET Start(buf, start) ==
        IF ~CanRead(buf, 3) THEN Stops("wait", buf)
        ELSE IF ~(start[1] = SyncByte /\ start[2] = SyncByte) \/ start[3] \notin {DataP, LDataP}
          THEN Stops("error", Skip(buf, 3))
        ELSE Once(LAMBDA rest : UnmarshalLength(rest, start[3]), Skip(buf, 3))
  IN  Once(LAMBDA buf : Start(buf, Peek(buf, 3)), BeginRead(mbuf))

(* unmarshal_values: all of them, into an array of `max`.  When they are   *)
(* more, as many bytes are skipped as the message has with its header, of  *)
(* which a part has been read already.                                     *)
UnmarshalValues(buf, header, max) ==
  LET Taken(s, got) == [ok |-> got.ok, buf |-> got.buf, row |-> Append(s.row, got.value)]
      Next(s, k) == IF s.ok THEN Once(LAMBDA got : Taken(s, got), UnmarshalValue(s.buf)) ELSE s
      skipped == BeginRead(Skip(buf, header.length + PacketHeaderSize))
  IN  IF header.values > max
        THEN [ok |-> FALSE, buf |-> skipped, row |-> <<>>]
        ELSE Fold(Next, [ok |-> header.values > 0, buf |-> buf, row |-> <<>>],
                  [k \in 1..header.values |-> k])
=============================================================================
