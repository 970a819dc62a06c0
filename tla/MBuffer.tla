------------------------------ MODULE MBuffer ------------------------------
(***************************************************************************)
(* The self-expanding buffer with message boundaries (lib/shared/mbuf.c)   *)
(* that the writers fill and the readers of both servers empty.            *)
(*                                                                         *)
(* A buffer is [base, rd, msg, wr, step]: its memory, the offsets of the   *)
(* next byte to read, of the current message and of the next byte to       *)
(* write, and min_resize.  length, fill, rd_remaining and wr_remaining,    *)
(* which the code keeps up to date next to the pointers, are functions of  *)
(* these.  An operation that can fail gives [ok, buf].                     *)
(***************************************************************************)
EXTENDS Eager

CONSTANT MaxLength \* the largest block the allocator grants

ASSUME MBufferAssumption == MaxLength \in Nat \ {0}

Zeros(n) == [k \in 1..n |-> 0]

(* mbuf_create2.                                                           *)
NewBuffer(length, minResize) ==
  [base |-> Zeros(length), rd |-> 0, msg |-> 0, wr |-> 0, step |-> minResize]

Length(buf) == Len(buf.base)
ReadRemaining(buf) == buf.wr - buf.rd
WriteRemaining(buf) == Length(buf) - buf.wr
MessageLength(buf) == buf.wr - buf.msg

(* The n bytes at an offset.                                               *)
BytesAt(buf, offset, n) == SubSeq(buf.base, offset + 1, offset + n)

(* Memory with bytes stored at an offset; what lies outside it is lost.    *)
Stored(base, offset, bytes) ==
  SubSeq(SubSeq(base, 1, offset) \o bytes \o SubSeq(base, offset + Len(bytes) + 1, Len(base)),
         1, Len(base))

(* mbuf_check_resize and mbuf_resize: room for n more bytes is made in     *)
(* steps of min_resize.                                                    *)
Needed(buf, n) ==
  IF WriteRemaining(buf) >= n
    THEN 0 ELSE buf.step * ((n - WriteRemaining(buf)) \div buf.step + 1)

HasRoom(buf, n) ==
  Needed(buf, n) = 0 \/ Length(buf) + Needed(buf, n) <= MaxLength

Resized(buf, n) == [buf EXCEPT !.base = @ \o Zeros(Needed(buf, n))]

Appended(buf, bytes) ==
  [buf EXCEPT !.base = Stored(@, buf.wr, bytes), !.wr = @ + Len(bytes)]

(* mbuf_write.                                                             *)
Write(buf, bytes) ==
  IF HasRoom(buf, Len(bytes))
    THEN [ok |-> TRUE, buf |-> Appended(Resized(buf, Len(bytes)), bytes)]
    ELSE [ok |-> FALSE, buf |-> buf]

(* mbuf_print: vsnprintf keeps the last byte of the room for its NUL, yet  *)
(* a text as long as the room counts as printed.                           *)
Clips(buf, text) == text # <<>> /\ Len(text) = WriteRemaining(buf)

PrintText(buf, text) ==
  Write(buf, IF Clips(buf, text) THEN Front(text) \o <<0>> ELSE text)

(* mbuf_read and mbuf_read_skip: all n bytes, or none.                     *)
CanRead(buf, n) == ReadRemaining(buf) >= n
Peek(buf, n) == BytesAt(buf, buf.rd, n)
Skip(buf, n) == IF CanRead(buf, n) THEN [buf EXCEPT !.rd = @ + n] ELSE buf

(* mbuf_find: the distance from the read offset to the first byte that is  *)
(* c, -1 if there is none.                                                 *)
Find(buf, c) ==
  LET hits == {k \in 0..ReadRemaining(buf) - 1 : buf.base[buf.rd + k + 1] = c}
  IN  IF hits = {} THEN -1 ELSE Min(hits)

(* mbuf_begin_read, mbuf_begin_write.                                      *)
BeginRead(buf) == [buf EXCEPT !.msg = buf.rd]
BeginWrite(buf) == [buf EXCEPT !.msg = buf.wr]

(* mbuf_reset_write, which does nothing in the middle of a read.           *)
ResetWrite(buf) == IF buf.rd > buf.msg THEN buf ELSE [buf EXCEPT !.wr = buf.msg]

(* Mutant of ResetRead: what was read of an incomplete message is gone.    *)
ResetReadNot(buf) == buf

(* mbuf_reset_read, which does nothing in the middle of a write.           *)
ResetRead(buf) == IF buf.msg > buf.rd THEN buf ELSE [buf EXCEPT !.rd = buf.msg]

(* mbuf_consume_message, which does nothing in the middle of a write.      *)
ConsumeMessage(buf) == IF buf.msg > buf.rd THEN buf ELSE [buf EXCEPT !.msg = buf.rd]

(* mbuf_clear2, for a buffer that need not be zeroed.                      *)
Clear(buf) == [buf EXCEPT !.rd = 0, !.msg = 0, !.wr = 0]

(* The bytes from an offset on are moved to the start of the memory.  What *)
(* is behind them is no longer read, and counts as zero.                   *)
MovedDown(buf, offset) ==
  [buf EXCEPT !.base = Stored(Zeros(Length(buf)), 0, BytesAt(buf, offset, buf.wr - offset)),
              !.wr = @ - offset]

(* mbuf_repack: what is not read is kept.                                  *)
Repack(buf) == [MovedDown(buf, buf.rd) EXCEPT !.rd = 0, !.msg = 0]

(* mbuf_repack_message: the current message is kept, with what was read    *)
(* of it.                                                                  *)
RepackMessage(buf) ==
  [MovedDown(buf, buf.msg) EXCEPT !.rd = @ - buf.msg, !.msg = 0]

(* mbuf_check_invariant, in these terms.                                   *)
CheckInvariant(buf) ==
  /\ buf.wr <= Length(buf)
  /\ buf.rd <= buf.wr
  /\ buf.msg <= buf.wr
=============================================================================
