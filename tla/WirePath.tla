----------------------------- MODULE WirePath -----------------------------
(***************************************************************************)
(* The way of a sample from a row writer of the client to the insertion    *)
(* by the server: text_writer.c or bin_writer.c prints or marshals it into *)
(* a chunk, the chunk's sender empties the chunk into the connection, and  *)
(* client_callback (server/client_handler.c) reads what arrives, in        *)
(* fragments of any size, back into values.                                *)
(*                                                                         *)
(* Both ends agree on the schemas (ClientStream and MeasurementServer      *)
(* model how), and the connection loses nothing.  A chunk is written and   *)
(* sent under its lock, so a row is one step (BufferedWriter models the    *)
(* lock).                                                                  *)
(***************************************************************************)
EXTENDS Marshal, VectorJson, FiniteSets

CONSTANTS
  Scripts,     \* the sequences of rows that are tried with each protocol
  ChunkLength, \* the length of a new chunk,
  ChunkStep,   \* and its min_resize
  MaxValues    \* DEF_NUM_VALUES, the most fields the server reads in a line

ASSUME WirePathAssumption ==
  /\ ChunkLength \in Nat \ {0} /\ ChunkStep \in Nat \ {0}
  /\ MaxValues \in Nat

VARIABLES
  content, \* the protocol: "text" or "binary"
  rows,    \* the rows the application writes, each a sequence of values
  next,    \* how many were written
  chunk,   \* the writer's buffer
  msgtype, \* OmlBinWriter's msgtype
  locked,  \* whether a row that failed left the writer locked
  fate,    \* what became of each row: "whole", "clipped" or "failed"
  wire,    \* the bytes sent and not yet received
  mbuf,    \* the ClientHandler's buffer
  stored   \* what was inserted, in order

sender == <<content, rows, next, chunk, msgtype, locked, fate>>
receiver == <<mbuf, stored>>
vars == <<sender, wire, receiver>>

(* A double that is a whole number; `now` is the number of the row.        *)
Whole(n) == <<n, 0, 0>>

----------------------------------------------------------------------------
(* The text writer.                                                        *)

(* mbuf_print of some texts, until one fails: [ok, buf, clipped].          *)
RECURSIVE PrintAll(_, _, _)
PrintAll(buf, texts, clipped) ==
  IF texts = <<>> THEN [ok |-> TRUE, buf |-> buf, clipped |-> clipped]
  ELSE LET Rest(done) ==
             IF done.ok THEN PrintAll(done.buf, Tail(texts), clipped \/ Clips(buf, Head(texts)))
                        ELSE [ok |-> FALSE, buf |-> buf, clipped |-> clipped]
       IN  Once(Rest, PrintText(buf, Head(texts)))

RowStart(seqno) ==
  Decimal[seqno] \o <<Dot, 48, Tab>> \o Decimal[1] \o <<Tab>> \o Decimal[seqno]

(* owt_row_start, owt_row_cols of each value, owt_row_end.  A value of a   *)
(* type that is not supported leaves no field.  A row that is not printed  *)
(* has no mbuf in row_end, which then unlocks nothing; one that has no     *)
(* room left for its newline is undone and unlocked.                       *)
TextRow(buf, seqno, row) ==
  LET fields == SelectSeq(row, LAMBDA v : Supported(v.type))
      texts == <<RowStart(seqno)>> \o FlattenSeq([k \in DOMAIN fields |-> Texts(fields[k])])
      End(printed, ended) ==
        [locks |-> ~printed.ok, whole |-> printed.ok /\ ended.ok, clipped |-> printed.clipped,
         buf |-> IF printed.ok /\ ended.ok THEN BeginWrite(ended.buf) ELSE ResetWrite(printed.buf)]
  IN  Once(LAMBDA printed : End(printed, Write(printed.buf, <<Newline>>)),
           PrintAll(BeginWrite(buf), texts, FALSE))

TextFate(row, done) ==
  IF ~done.whole \/ \E v \in Range(row) : ~Supported(v.type) THEN "failed"
  ELSE IF done.clipped THEN "clipped" ELSE "whole"

WriteTextRow ==
  /\ content = "text"
  /\ ~locked
  /\ next < Len(rows)
  /\ \E done \in {TextRow(chunk, next, rows[next + 1])} :
       /\ chunk' = done.buf
       /\ locked' = done.locks
       /\ fate' = Append(fate, TextFate(rows[next + 1], done))
  /\ next' = next + 1
  /\ UNCHANGED <<content, rows, msgtype, wire, receiver>>

----------------------------------------------------------------------------
(* The binary writer.                                                      *)

(* owb_row_cols: a value that fails does not stop the row.                 *)
BinaryColumn(s, value) ==
  Once(LAMBDA done : [done EXCEPT !.ok = @ /\ s.ok], MarshalValues(s.buf, value))

(* owb_row_start, owb_row_cols of each value, owb_row_end: [ok, buf, type]. *)
BinaryRow(buf, type, seqno, row) ==
  LET Columns(started) ==
        Fold(BinaryColumn, [ok |-> MessageLength(started) > 0, buf |-> started], row)
      End(ok, message) ==
        [ok |-> ok, buf |-> BeginWrite(message),
         type |-> IF MsgType(message) = LDataP THEN LDataP ELSE type]
  IN  Once(LAMBDA columns : Once(LAMBDA message : End(columns.ok, message),
                                 MarshalFinalize(columns.buf)),
           Once(Columns, MarshalMeasurements(MarshalInit(buf, type), 1, seqno, Whole(seqno))))

WriteBinaryRow ==
  /\ content = "binary"
  /\ next < Len(rows)
  /\ \E done \in {BinaryRow(chunk, msgtype, next, rows[next + 1])} :
       /\ chunk' = done.buf
       /\ msgtype' = done.type
       /\ fate' = Append(fate, IF done.ok THEN "whole" ELSE "failed")
  /\ next' = next + 1
  /\ UNCHANGED <<content, rows, locked, wire, receiver>>

----------------------------------------------------------------------------
(* processChunk of the chunk's sender: the complete messages are sent and  *)
(* skipped; a chunk that is read to its end is cleared.                    *)
SendChunk ==
  LET size == chunk.msg - chunk.rd
      sent == Skip(chunk, size)
  IN  /\ ~locked
      /\ size > 0
      /\ wire' = wire \o Peek(chunk, size)
      /\ chunk' = IF sent.wr = sent.rd THEN Clear(sent) ELSE sent
      /\ UNCHANGED <<content, rows, next, msgtype, locked, fate, receiver>>

----------------------------------------------------------------------------
(* The reader.  The streams have one schema, the types of the rows.        *)
Schema == [k \in DOMAIN rows[1] |-> rows[1][k].type]

(* One turn of a reading loop: what is left, what was inserted, whether    *)
(* the loop goes on.                                                       *)
Turn(go, buf, done) == [go |-> go, buf |-> buf, done |-> done]

(* process_bin_data_message: a sample with the number of fields of its     *)
(* table is inserted.                                                      *)
ProcessBinData(s, buf, header) ==
  LET Read(got) ==
        IF ~got.ok \/ Len(got.row) # Len(Schema) THEN Turn(TRUE, got.buf, s.done)
        ELSE Turn(TRUE, ConsumeMessage(got.buf),
                  Append(s.done, [seqno |-> header.seqno, now |-> header.now, row |-> got.row]))
  IN  IF header.stream # 1 THEN Turn(TRUE, buf, s.done)
      ELSE Once(Read, UnmarshalValues(buf, header, MaxValues))

(* process_bin_message.                                                    *)
ProcessBin(s) ==
  LET Start(init) == IF init.res # "ok" THEN Turn(FALSE, init.buf, s.done)
                     ELSE ProcessBinData(s, init.buf, init.header)
      Synced(sync) ==
        IF sync.res = -1 /\ ReadRemaining(sync.buf) >= 2 THEN Turn(FALSE, sync.buf, s.done)
        ELSE Once(Start, UnmarshalInit(sync.buf))
  IN  Once(Synced, FindSync(s.buf))

(* process_text_message: the fields of a line, split at its tabs.          *)
Fields(line) == Split(line, Tab)

(* process_text_data_message: [ok, row].                                   *)
ReadRow(fields) ==
  LET Row(got) == [ok |-> \A k \in DOMAIN got : got[k].ok,
                   row |-> [k \in DOMAIN got |-> [type |-> Schema[k], v |-> got[k].v]]]
  IN  IF Len(fields) - 3 # Len(Schema)
        THEN [ok |-> FALSE, row |-> <<>>]
        ELSE Once(Row, [k \in 1..Len(Schema) |-> FromText(Schema[k], fields[k + 3])])

StreamOf(fields) == Strtol(CString(fields[2])).n

Sample(fields, row) == [seqno |-> Strtol(CString(fields[3])).n,
                        now |-> Whole(Strtol(CString(fields[1])).n), row |-> row]

(* A line with too many fields, or too few, ends the loop.                 *)
ProcessLine(s, buf, line) ==
  LET Insert(fields, got) == Turn(TRUE, buf, IF got.ok THEN Append(s.done, Sample(fields, got.row))
                                                       ELSE s.done)
      Read(fields) ==
        IF Len(fields) < 3 \/ Len(fields) >= MaxValues THEN Turn(FALSE, buf, s.done)
        ELSE IF StreamOf(fields) # 1 THEN Turn(TRUE, buf, s.done)
        ELSE Once(LAMBDA got : Insert(fields, got), ReadRow(fields))
  IN  Once(Read, Fields(line))

ProcessText(s) ==
  LET n == Find(s.buf, Newline)
  IN  IF n = -1
        THEN Turn(FALSE, s.buf, s.done)
        ELSE ProcessLine(s, ConsumeMessage(Skip(s.buf, n + 1)), Peek(s.buf, n))

(* client_callback, for n bytes that arrived: the loop over what can be    *)
(* read, and then the repacking.                                           *)
Process(s) == IF content = "text" THEN ProcessText(s) ELSE ProcessBin(s)

RECURSIVE Read(_)
Read(s) == IF s.go THEN Once(Read, Process(s)) ELSE s

ClientCallback ==
  \E n \in 1..Len(wire) :
    \E arrived \in {Appended(Resized(mbuf, n), SubSeq(wire, 1, n))} :
      \E end \in {Read(Turn(TRUE, arrived, <<>>))} :
        /\ wire' = SubSeq(wire, n + 1, Len(wire))
        /\ mbuf' = RepackMessage(end.buf)
        /\ stored' = stored \o end.done
        /\ UNCHANGED sender

----------------------------------------------------------------------------
Init ==
  /\ content \in {"text", "binary"}
  /\ rows \in Scripts[content]
  /\ next = 0
  /\ chunk = NewBuffer(ChunkLength, ChunkStep)
  /\ msgtype = DataP
  /\ locked = FALSE
  /\ fate = <<>>
  /\ wire = <<>>
  /\ mbuf = NewBuffer(ChunkLength, ChunkStep)
  /\ stored = <<>>

Next == WriteTextRow \/ WriteBinaryRow \/ SendChunk \/ ClientCallback

Spec == Init /\ [][Next]_vars

----------------------------------------------------------------------------
(* Properties.                                                             *)

(* What each protocol keeps of a value.                                    *)
Kept(value) ==
  CASE value.type = "double" ->
         [value EXCEPT !.v = IF @ = <<>> \/ (content = "binary" /\ ~FitsByte(@[2]))
                               THEN <<>> ELSE <<@[1], @[2], 0>>]
    [] content = "binary" /\ value.type \in {"string", "datetime"} ->
         [value EXCEPT !.v = Truncated(@)]
    [] content = "binary" /\ value.type = "long" -> [value EXCEPT !.type = "int32"]
    [] OTHER -> value

(* The row n as it should be inserted.                                     *)
Expected(n) ==
  [seqno |-> n, now |-> Whole(n), row |-> [k \in DOMAIN rows[n + 1] |-> Kept(rows[n + 1][k])]]

(* The rows written whole, in order.                                       *)
Due == LET whole == SelectSeq([n \in DOMAIN fate |-> n], LAMBDA n : fate[n] = "whole")
       IN  [k \in DOMAIN whole |-> Expected(whole[k] - 1)]

(* What was inserted, without the remains of a row that was clipped.       *)
Clipped == {n - 1 : n \in {m \in DOMAIN fate : fate[m] = "clipped"}}
Sound == IF Clipped = {} THEN stored
         ELSE SelectSeq(stored, LAMBDA s : \E k \in DOMAIN Due : s = Due[k])

(* Whatever the fragments the bytes arrive in, the rows that were written  *)
(* whole are inserted unchanged, each once and in order, and nothing else  *)
(* is (mbuf_reset_read, mbuf_repack_message: client_handler.c:1029-1067).  *)
(* A row lost behind garbage, as told at NothingLeftBehind, breaks it too  *)
(* when another row follows.                                               *)
RowsArriveAsSent == IsPrefix(Sound, Due)

(* The assertions of mbuf_check_invariant hold for both buffers after      *)
(* each operation, and a chunk is never left with a part of a row: what is *)
(* not sent is whole messages (mbuf.c:24-36, mbuf_reset_write).            *)
BuffersSound ==
  /\ CheckInvariant(chunk) /\ CheckInvariant(mbuf)
  /\ chunk.rd <= chunk.msg
  /\ mbuf.msg <= mbuf.rd
  /\ chunk.msg = chunk.wr

(* No part of a row is ever left behind in a chunk, and once all was       *)
(* received, no row that was written whole is still in the reader's buffer *)
(* or was skipped as garbage (client_handler.c:756-812).  Not so for a row *)
(* behind garbage that ends in a synchronisation byte, as the rest of a    *)
(* row whose blob was empty may: find_sync (marshal.c:382) takes that byte *)
(* and the first of the row for the start of a message, and the row is     *)
(* skipped.  Samples has no such garbage, OnlyEmptyBlobs has.              *)
NothingLeftBehind ==
  /\ BuffersSound
  /\ wire = <<>> /\ chunk.msg = chunk.rd => Sound = Due

(* Every backend stores each vector as the JSON of all its elements: the   *)
(* buffer, sized by the number of elements before any is printed, holds    *)
(* them and what is between them, however wide they are.  Not so for       *)
(* doubles with a fraction, which %.15g prints wider than DBL_DIG + 1.     *)
VectorsAreStoredWhole ==
  \A n \in DOMAIN stored : \A k \in DOMAIN stored[n].row :
    LET value == stored[n].row[k]
    IN  value.type \in VectorTypes =>
          /\ StoredInSqlite(value) = Json(value)
          /\ StoredInPostgresql(value) = Json(value)
          /\ StoredAsTriple(value) = Json(value)

(* marshal.c:739: "Attempting to send NULL or empty blob; blob of length 0 *)
(* will be sent".  Refuted: mbuf_write refuses the NULL pointer, the       *)
(* message is undone, and the next columns are written without a header.   *)
EmptyBlobsAreSent == \A n \in DOMAIN fate : fate[n] # "failed"

(* mbuf.c:407-409 and its callers: a text that is printed is in the        *)
(* buffer.  Refuted: the last byte of one that just fits is a NUL.         *)
NothingClipped == Clipped = {}
=============================================================================
