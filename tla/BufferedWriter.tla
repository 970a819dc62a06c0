---------------------------- MODULE BufferedWriter ----------------------------
(***************************************************************************)
(* The queue between the threads that produce measurements and the thread  *)
(* that sends them: lib/client/buffered_writer.c, with the calls that the  *)
(* text and binary writers make around each row.                           *)
(*                                                                         *)
(* Producers append whole rows to the chunk `writerChunk` of a circular    *)
(* chain while they hold `lock`.  The reader thread sleeps on a condition  *)
(* variable, walks the chain behind the writer and hands the content of    *)
(* each chunk to an OmlOutStream.  When the chain cannot grow and the next *)
(* chunk still holds data, the writer drops that chunk.                    *)
(*                                                                         *)
(* Data abstraction.  A row is its number in the order of acceptance, and  *)
(* every row has the same size, so that targetBufSize is counted in rows.  *)
(* A row is written between bw_get_write_buf and bw_unlock_buf with the    *)
(* lock held, so that nobody sees a partial row: wherever the reader looks *)
(* mbuf_message_offset = mbuf_write_offset.  processChunk then either      *)
(* sends all there is and clears the MBuffer or leaves rdptr where it was, *)
(* and rdptr = base at every step: buf[c] is all of the MBuffer.           *)
(***************************************************************************)
EXTENDS Integers, Sequences

CONSTANTS
  Producers,      \* threads that write rows (application, filter threads)
  ReaderThread,   \* the thread that runs threadStart
  NoThread,       \* the value of lock when the mutex is free
  MaxChunks,      \* queueCapacity / bufSize, at least 2 (bw_create)
  TargetBufSize,  \* rows after which a chunk is full
  UINT8_MAX,      \* the largest value of the backoff counter, 255
  SchemaRows,     \* the rows of MS 0 (schema0), copied to meta_buf
  AllocMayFail,   \* whether growing an MBuffer may fail within a row
  MaxRows,        \* bound: rows accepted in all
  MaxRefused      \* bound: no row is refused once its chunk counts as many messages

ASSUME ConstantsAssumption ==
  /\ ReaderThread \notin Producers
  /\ NoThread \notin Producers
  /\ ReaderThread # NoThread
  /\ MaxChunks \in Nat /\ MaxChunks >= 2
  /\ TargetBufSize \in Nat \ {0}
  /\ UINT8_MAX \in Nat \ {0}
  /\ SchemaRows \subseteq Nat \ {0}
  /\ AllocMayFail \in BOOLEAN
  /\ MaxRows \in Nat
  /\ MaxRefused \in Nat

Chunks == 1..MaxChunks

VARIABLES
  active,             \* 0 stops the reader thread
  lock,               \* holder of the mutex
  buf,                \* buf[c]: rows in chunk c that are not fully sent
  next,               \* next[c]: the chunk that follows c in the chain
  nmessages,          \* the chunk's message count
  reading,            \* the chunk's reading flag
  unallocatedBuffers, \* chunks that may still be added to the chain
  writerChunk,        \* chunk where rows are stored
  meta,               \* rows recorded in meta_buf for replay
  nlost,              \* loss counter shared with omlc_inject
  pc,                 \* what each producer is doing
  reg,                \* each producer's local copy of nlost
  closing,            \* progress of bw_close
  rpc,                \* what the reader thread is doing
  loop,               \* "main" loop of the reader, or its final "drain"
  chunk,              \* the reader's current chunk
  sent,               \* rows of the chunk sent by this processChunk
  allsent,            \* result of the last processChunk
  retval,             \* what the thread returned, 0 until it does
  backoff,            \* back-off time, an unsigned counter
  pause,              \* "on" within the back-off period
  \* History variables: what happened to each row.
  accepted,           \* rows for which row_end succeeded: 1..accepted
  delivered,          \* rows the out stream has taken
  lost,               \* rows dropped with their chunk, in order
  reported            \* sum of the values bw_nlost_reset returned

chain == <<buf, next, nmessages, unallocatedBuffers, writerChunk>>
readerVars == <<rpc, loop, chunk, sent, allsent, retval, backoff, pause, reading>>
history == <<accepted, delivered, lost, reported>>
vars == <<active, lock, chain, meta, nlost, pc, reg, closing, readerVars, history>>

Init ==
  /\ active = 1
  /\ lock = NoThread
  /\ buf = [c \in Chunks |-> << >>]
  /\ next = [c \in Chunks |-> c]
  /\ nmessages = [c \in Chunks |-> 0]
  /\ reading = [c \in Chunks |-> 0]
  /\ unallocatedBuffers = MaxChunks - 1
  /\ writerChunk = 1
  /\ meta = << >>
  /\ nlost = 0
  /\ pc = [p \in Producers |-> "idle"]
  /\ reg = [p \in Producers |-> 0]
  /\ closing = "open"
  /\ rpc = "check"
  /\ loop = "main"
  /\ chunk = 1
  /\ sent = 0
  /\ allsent = 1
  /\ retval = 0
  /\ backoff = 1
  /\ pause = "over"
  /\ accepted = 0
  /\ delivered = {}
  /\ lost = << >>
  /\ reported = 0

-----------------------------------------------------------------------------
(* Signalling: pthread_cond_signal wakes the reader only if it is waiting. *)

Signalled == IF rpc = "wait" THEN "woken" ELSE rpc

Signal ==
  /\ rpc' = Signalled
  /\ UNCHANGED <<loop, chunk, sent, allsent, retval, backoff, pause, reading>>

-----------------------------------------------------------------------------
(* Producers.                                                              *)

(* Mutant of UseNextChunk: the writer goes on into a chunk that holds data. *)
UseNextChunkAnyway(p) ==
  /\ writerChunk' = next[writerChunk]
  /\ nmessages' = [nmessages EXCEPT ![next[writerChunk]] = 0]
  /\ pc' = [pc EXCEPT ![p] = "row"]
  /\ UNCHANGED <<buf, next, unallocatedBuffers, reg, lost>>

(* getNextWriteChunk: the next chunk is empty, use it.                     *)
UseNextChunk(p) ==
  /\ buf[next[writerChunk]] = << >>
  /\ writerChunk' = next[writerChunk]
  /\ nmessages' = [nmessages EXCEPT ![next[writerChunk]] = 0]
  /\ pc' = [pc EXCEPT ![p] = "row"]
  /\ UNCHANGED <<buf, next, unallocatedBuffers, reg, lost>>

(* getNextWriteChunk: insert a new chunk after the current one.            *)
AddChunk(p) ==
  LET newBuffer == MaxChunks - unallocatedBuffers + 1 IN
  /\ buf[next[writerChunk]] # << >>
  /\ unallocatedBuffers > 0
  /\ next' = [next EXCEPT ![newBuffer] = next[writerChunk],
                          ![writerChunk] = newBuffer]
  /\ writerChunk' = newBuffer
  /\ unallocatedBuffers' = unallocatedBuffers - 1
  /\ pc' = [pc EXCEPT ![p] = "row"]
  /\ UNCHANGED <<buf, nmessages, reg, lost>>

(* Mutant of DroppedCount: count chunks.                                   *)
CountChunks(c) == 1

(* What getNextWriteChunk adds to nlost when it drops chunk c.             *)
DroppedCount(c) == nmessages[c]

(* getNextWriteChunk: the chain may not grow, drop what the next chunk     *)
(* holds.  `self->nlost += nlost` is a load, here, and a store, in         *)
(* StoreLoss: bw_nlost_reset does not take the lock.                       *)
DropNextChunk(p) ==
  LET nextBuffer == next[writerChunk] IN
  /\ buf[nextBuffer] # << >>
  /\ unallocatedBuffers = 0
  /\ writerChunk' = nextBuffer
  /\ reg' = [reg EXCEPT ![p] = nlost + DroppedCount(nextBuffer)]
  /\ nmessages' = [nmessages EXCEPT ![nextBuffer] = 0]
  /\ buf' = [buf EXCEPT ![nextBuffer] = << >>]
  /\ lost' = lost \o buf[nextBuffer]
  /\ pc' = [pc EXCEPT ![p] = "drop"]
  /\ UNCHANGED <<next, unallocatedBuffers>>

GetNextWriteChunk(p) == UseNextChunk(p) \/ AddChunk(p) \/ DropNextChunk(p)

(* row_start: bw_get_write_buf with exclusive access.  On an inactive      *)
(* writer it returns NULL and the lock stays taken.                        *)
RowStart(p) ==
  /\ pc[p] = "idle"
  /\ lock = NoThread
  /\ closing # "closed"
  /\ accepted < MaxRows
  /\ lock' = p
  /\ \/ /\ active = 0
        /\ pc' = [pc EXCEPT ![p] = "failed"]
        /\ UNCHANGED <<chain, reg, lost>>
     \/ /\ active = 1
        /\ Len(buf[writerChunk]) < TargetBufSize
        /\ pc' = [pc EXCEPT ![p] = "row"]
        /\ UNCHANGED <<chain, reg, lost>>
     \/ /\ active = 1
        /\ Len(buf[writerChunk]) >= TargetBufSize
        /\ GetNextWriteChunk(p)
  /\ UNCHANGED <<active, meta, nlost, closing, readerVars, accepted, delivered, reported>>

StoreLoss(p) ==
  /\ pc[p] = "drop"
  /\ nlost' = reg[p]
  /\ reg' = [reg EXCEPT ![p] = 0]
  /\ pc' = [pc EXCEPT ![p] = "row"]
  /\ UNCHANGED <<active, lock, chain, meta, closing, readerVars, history>>

(* Mutant of PushMeta: schema rows are sent as any other row.              *)
NoPushMeta(row) == meta' = meta

(* _bw_push_meta records a schema row for replay; row_end does not look at *)
(* its result.                                                             *)
PushMeta(row) ==
  IF row \in SchemaRows
    THEN meta' \in {Append(meta, row)} \cup (IF AllocMayFail THEN {meta} ELSE {})
    ELSE meta' = meta

(* row_end: complete the row, record it for replay if it is a schema row,  *)
(* count it, signal and unlock.                                            *)
RowEnd(p) ==
  LET row == accepted + 1 IN
  /\ pc[p] = "row"
  /\ accepted' = row
  /\ buf' = [buf EXCEPT ![writerChunk] = Append(@, row)]
  /\ nmessages' = [nmessages EXCEPT ![writerChunk] = @ + 1]
  /\ PushMeta(row)
  /\ Signal
  /\ lock' = NoThread
  /\ pc' = [pc EXCEPT ![p] = "idle"]
  /\ UNCHANGED <<active, next, unallocatedBuffers, writerChunk, nlost, reg, closing,
                 delivered, lost, reported>>

(* row_end of the text writer: mbuf_write fails, the row is taken back, and *)
(* is counted all the same.                                                *)
RowEndRefused(p) ==
  /\ AllocMayFail
  /\ pc[p] = "row"
  /\ nmessages[writerChunk] < MaxRefused
  /\ nmessages' = [nmessages EXCEPT ![writerChunk] = @ + 1]
  /\ Signal
  /\ lock' = NoThread
  /\ pc' = [pc EXCEPT ![p] = "idle"]
  /\ UNCHANGED <<active, buf, next, unallocatedBuffers, writerChunk, meta, nlost, reg,
                 closing, history>>

(* row_cols of the text writer: mbuf_print fails, the row is taken back    *)
(* and the writer forgets the MBuffer.                                     *)
RowAbort(p) ==
  /\ AllocMayFail
  /\ pc[p] = "row"
  /\ pc' = [pc EXCEPT ![p] = "failed"]
  /\ UNCHANGED <<active, lock, chain, meta, nlost, reg, closing, readerVars, history>>

(* What row_end leaves in lock when the row has failed.                    *)
LockAfterFailedRow(p) == lock

(* row_end after a failed row_start or row_cols: an early return.          *)
RowEndFailed(p) ==
  /\ pc[p] = "failed"
  /\ lock' = LockAfterFailedRow(p)
  /\ pc' = [pc EXCEPT ![p] = "idle"]
  /\ UNCHANGED <<active, chain, meta, nlost, reg, closing, readerVars, history>>

(* bw_nlost_reset, called by omlc_inject without the lock: load, then clear. *)
LoadLoss(p) ==
  /\ pc[p] = "idle"
  /\ closing # "closed"
  /\ reg' = [reg EXCEPT ![p] = nlost]
  /\ pc' = [pc EXCEPT ![p] = "reset"]
  /\ UNCHANGED <<active, lock, chain, meta, nlost, closing, readerVars, history>>

ClearLoss(p) ==
  /\ pc[p] = "reset"
  /\ nlost' = 0
  /\ reported' = reported + reg[p]
  /\ reg' = [reg EXCEPT ![p] = 0]
  /\ pc' = [pc EXCEPT ![p] = "idle"]
  /\ UNCHANGED <<active, lock, chain, meta, closing, readerVars, accepted, delivered, lost>>

-----------------------------------------------------------------------------
(* bw_close, by whichever thread calls omlc_close.                         *)

(* Mutant of CloseBegin: active is cleared without taking the lock.        *)
CloseWithoutLock ==
  /\ closing = "open"
  /\ active' = 0
  /\ Signal
  /\ closing' = "join"
  /\ UNCHANGED <<lock, chain, meta, nlost, pc, reg, history>>

(* The close proper: stop the reader thread, wake it and wait for it.      *)
CloseBegin ==
  /\ closing = "open"
  /\ lock = NoThread
  /\ active' = 0
  /\ Signal
  /\ closing' = "join"
  /\ UNCHANGED <<lock, chain, meta, nlost, pc, reg, history>>

(* pthread_join returns; the stream and the object are freed.              *)
CloseEnd ==
  /\ closing = "join"
  /\ rpc = "done"
  /\ closing' = "closed"
  /\ UNCHANGED <<active, lock, chain, meta, nlost, pc, reg, readerVars, history>>

-----------------------------------------------------------------------------
(* The reader thread, threadStart.                                         *)

ReaderKeeps == <<active, chain, meta, nlost, pc, reg, closing, accepted, lost, reported>>

(* while (self->active), read without the lock.                            *)
ReaderCheck ==
  /\ rpc = "check"
  /\ rpc' = IF active = 1 THEN "lock" ELSE "scan"
  /\ loop' = IF active = 1 THEN "main" ELSE "drain"
  /\ UNCHANGED <<ReaderKeeps, lock, delivered, chunk, sent, allsent, retval, backoff,
                 pause, reading>>

(* oml_lock, then pthread_cond_wait, which releases the lock at once.      *)
ReaderWait ==
  /\ rpc = "lock"
  /\ lock = NoThread
  /\ rpc' = "wait"
  /\ UNCHANGED <<ReaderKeeps, lock, delivered, loop, chunk, sent, allsent, retval,
                 backoff, pause, reading>>

(* POSIX lets pthread_cond_wait return without a signal.                   *)
SpuriousWakeup ==
  /\ rpc = "wait"
  /\ rpc' = "woken"
  /\ UNCHANGED <<ReaderKeeps, lock, delivered, loop, chunk, sent, allsent, retval,
                 backoff, pause, reading>>

ReaderWake ==
  /\ rpc = "woken"
  /\ lock = NoThread
  /\ lock' = ReaderThread
  /\ rpc' = "scan"
  /\ UNCHANGED <<ReaderKeeps, delivered, loop, chunk, sent, allsent, retval, backoff,
                 pause, reading>>

(* The main loop does not call processChunk on a chunk with nothing to send. *)
SkipEmptyChunk ==
  /\ rpc = "scan"
  /\ loop = "main"
  /\ buf[chunk] = << >>
  /\ rpc' = "next"
  /\ UNCHANGED <<ReaderKeeps, lock, delivered, loop, chunk, sent, allsent, retval,
                 backoff, pause, reading>>

CallsProcessChunk == rpc = "scan" /\ (loop = "drain" \/ buf[chunk] # << >>)

(* processChunk within the back-off period returns -1.                     *)
StillBackingOff ==
  /\ CallsProcessChunk
  /\ pause = "on"
  /\ allsent' = -1
  /\ rpc' = "next"
  /\ UNCHANGED <<ReaderKeeps, lock, delivered, loop, chunk, sent, retval, backoff,
                 pause, reading>>

BeginChunk ==
  /\ CallsProcessChunk
  /\ pause = "over"
  /\ reading' = [reading EXCEPT ![chunk] = 1]
  /\ sent' = 0
  /\ rpc' = "send"
  /\ UNCHANGED <<ReaderKeeps, lock, delivered, loop, chunk, allsent, retval, backoff,
                 pause>>

(* Mutant of WriteOk: sent is assigned where it should be added to.        *)
WriteOkAssigns(n) ==
  /\ rpc = "send"
  /\ sent < Len(buf[chunk])
  /\ n \in 0..(Len(buf[chunk]) - sent)
  /\ sent' = n
  /\ delivered' = delivered \cup {buf[chunk][i] : i \in (sent + 1)..(sent + n)}
  /\ backoff' = 0
  /\ UNCHANGED <<ReaderKeeps, lock, rpc, loop, chunk, allsent, retval, pause, reading>>

(* outStream->write takes n of the rows that remain, and perhaps part of   *)
(* one more: n is 0 when it takes no more than part of a row.              *)
WriteOk(n) ==
  /\ rpc = "send"
  /\ sent < Len(buf[chunk])
  /\ n \in 0..(Len(buf[chunk]) - sent)
  /\ sent' = sent + n
  /\ delivered' = delivered \cup {buf[chunk][i] : i \in (sent + 1)..(sent + n)}
  /\ backoff' = 0
  /\ UNCHANGED <<ReaderKeeps, lock, rpc, loop, chunk, allsent, retval, pause, reading>>

(* Mutant of NextBackoff: the counter has no width.                        *)
DoubleBackoff == IF backoff = 0 THEN 1 ELSE 2 * backoff

(* The back-off doubles in an unsigned counter of eight bits.              *)
NextBackoff ==
  IF backoff = 0 THEN 1
  ELSE IF backoff < UINT8_MAX THEN (2 * backoff) % (UINT8_MAX + 1)
  ELSE backoff

(* outStream->write fails: processChunk returns -2 and forgets the rows    *)
(* of the chunk that it has sent.                                          *)
WriteFail ==
  /\ rpc = "send"
  /\ sent < Len(buf[chunk])
  /\ backoff' = NextBackoff
  /\ pause' = IF NextBackoff = 0 THEN "over" ELSE "on"
  /\ reading' = [reading EXCEPT ![chunk] = 0]
  /\ allsent' = -2
  /\ rpc' = "next"
  /\ UNCHANGED <<ReaderKeeps, lock, delivered, loop, chunk, sent, retval>>

(* Mutant of ChunkSent: the chunk is cleared whatever was sent of it.      *)
ClearAnyway == TRUE

(* processChunk has nothing left to write: ~(size > sent).                 *)
ChunkSent == sent = Len(buf[chunk])

(* All sent: the MBuffer is cleared and processChunk returns 1.            *)
EndChunk ==
  /\ rpc = "send"
  /\ ChunkSent
  /\ buf' = [buf EXCEPT ![chunk] = << >>]
  /\ reading' = [reading EXCEPT ![chunk] = 0]
  /\ allsent' = 1
  /\ rpc' = "next"
  /\ UNCHANGED <<active, lock, next, nmessages, unallocatedBuffers, writerChunk, meta, nlost,
                 pc, reg, closing, loop, chunk, sent, retval, backoff, pause, history>>

(* Mutant of MayAdvance: a failed chunk is left behind.                    *)
AdvanceAfterFailure == chunk # writerChunk

(* The reader moves on only from a chunk the writer has left.              *)
MayAdvance == allsent > 0 /\ chunk # writerChunk

(* End of an iteration of the main loop's walk.                            *)
WalkOn ==
  /\ rpc = "next"
  /\ loop = "main"
  /\ IF MayAdvance
       THEN chunk' = next[chunk] /\ rpc' = "scan" /\ UNCHANGED lock
       ELSE chunk' = chunk /\ rpc' = "check" /\ lock' = NoThread
  /\ UNCHANGED <<ReaderKeeps, delivered, loop, sent, allsent, retval, backoff, pause,
                 reading>>

(* Mutant of RetriesDrain: a failed write is retried as well.              *)
RetryFailedWrite == allsent < 0

(* The drain waits and tries again only within a back-off period.          *)
RetriesDrain == allsent = -1

(* End of an iteration of the loop that drains the chain without the lock. *)
DrainOn ==
  /\ rpc = "next"
  /\ loop = "drain"
  /\ \/ /\ MayAdvance
        /\ chunk' = next[chunk]
        /\ rpc' = "scan"
        /\ UNCHANGED retval
     \/ /\ RetriesDrain
        /\ rpc' = "sleep"
        /\ UNCHANGED <<chunk, retval>>
     \/ /\ ~RetriesDrain
        /\ ~MayAdvance
        /\ rpc' = "done"
        /\ retval' = allsent
        /\ UNCHANGED chunk
  /\ UNCHANGED <<ReaderKeeps, lock, delivered, loop, sent, allsent, backoff, pause,
                 reading>>

(* sleep(self->backoff) lasts as long as the back-off period.              *)
DrainSleep ==
  /\ rpc = "sleep"
  /\ pause' = "over"
  /\ rpc' = "scan"
  /\ UNCHANGED <<ReaderKeeps, lock, delivered, loop, chunk, sent, allsent, retval,
                 backoff, reading>>

(* Time passes: the back-off period elapses.                               *)
CoolDown ==
  /\ pause = "on"
  /\ pause' = "over"
  /\ UNCHANGED <<ReaderKeeps, lock, delivered, rpc, loop, chunk, sent, allsent, retval,
                 backoff, reading>>

Write == WriteFail \/ \E n \in 0..TargetBufSize : WriteOk(n)

(* All that the reader thread does but calling the out stream.             *)
ReaderLoop ==
  \/ ReaderCheck \/ ReaderWait \/ ReaderWake
  \/ SkipEmptyChunk \/ StillBackingOff \/ BeginChunk \/ EndChunk
  \/ WalkOn \/ DrainOn \/ DrainSleep

ReaderStep == ReaderLoop \/ Write

ProducerStep(p) ==
  \/ RowStart(p) \/ StoreLoss(p) \/ RowEnd(p) \/ RowEndRefused(p) \/ RowAbort(p)
  \/ RowEndFailed(p) \/ LoadLoss(p) \/ ClearLoss(p)

(* Every step that does not call the out stream.                           *)
Elsewhere ==
  \/ \E p \in Producers : ProducerStep(p)
  \/ CloseBegin \/ CloseEnd
  \/ ReaderLoop \/ SpuriousWakeup \/ CoolDown

Next == Elsewhere \/ Write

Spec == Init /\ [][Next]_vars

(* Fairness.  The reader thread is scheduled, every write to the out       *)
(* stream returns, the back-off period elapses and so does a join; a       *)
(* thread that has started a row ends it.  No thread is promised a signal, *)
(* a spurious wakeup, or a row to come.                                    *)
Fairness ==
  /\ WF_vars(ReaderStep)
  /\ WF_vars(CoolDown)
  /\ WF_vars(CloseEnd)
  /\ \A p \in Producers :
       WF_vars(StoreLoss(p) \/ RowEnd(p) \/ RowEndFailed(p) \/ ClearLoss(p))

FairSpec == Spec /\ Fairness

-----------------------------------------------------------------------------
(* Properties.                                                             *)

Threads == Producers \cup {ReaderThread, NoThread}

ChainTypeOK ==
  /\ buf \in [Chunks -> Seq(Nat)]
  /\ next \in [Chunks -> Chunks]
  /\ nmessages \in [Chunks -> Nat]
  /\ reading \in [Chunks -> {0, 1}]
  /\ unallocatedBuffers \in 0..(MaxChunks - 1)
  /\ writerChunk \in Chunks

ProducerTypeOK ==
  /\ pc \in [Producers -> {"idle", "row", "drop", "failed", "reset"}]
  /\ reg \in [Producers -> Nat]
  /\ nlost \in Nat
  /\ meta \in Seq(Nat)

ControlTypeOK ==
  /\ active \in {0, 1}
  /\ lock \in Threads
  /\ closing \in {"open", "join", "closed"}
  /\ rpc \in {"check", "lock", "wait", "woken", "scan", "send", "next", "sleep", "done"}
  /\ loop \in {"main", "drain"}

ReaderTypeOK ==
  /\ chunk \in Chunks
  /\ sent \in Nat
  /\ allsent \in {1, -1, -2}
  /\ retval \in {0, 1, -1, -2}
  /\ backoff \in 0..UINT8_MAX
  /\ pause \in {"over", "on"}

HistoryTypeOK ==
  /\ accepted \in Nat
  /\ delivered \subseteq Nat
  /\ lost \in Seq(Nat)
  /\ reported \in Nat

(* Type invariant of the module's variables.                               *)
TypeOK ==
  ChainTypeOK /\ ProducerTypeOK /\ ControlTypeOK /\ ReaderTypeOK /\ HistoryTypeOK

InRow(p) == pc[p] \in {"row", "drop"}

(* While processChunk reads a chunk no producer is inside a row, and the   *)
(* chunk being read is the reader's: the assertion of getNextWriteChunk    *)
(* that the chunk it drops is not being read can never fail, even in the   *)
(* drain loop, which reads the chain without the lock.                     *)
ReadingExcludesWriting ==
  \A c \in Chunks : reading[c] = 1 =>
    /\ c = chunk
    /\ rpc = "send"
    /\ \A p \in Producers : ~InRow(p)

Queued(m) == \E c \in Chunks : \E i \in 1..Len(buf[c]) : buf[c][i] = m

Dropped(m) == \E i \in 1..Len(lost) : lost[i] = m

(* A row for which row_end returned success is in the chain, or the out    *)
(* stream has taken it, or it was dropped with a chunk; no interleaving of *)
(* the writer's chunk changes, failed writes and the drain loses sight of  *)
(* it.                                                                     *)
EveryRowAccountedFor ==
  \A m \in 1..accepted : Queued(m) \/ m \in delivered \/ Dropped(m)

(* What omlc_inject has been told plus what it will be told next covers    *)
(* every dropped row: no loss goes unreported.                             *)
LossIsReported ==
  (\A p \in Producers : pc[p] \notin {"drop", "reset"})
    => Len(lost) <= nlost + reported

(* When the thread returns 1 and nothing was ever dropped, the out stream  *)
(* has taken every row that was accepted.                                  *)
DrainedWithoutOverflow ==
  retval = 1 /\ lost = << >> => 1..accepted \subseteq delivered

(* As a queue the BufferedWriter is a lossy FIFO that drops its oldest     *)
(* rows: it implements MeasurementQueue.                                   *)
Queue == INSTANCE MeasurementQueue WITH
  dropped <- {lost[i] : i \in 1..Len(lost)}

ImplementsQueue == Queue!Spec

(* Once the reader has left its main loop, bw_close returns, whatever the  *)
(* out stream answers.                                                     *)
DrainTerminates == loop = "drain" ~> closing = "closed"

-----------------------------------------------------------------------------
(* Statements of the sources that the code does not satisfy.               *)

(* row_start's lock "is released in row_end": a producer outside a row     *)
(* does not hold it.                                                       *)
RowEndReleasesLock ==
  \A p \in Producers : pc[p] = "idle" => lock # p

(* "Blocks until the buffered writer drains": bw_close returns.            *)
CloseReturns == closing = "join" ~> closing = "closed"
===============================================================================
