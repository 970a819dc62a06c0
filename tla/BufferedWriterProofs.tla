------------------------- MODULE BufferedWriterProofs -------------------------
(***************************************************************************)
(* Proofs about BufferedWriter for any number of producers, chunks and     *)
(* rows: types, the mutex, the rows and the losses; then the order of the  *)
(* rows along the ring of chunks, what the drain leaves, and that the      *)
(* BufferedWriter implements MeasurementQueue.                             *)
(***************************************************************************)
EXTENDS BufferedWriter, TLAPS

(* The back-off counter stays within its width.                            *)
LEMMA NextBackoffType ==
  ASSUME backoff \in 0..UINT8_MAX
  PROVE  NextBackoff \in 0..UINT8_MAX
<1>1. UINT8_MAX \in Nat /\ UINT8_MAX >= 1
  BY ConstantsAssumption
<1>2. CASE backoff = 0 \/ backoff >= UINT8_MAX
  BY <1>1, <1>2 DEF NextBackoff
<1>3. CASE backoff # 0 /\ backoff < UINT8_MAX
  <2>1. NextBackoff = (2 * backoff) % (UINT8_MAX + 1)
    BY <1>3 DEF NextBackoff
  <2>2. 2 * backoff \in Nat /\ UINT8_MAX + 1 \in Nat \ {0}
    BY <1>1
  <2>3. \A a \in Nat, b \in Nat \ {0} : a % b \in 0..(b - 1)
    OBVIOUS
  <2> QED
    BY <1>1, <2>1, <2>2, <2>3
<1> QED
  BY <1>1, <1>2, <1>3

-----------------------------------------------------------------------------
(* Type correctness: one lemma for each part of TypeOK.                    *)

(* The chain: chunks are added, filled by producers, and emptied by        *)
(* producers and by the reader.                                            *)
LEMMA ChainTypeStep ==
  ASSUME TypeOK, [Next]_vars
  PROVE  ChainTypeOK'
<1>1. ASSUME UNCHANGED <<chain, reading>>
      PROVE  ChainTypeOK'
  BY <1>1 DEF TypeOK, ChainTypeOK, chain
<1>2. ASSUME NEW p \in Producers, RowStart(p)
      PROVE  ChainTypeOK'
  <2>1. CASE UNCHANGED chain
    BY <1>1, <1>2, <2>1 DEF RowStart, readerVars
  <2>2. CASE UseNextChunk(p)
    <3>1. UNCHANGED <<buf, next, unallocatedBuffers, reading>>
      BY <1>2, <2>2 DEF RowStart, UseNextChunk, readerVars
    <3>2. writerChunk' \in Chunks /\ nmessages' \in [Chunks -> Nat]
      BY <2>2 DEF UseNextChunk, TypeOK, ChainTypeOK
    <3> QED
      BY <3>1, <3>2 DEF TypeOK, ChainTypeOK
  <2>3. CASE AddChunk(p)
    <3> DEFINE newBuffer == MaxChunks - unallocatedBuffers + 1
    <3>1. UNCHANGED <<buf, nmessages, reading>>
      BY <1>2, <2>3 DEF RowStart, AddChunk, readerVars
    <3>2. /\ newBuffer \in Chunks
          /\ unallocatedBuffers - 1 \in 0..(MaxChunks - 1)
      BY <2>3, ConstantsAssumption DEF AddChunk, TypeOK, ChainTypeOK, Chunks
    <3>3. writerChunk' = newBuffer /\ unallocatedBuffers' = unallocatedBuffers - 1
      BY <2>3 DEF AddChunk
    <3>4. next' \in [Chunks -> Chunks]
      BY <2>3, <3>2 DEF AddChunk, TypeOK, ChainTypeOK
    <3> QED
      BY <3>1, <3>2, <3>3, <3>4 DEF TypeOK, ChainTypeOK
  <2>4. CASE DropNextChunk(p)
    <3>1. UNCHANGED <<next, unallocatedBuffers, reading>>
      BY <1>2, <2>4 DEF RowStart, DropNextChunk, readerVars
    <3>2. writerChunk' \in Chunks /\ nmessages' \in [Chunks -> Nat]
      BY <2>4 DEF DropNextChunk, TypeOK, ChainTypeOK
    <3>3. buf' \in [Chunks -> Seq(Nat)]
      BY <2>4 DEF DropNextChunk, TypeOK, ChainTypeOK
    <3> QED
      BY <3>1, <3>2, <3>3 DEF TypeOK, ChainTypeOK
  <2> QED
    BY <1>2, <2>1, <2>2, <2>3, <2>4 DEF RowStart, GetNextWriteChunk
<1>3. ASSUME NEW p \in Producers, RowEnd(p) \/ RowEndRefused(p)
      PROVE  ChainTypeOK'
  <2>1. CASE RowEnd(p)
    BY <2>1 DEF RowEnd, Signal, TypeOK, ChainTypeOK, HistoryTypeOK
  <2>2. CASE RowEndRefused(p)
    BY <2>2 DEF RowEndRefused, Signal, TypeOK, ChainTypeOK
  <2> QED
    BY <1>3, <2>1, <2>2
<1>4. ASSUME NEW p \in Producers, ProducerStep(p), ~RowStart(p), ~RowEnd(p), ~RowEndRefused(p)
      PROVE  ChainTypeOK'
  BY <1>1, <1>4 DEF ProducerStep, StoreLoss, RowAbort, RowEndFailed, LoadLoss, ClearLoss,
                    readerVars
<1>5. CASE CloseBegin \/ CloseEnd
  BY <1>1, <1>5 DEF CloseBegin, CloseEnd, Signal, readerVars
<1>6. CASE BeginChunk \/ WriteFail
  BY <1>6 DEF BeginChunk, WriteFail, ReaderKeeps, chain, TypeOK, ChainTypeOK
<1>7. CASE EndChunk
  BY <1>7 DEF EndChunk, TypeOK, ChainTypeOK, ReaderTypeOK
<1>8. ASSUME NEW n \in 0..TargetBufSize, WriteOk(n)
      PROVE  ChainTypeOK'
  BY <1>1, <1>8 DEF WriteOk, ReaderKeeps
<1>9. CASE ReaderCheck \/ ReaderWait \/ ReaderWake \/ SpuriousWakeup
  BY <1>1, <1>9 DEF ReaderCheck, ReaderWait, ReaderWake, SpuriousWakeup, ReaderKeeps
<1>10. CASE SkipEmptyChunk \/ StillBackingOff
  BY <1>1, <1>10 DEF SkipEmptyChunk, StillBackingOff, ReaderKeeps
<1>11. CASE WalkOn \/ DrainOn \/ DrainSleep \/ CoolDown
  BY <1>1, <1>11 DEF WalkOn, DrainOn, DrainSleep, CoolDown, ReaderKeeps
<1>12. CASE UNCHANGED vars
  BY <1>1, <1>12 DEF vars, readerVars
<1> QED
  BY <1>2, <1>3, <1>4, <1>5, <1>6, <1>7, <1>8, <1>9, <1>10, <1>11, <1>12
  DEF Next, Elsewhere, ReaderLoop, Write

(* The producers: only their own steps change their variables.             *)
LEMMA ProducerTypeStep ==
  ASSUME TypeOK, [Next]_vars
  PROVE  ProducerTypeOK'
<1>1. ASSUME UNCHANGED <<pc, reg, nlost, meta>>
      PROVE  ProducerTypeOK'
  BY <1>1 DEF TypeOK, ProducerTypeOK
<1>2. ASSUME NEW p \in Producers, RowStart(p)
      PROVE  ProducerTypeOK'
  <2>1. UNCHANGED <<nlost, meta>>
    BY <1>2 DEF RowStart
  <2>2. CASE UNCHANGED reg /\ pc' \in {[pc EXCEPT ![p] = "failed"], [pc EXCEPT ![p] = "row"]}
    BY <2>1, <2>2 DEF TypeOK, ProducerTypeOK
  <2>3. CASE DropNextChunk(p)
    <3>1. nlost + nmessages[next[writerChunk]] \in Nat
      BY DEF TypeOK, ProducerTypeOK, ChainTypeOK
    <3>2. reg' = [reg EXCEPT ![p] = nlost + nmessages[next[writerChunk]]]
      BY <2>3 DEF DropNextChunk, DroppedCount
    <3>3. reg' \in [Producers -> Nat]
      BY <3>1, <3>2 DEF TypeOK, ProducerTypeOK
    <3>4. pc' \in [Producers -> {"idle", "row", "drop", "failed", "reset"}]
      BY <2>3 DEF DropNextChunk, TypeOK, ProducerTypeOK
    <3> QED
      BY <2>1, <3>3, <3>4 DEF TypeOK, ProducerTypeOK
  <2> QED
    BY <1>2, <2>2, <2>3 DEF RowStart, GetNextWriteChunk, UseNextChunk, AddChunk
<1>3. ASSUME NEW p \in Producers, RowEnd(p)
      PROVE  ProducerTypeOK'
  <2>1. UNCHANGED <<reg, nlost>> /\ pc' = [pc EXCEPT ![p] = "idle"]
    BY <1>3 DEF RowEnd
  <2>2. accepted + 1 \in Nat /\ meta \in Seq(Nat)
    BY DEF TypeOK, HistoryTypeOK, ProducerTypeOK
  <2>3. meta' \in {meta, Append(meta, accepted + 1)}
    BY <1>3 DEF RowEnd, PushMeta
  <2>4. meta' \in Seq(Nat)
    BY <2>2, <2>3, SMTT(40)
  <2> QED
    BY <2>1, <2>4 DEF TypeOK, ProducerTypeOK
<1>4. ASSUME NEW p \in Producers, StoreLoss(p) \/ LoadLoss(p) \/ ClearLoss(p)
      PROVE  ProducerTypeOK'
  <2>1. UNCHANGED meta /\ \E l \in {"row", "reset", "idle"} : pc' = [pc EXCEPT ![p] = l]
    BY <1>4 DEF StoreLoss, LoadLoss, ClearLoss
  <2>2. reg' \in {[reg EXCEPT ![p] = 0], [reg EXCEPT ![p] = nlost]}
    BY <1>4 DEF StoreLoss, LoadLoss, ClearLoss
  <2>3. nlost' \in {nlost, 0, reg[p]}
    BY <1>4 DEF StoreLoss, LoadLoss, ClearLoss
  <2> QED
    BY <2>1, <2>2, <2>3 DEF TypeOK, ProducerTypeOK
<1>5. ASSUME NEW p \in Producers, RowEndRefused(p) \/ RowAbort(p) \/ RowEndFailed(p)
      PROVE  ProducerTypeOK'
  BY <1>5 DEF RowEndRefused, RowAbort, RowEndFailed, TypeOK, ProducerTypeOK
<1>6. CASE CloseBegin \/ CloseEnd \/ ReaderLoop \/ Write \/ SpuriousWakeup \/ CoolDown
  <2>1. UNCHANGED <<pc, reg, nlost, meta>>
    BY <1>6 DEF CloseBegin, CloseEnd, ReaderLoop, Write, ReaderCheck, ReaderWait, ReaderWake,
      SkipEmptyChunk, StillBackingOff, BeginChunk, WriteOk, WriteFail, EndChunk, WalkOn,
      DrainOn, DrainSleep, SpuriousWakeup, CoolDown, ReaderKeeps
  <2> QED
    BY <1>1, <2>1
<1>7. CASE UNCHANGED vars
  BY <1>1, <1>7 DEF vars
<1> QED
  BY <1>2, <1>3, <1>4, <1>5, <1>6, <1>7 DEF Next, Elsewhere, ProducerStep

(* Control: the lock, bw_close and the program counter of the reader.      *)
LEMMA ControlTypeStep ==
  ASSUME TypeOK, [Next]_vars
  PROVE  ControlTypeOK'
<1>1. ASSUME UNCHANGED <<active, closing, loop>>, rpc' \in {rpc, Signalled}, lock' \in Threads
      PROVE  ControlTypeOK'
  BY <1>1 DEF TypeOK, ControlTypeOK, Signalled
<1>2. lock \in Threads /\ NoThread \in Threads /\ ReaderThread \in Threads
  BY DEF TypeOK, ControlTypeOK, Threads
<1>3. ASSUME NEW p \in Producers, RowStart(p)
      PROVE  ControlTypeOK'
  BY <1>1, <1>3 DEF RowStart, readerVars, Threads
<1>4. ASSUME NEW p \in Producers, RowEnd(p) \/ RowEndRefused(p)
      PROVE  ControlTypeOK'
  BY <1>1, <1>2, <1>4 DEF RowEnd, RowEndRefused, Signal
<1>5. ASSUME NEW p \in Producers, ProducerStep(p), ~RowStart(p), ~RowEnd(p), ~RowEndRefused(p)
      PROVE  ControlTypeOK'
  BY <1>1, <1>2, <1>5 DEF ProducerStep, StoreLoss, RowAbort, RowEndFailed, LoadLoss, ClearLoss,
                          LockAfterFailedRow, readerVars
<1>6. CASE CloseBegin \/ CloseEnd
  BY <1>6 DEF CloseBegin, CloseEnd, Signal, Signalled, readerVars, TypeOK, ControlTypeOK
<1>7. CASE ReaderCheck \/ ReaderWait \/ ReaderWake \/ SpuriousWakeup
  BY <1>2, <1>7 DEF ReaderCheck, ReaderWait, ReaderWake, SpuriousWakeup, ReaderKeeps,
                    TypeOK, ControlTypeOK
<1>8. CASE SkipEmptyChunk \/ StillBackingOff \/ BeginChunk
  BY <1>8 DEF SkipEmptyChunk, StillBackingOff, BeginChunk, ReaderKeeps, TypeOK, ControlTypeOK
<1>9. ASSUME NEW n \in 0..TargetBufSize, WriteOk(n)
      PROVE  ControlTypeOK'
  BY <1>1, <1>2, <1>9 DEF WriteOk, ReaderKeeps
<1>10. CASE WriteFail \/ EndChunk
  BY <1>10 DEF WriteFail, EndChunk, ReaderKeeps, TypeOK, ControlTypeOK
<1>11. CASE WalkOn \/ DrainOn \/ DrainSleep \/ CoolDown
  BY <1>2, <1>11 DEF WalkOn, DrainOn, DrainSleep, CoolDown, ReaderKeeps, TypeOK, ControlTypeOK
<1>12. CASE UNCHANGED vars
  BY <1>1, <1>2, <1>12 DEF vars, readerVars
<1> QED
  BY <1>3, <1>4, <1>5, <1>6, <1>7, <1>8, <1>9, <1>10, <1>11, <1>12
  DEF Next, Elsewhere, ReaderLoop, Write

(* The reader's own variables.                                             *)
LEMMA ReaderTypeStep ==
  ASSUME TypeOK, [Next]_vars
  PROVE  ReaderTypeOK'
<1>1. ASSUME UNCHANGED <<chunk, sent, allsent, retval, backoff, pause>>
      PROVE  ReaderTypeOK'
  BY <1>1 DEF TypeOK, ReaderTypeOK
<1>2. ASSUME NEW p \in Producers, ProducerStep(p)
      PROVE  ReaderTypeOK'
  BY <1>1, <1>2 DEF ProducerStep, RowStart, StoreLoss, RowEnd, RowEndRefused, RowAbort, RowEndFailed,
                    LoadLoss, ClearLoss, Signal, readerVars
<1>3. CASE CloseBegin \/ CloseEnd \/ UNCHANGED vars
  BY <1>1, <1>3 DEF CloseBegin, CloseEnd, Signal, vars, readerVars
<1>4. CASE ReaderCheck \/ ReaderWait \/ ReaderWake \/ SpuriousWakeup \/ SkipEmptyChunk
  BY <1>1, <1>4 DEF ReaderCheck, ReaderWait, ReaderWake, SpuriousWakeup, SkipEmptyChunk
<1>5. CASE StillBackingOff \/ BeginChunk
  BY <1>5 DEF StillBackingOff, BeginChunk, TypeOK, ReaderTypeOK
<1>6. ASSUME NEW n \in 0..TargetBufSize, WriteOk(n)
      PROVE  ReaderTypeOK'
  BY <1>6, ConstantsAssumption DEF WriteOk, TypeOK, ReaderTypeOK
<1>7. CASE WriteFail
  BY <1>7, NextBackoffType DEF WriteFail, TypeOK, ReaderTypeOK
<1>8. CASE EndChunk
  BY <1>8 DEF EndChunk, TypeOK, ReaderTypeOK
<1>9. CASE WalkOn \/ DrainOn \/ DrainSleep \/ CoolDown
  BY <1>9 DEF WalkOn, DrainOn, DrainSleep, CoolDown, TypeOK, ReaderTypeOK, ChainTypeOK
<1> QED
  BY <1>2, <1>3, <1>4, <1>5, <1>6, <1>7, <1>8, <1>9 DEF Next, Elsewhere, ReaderLoop, Write

(* The history: rows accepted, delivered, lost and reported.               *)
LEMMA HistoryTypeStep ==
  ASSUME TypeOK, [Next]_vars
  PROVE  HistoryTypeOK'
<1>1. ASSUME UNCHANGED history
      PROVE  HistoryTypeOK'
  BY <1>1 DEF TypeOK, HistoryTypeOK, history
<1>2. ASSUME NEW p \in Producers, RowStart(p)
      PROVE  HistoryTypeOK'
  <2>1. UNCHANGED <<accepted, delivered, reported>>
    BY <1>2 DEF RowStart
  <2>2. CASE UNCHANGED lost
    BY <2>1, <2>2 DEF TypeOK, HistoryTypeOK
  <2>3. CASE DropNextChunk(p)
    <3>1. buf[next[writerChunk]] \in Seq(Nat)
      BY DEF TypeOK, ChainTypeOK
    <3>2. lost' = lost \o buf[next[writerChunk]]
      BY <2>3 DEF DropNextChunk
    <3>3. lost' \in Seq(Nat)
      BY <3>1, <3>2 DEF TypeOK, HistoryTypeOK
    <3> QED
      BY <2>1, <3>3 DEF TypeOK, HistoryTypeOK
  <2> QED
    BY <1>2, <2>2, <2>3 DEF RowStart, GetNextWriteChunk, UseNextChunk, AddChunk
<1>3. ASSUME NEW p \in Producers, RowEnd(p)
      PROVE  HistoryTypeOK'
  BY <1>3 DEF RowEnd, TypeOK, HistoryTypeOK
<1>4. ASSUME NEW p \in Producers, ClearLoss(p)
      PROVE  HistoryTypeOK'
  BY <1>4 DEF ClearLoss, TypeOK, HistoryTypeOK, ProducerTypeOK
<1>5. ASSUME NEW p \in Producers,
             StoreLoss(p) \/ RowEndRefused(p) \/ RowAbort(p) \/ RowEndFailed(p) \/ LoadLoss(p)
      PROVE  HistoryTypeOK'
  BY <1>1, <1>5 DEF StoreLoss, RowEndRefused, RowAbort, RowEndFailed, LoadLoss
<1>6. ASSUME NEW n \in 0..TargetBufSize, WriteOk(n)
      PROVE  HistoryTypeOK'
  <2>1. UNCHANGED <<accepted, lost, reported>>
    BY <1>6 DEF WriteOk, ReaderKeeps
  <2>2. buf[chunk] \in Seq(Nat) /\ sent \in Nat /\ n \in 0..(Len(buf[chunk]) - sent)
    BY <1>6 DEF WriteOk, TypeOK, ChainTypeOK, ReaderTypeOK
  <2>3. \A i \in (sent + 1)..(sent + n) : i \in 1..Len(buf[chunk])
    BY <2>2
  <2>4. {buf[chunk][i] : i \in (sent + 1)..(sent + n)} \subseteq Nat
    BY <2>2, <2>3
  <2>5. delivered' \subseteq Nat
    BY <1>6, <2>4 DEF WriteOk, TypeOK, HistoryTypeOK
  <2> QED
    BY <2>1, <2>5 DEF TypeOK, HistoryTypeOK
<1>7. CASE CloseBegin \/ CloseEnd \/ UNCHANGED vars
  BY <1>1, <1>7 DEF CloseBegin, CloseEnd, vars
<1>8. CASE ReaderCheck \/ ReaderWait \/ ReaderWake \/ SpuriousWakeup \/ SkipEmptyChunk
           \/ StillBackingOff \/ BeginChunk \/ WriteFail
  BY <1>1, <1>8 DEF ReaderCheck, ReaderWait, ReaderWake, SpuriousWakeup, SkipEmptyChunk,
    StillBackingOff, BeginChunk, WriteFail, ReaderKeeps, history
<1>9. CASE EndChunk \/ WalkOn \/ DrainOn \/ DrainSleep \/ CoolDown
  BY <1>1, <1>9 DEF EndChunk, WalkOn, DrainOn, DrainSleep, CoolDown, ReaderKeeps, history
<1> QED
  BY <1>2, <1>3, <1>4, <1>5, <1>6, <1>7, <1>8, <1>9 DEF Next, Elsewhere, ProducerStep, ReaderLoop, Write

(* The variables keep their types, and with them the widths of the         *)
(* back-off counter and of the chain, in every step of every thread.       *)
THEOREM TypeCorrect == Spec => []TypeOK
<1>1. Init => TypeOK
  <2> SUFFICES ASSUME Init PROVE TypeOK
    OBVIOUS
  <2>1. ChainTypeOK
    BY ConstantsAssumption DEF Init, ChainTypeOK, Chunks
  <2>2. ProducerTypeOK /\ ControlTypeOK
    BY DEF Init, ProducerTypeOK, ControlTypeOK, Threads
  <2>3. ReaderTypeOK /\ HistoryTypeOK
    BY ConstantsAssumption DEF Init, ReaderTypeOK, HistoryTypeOK, Chunks
  <2> QED
    BY <2>1, <2>2, <2>3 DEF TypeOK
<1>2. TypeOK /\ [Next]_vars => TypeOK'
  BY ChainTypeStep, ProducerTypeStep, ControlTypeStep, ReaderTypeStep, HistoryTypeStep
  DEF TypeOK
<1> QED
  BY <1>1, <1>2, PTL DEF Spec

-----------------------------------------------------------------------------
(* Mutual exclusion of rows and reading.  The reader holds the lock during *)
(* the walk of its main loop but not in the drain loop; what protects the  *)
(* chain there is that row_start finds the writer inactive, and that       *)
(* bw_close took the lock to make it so: no row is open once active is 0.  *)

ReaderAtChain == rpc \in {"scan", "send", "next"}

LockInv ==
  /\ \A p \in Producers : InRow(p) => lock = p /\ active = 1
  /\ loop = "main" /\ ReaderAtChain => lock = ReaderThread
  /\ loop = "drain" => active = 0
  /\ rpc \in {"check", "lock", "wait", "woken"} => loop = "main"
  /\ rpc = "sleep" => loop = "drain"
  /\ \A c \in Chunks : reading[c] = 1 => c = chunk /\ rpc = "send"

(* While the reader is at the chain no row is open and none can be started. *)
LEMMA NoRowWhileReading ==
  ASSUME TypeOK, LockInv, ReaderAtChain, NEW p \in Producers
  PROVE  ~InRow(p) /\ ~(lock = NoThread /\ active = 1)
<1>1. CASE loop = "main"
  BY <1>1, ConstantsAssumption DEF LockInv
<1>2. CASE loop = "drain"
  BY <1>2 DEF LockInv
<1> QED
  BY <1>1, <1>2 DEF TypeOK, ControlTypeOK

(* The mutex has one holder, and who holds it is where the code has locked *)
(* it.                                                                     *)
LEMMA LockStep ==
  ASSUME TypeOK, LockInv, [Next]_vars
  PROVE  LockInv'
<1>1. ASSUME NEW p \in Producers, RowStart(p)
      PROVE  LockInv'
  <2>1. /\ lock = NoThread /\ lock' = p /\ UNCHANGED <<active, readerVars>>
        /\ \A q \in Producers : q # p => pc'[q] = pc[q]
        /\ active = 0 => pc' = [pc EXCEPT ![p] = "failed"]
    BY <1>1 DEF RowStart, GetNextWriteChunk, UseNextChunk, AddChunk, DropNextChunk, TypeOK,
                ControlTypeOK, ProducerTypeOK
  <2>2. \A q \in Producers : InRow(q)' => lock' = q /\ active' = 1
    BY <2>1, ConstantsAssumption DEF LockInv, InRow, TypeOK, ProducerTypeOK, ControlTypeOK
  <2>3. ~(loop = "main" /\ ReaderAtChain)
    BY <2>1, ConstantsAssumption DEF LockInv
  <2> QED
    BY <2>1, <2>2, <2>3 DEF LockInv, ReaderAtChain, readerVars
<1>2. ASSUME NEW p \in Producers, RowEnd(p) \/ RowEndRefused(p)
      PROVE  LockInv'
  <2>1. InRow(p) /\ lock = p /\ active = 1
    BY <1>2 DEF RowEnd, RowEndRefused, InRow, LockInv
  <2>2. \A q \in Producers : ~InRow(q)'
    BY <1>2, <2>1 DEF RowEnd, RowEndRefused, LockInv, InRow, TypeOK, ProducerTypeOK
  <2>3. rpc' = Signalled /\ UNCHANGED <<active, loop, chunk, reading>>
    BY <1>2 DEF RowEnd, RowEndRefused, Signal
  <2> QED
    BY <2>1, <2>2, <2>3, ConstantsAssumption DEF LockInv, Signalled, ReaderAtChain
<1>3. ASSUME NEW p \in Producers, ProducerStep(p), ~RowStart(p), ~RowEnd(p), ~RowEndRefused(p)
      PROVE  LockInv'
  <2>1. UNCHANGED <<active, lock, readerVars>>
    BY <1>3 DEF ProducerStep, StoreLoss, RowAbort, RowEndFailed, LockAfterFailedRow, LoadLoss,
                ClearLoss
  <2>2. \A q \in Producers : InRow(q)' => InRow(q)
    BY <1>3 DEF ProducerStep, StoreLoss, RowAbort, RowEndFailed, LoadLoss, ClearLoss, InRow,
                TypeOK, ProducerTypeOK
  <2> QED
    BY <2>1, <2>2 DEF LockInv, ReaderAtChain, readerVars
<1>4. CASE CloseBegin
  <2>1. \A q \in Producers : ~InRow(q)
    BY <1>4, ConstantsAssumption DEF CloseBegin, LockInv
  <2>2. UNCHANGED <<lock, pc, loop, chunk, reading>> /\ active' = 0 /\ rpc' = Signalled
    BY <1>4 DEF CloseBegin, Signal
  <2> QED
    BY <2>1, <2>2 DEF LockInv, Signalled, ReaderAtChain, InRow
<1>5. CASE CloseEnd \/ CoolDown \/ UNCHANGED vars
  <2>1. UNCHANGED <<active, lock, pc, rpc, loop, chunk, reading>>
    BY <1>5 DEF CloseEnd, CoolDown, ReaderKeeps, vars, readerVars
  <2> QED
    BY <2>1 DEF LockInv, ReaderAtChain, InRow
<1>6. CASE ReaderCheck
  BY <1>6 DEF ReaderCheck, ReaderKeeps, LockInv, ReaderAtChain, InRow, TypeOK, ControlTypeOK
<1>7. CASE ReaderWait \/ SpuriousWakeup
  BY <1>7 DEF ReaderWait, SpuriousWakeup, ReaderKeeps, LockInv, ReaderAtChain, InRow
<1>8. CASE ReaderWake
  BY <1>8, ConstantsAssumption DEF ReaderWake, ReaderKeeps, LockInv, ReaderAtChain, InRow
<1>9. ASSUME UNCHANGED <<active, lock, pc, loop, chunk>>, ReaderAtChain,
             rpc' \notin {"check", "lock", "wait", "woken", "sleep"},
             \A c \in Chunks : reading'[c] = 1 => c = chunk /\ rpc' = "send"
      PROVE  LockInv'
  BY <1>9 DEF LockInv, ReaderAtChain, InRow
<1>10. CASE SkipEmptyChunk \/ StillBackingOff
  BY <1>9, <1>10 DEF SkipEmptyChunk, StillBackingOff, CallsProcessChunk, ReaderKeeps, LockInv,
                     ReaderAtChain
<1>11. CASE BeginChunk
  BY <1>9, <1>11 DEF BeginChunk, CallsProcessChunk, ReaderKeeps, LockInv, ReaderAtChain,
                     TypeOK, ChainTypeOK
<1>12. ASSUME NEW n \in 0..TargetBufSize, WriteOk(n)
       PROVE  LockInv'
  BY <1>9, <1>12 DEF WriteOk, ReaderKeeps, LockInv, ReaderAtChain
<1>13. CASE WriteFail \/ EndChunk
  <2>1. UNCHANGED <<active, lock, pc, loop, chunk>> /\ rpc = "send" /\ rpc' = "next"
        /\ reading' = [reading EXCEPT ![chunk] = 0]
    BY <1>13 DEF WriteFail, EndChunk, ReaderKeeps
  <2>2. \A c \in Chunks : reading'[c] # 1
    BY <2>1 DEF LockInv, TypeOK, ChainTypeOK
  <2> QED
    BY <1>9, <2>1, <2>2 DEF ReaderAtChain
<1>14. ASSUME rpc \in {"next", "sleep"} PROVE \A c \in Chunks : reading[c] # 1
  BY <1>14 DEF LockInv
<1>15. CASE WalkOn
  <2>1. \A q \in Producers : ~InRow(q)
    BY <1>15, NoRowWhileReading DEF WalkOn, ReaderAtChain
  <2>2. UNCHANGED <<active, pc, loop, reading>> /\ loop = "main" /\ rpc = "next"
    BY <1>15 DEF WalkOn, ReaderKeeps
  <2>3. \/ rpc' = "scan" /\ lock' = lock
        \/ rpc' = "check"
    BY <1>15 DEF WalkOn
  <2> QED
    BY <2>1, <2>2, <2>3, <1>14 DEF LockInv, ReaderAtChain, InRow
<1>16. CASE DrainOn \/ DrainSleep
  <2>1. UNCHANGED <<active, lock, pc, loop, reading>> /\ rpc \in {"next", "sleep"}
    BY <1>16 DEF DrainOn, DrainSleep, ReaderKeeps
  <2>2. loop = "drain" /\ rpc' \in {"scan", "sleep", "done"}
    BY <1>16 DEF DrainOn, DrainSleep, LockInv
  <2> QED
    BY <2>1, <2>2, <1>14 DEF LockInv, InRow
<1> QED
  BY <1>1, <1>2, <1>3, <1>4, <1>5, <1>6, <1>7, <1>8, <1>10, <1>11, <1>12, <1>13, <1>15, <1>16
  DEF Next, Elsewhere, ReaderLoop, Write

(* While processChunk reads a chunk no row is open, and the assertion of   *)
(* getNextWriteChunk that the chunk it drops is not being read holds, for  *)
(* any number of producers and whatever the out stream answers.            *)
THEOREM ReadingIsExclusive == Spec => []ReadingExcludesWriting
<1>1. Init => LockInv
  BY ConstantsAssumption DEF Init, LockInv, InRow, ReaderAtChain
<1>2. TypeOK /\ LockInv /\ [Next]_vars => LockInv'
  BY LockStep
<1>3. TypeOK /\ LockInv => ReadingExcludesWriting
  BY NoRowWhileReading DEF LockInv, ReadingExcludesWriting, ReaderAtChain
<1> QED
  BY <1>1, <1>2, <1>3, TypeCorrect, PTL DEF Spec

-----------------------------------------------------------------------------
(* No row is lost track of.                                                *)

(* What processChunk has sent of the chunk it is reading stays in place    *)
(* until it clears the chunk.                                              *)
SendInv ==
  rpc = "send" =>
    /\ sent <= Len(buf[chunk])
    /\ \A i \in 1..sent : buf[chunk][i] \in delivered

(* The effect of a step on the rows: none leaves a chunk unaccounted for.  *)
LEMMA RowsStayAccountedFor ==
  ASSUME EveryRowAccountedFor,
         accepted' = accepted,
         delivered \subseteq delivered',
         \A m \in 1..accepted : Dropped(m) => Dropped(m)',
         \A m \in 1..accepted : Queued(m) => Queued(m)' \/ m \in delivered' \/ Dropped(m)'
  PROVE  EveryRowAccountedFor'
BY DEF EveryRowAccountedFor

(* What the reader has sent of its chunk is delivered, and nobody empties  *)
(* that chunk meanwhile.                                                   *)
LEMMA SendStep ==
  ASSUME TypeOK, LockInv, SendInv, [Next]_vars
  PROVE  SendInv'
<1>1. ASSUME UNCHANGED <<buf, chunk, sent, delivered>>, rpc' = "send" => rpc = "send"
      PROVE  SendInv'
  BY <1>1 DEF SendInv
<1>2. ASSUME NEW p \in Producers, RowStart(p)
      PROVE  SendInv'
  <2>1. UNCHANGED <<active, rpc, chunk, sent, delivered>> /\ lock = NoThread
    BY <1>2 DEF RowStart, readerVars
  <2>2. CASE rpc = "send"
    <3>1. UNCHANGED buf
      BY <1>2, <2>1, <2>2, NoRowWhileReading DEF RowStart, ReaderAtChain, chain
    <3> QED
      BY <1>1, <2>1, <3>1
  <2> QED
    BY <2>1, <2>2 DEF SendInv
<1>3. ASSUME NEW p \in Producers, RowEnd(p) \/ RowEndRefused(p)
      PROVE  SendInv'
  <2>1. rpc # "send"
    BY <1>3, NoRowWhileReading DEF RowEnd, RowEndRefused, InRow, ReaderAtChain
  <2> QED
    BY <1>3, <2>1 DEF RowEnd, RowEndRefused, Signal, Signalled, SendInv
<1>4. ASSUME NEW p \in Producers, ProducerStep(p), ~RowStart(p), ~RowEnd(p), ~RowEndRefused(p)
      PROVE  SendInv'
  BY <1>1, <1>4 DEF ProducerStep, StoreLoss, RowAbort, RowEndFailed, LoadLoss, ClearLoss,
                    readerVars, chain, history
<1>5. CASE CloseBegin \/ CloseEnd \/ CoolDown \/ UNCHANGED vars
  BY <1>1, <1>5 DEF CloseBegin, CloseEnd, CoolDown, Signal, Signalled, ReaderKeeps, vars,
                    readerVars, chain, history
<1>6. CASE BeginChunk
  <2>1. sent' = 0 /\ UNCHANGED <<buf, chunk>> /\ buf[chunk] \in Seq(Nat)
    BY <1>6 DEF BeginChunk, ReaderKeeps, chain, TypeOK, ChainTypeOK, ReaderTypeOK
  <2> QED
    BY <2>1 DEF SendInv
<1>7. ASSUME NEW n \in 0..TargetBufSize, WriteOk(n)
      PROVE  SendInv'
  <2>1. /\ rpc = "send" /\ sent' = sent + n /\ UNCHANGED <<buf, chunk>>
        /\ delivered' = delivered \cup {buf[chunk][i] : i \in (sent + 1)..(sent + n)}
        /\ n \in 0..(Len(buf[chunk]) - sent)
    BY <1>7 DEF WriteOk, ReaderKeeps, chain
  <2>2. sent \in Nat /\ Len(buf[chunk]) \in Nat
    BY DEF TypeOK, ReaderTypeOK, ChainTypeOK
  <2>3. \A i \in 1..(sent + n) : i \in 1..sent \/ i \in (sent + 1)..(sent + n)
    BY <2>1, <2>2
  <2>4. \A i \in 1..(sent + n) : buf[chunk][i] \in delivered'
    BY <2>1, <2>3 DEF SendInv
  <2>5. sent + n <= Len(buf[chunk])
    BY <2>1, <2>2
  <2> QED
    BY <2>1, <2>4, <2>5 DEF SendInv
<1>8. CASE rpc' # "send"
  BY <1>8 DEF SendInv
<1>9. CASE ReaderCheck \/ ReaderWait \/ ReaderWake \/ SpuriousWakeup \/ SkipEmptyChunk
           \/ StillBackingOff \/ WriteFail \/ EndChunk \/ WalkOn \/ DrainOn \/ DrainSleep
  BY <1>8, <1>9 DEF ReaderCheck, ReaderWait, ReaderWake, SpuriousWakeup, SkipEmptyChunk,
    StillBackingOff, WriteFail, EndChunk, WalkOn, DrainOn, DrainSleep
<1> QED
  BY <1>2, <1>3, <1>4, <1>5, <1>6, <1>7, <1>9 DEF Next, Elsewhere, ReaderLoop, Write

(* Every accepted row stays in a chunk, delivered or counted as lost.      *)
LEMMA AccountStep ==
  ASSUME TypeOK, SendInv, EveryRowAccountedFor, [Next]_vars
  PROVE  EveryRowAccountedFor'
<1>1. ASSUME UNCHANGED <<buf, accepted, lost>>, delivered \subseteq delivered'
      PROVE  EveryRowAccountedFor'
  BY <1>1, RowsStayAccountedFor DEF Queued, Dropped
<1>2. ASSUME NEW p \in Producers, RowStart(p)
      PROVE  EveryRowAccountedFor'
  <2>1. UNCHANGED <<accepted, delivered>>
    BY <1>2 DEF RowStart
  <2>2. CASE UNCHANGED <<buf, lost>>
    BY <1>1, <2>1, <2>2
  <2>3. CASE DropNextChunk(p)
    <3> DEFINE c == next[writerChunk]
    <3>1. /\ c \in Chunks /\ buf \in [Chunks -> Seq(Nat)]
          /\ lost \in Seq(Nat) /\ buf[c] \in Seq(Nat)
      BY DEF TypeOK, ChainTypeOK, HistoryTypeOK
    <3>2. lost' = lost \o buf[c] /\ buf' = [buf EXCEPT ![c] = << >>]
      BY <2>3 DEF DropNextChunk
    <3>3. \A i \in 1..Len(lost) : i \in 1..Len(lost') /\ lost'[i] = lost[i]
      BY <3>1, <3>2
    <3>4. \A i \in 1..Len(buf[c]) :
            Len(lost) + i \in 1..Len(lost') /\ lost'[Len(lost) + i] = buf[c][i]
      BY <3>1, <3>2
    <3>5. \A m : Dropped(m) => Dropped(m)'
      BY <3>3 DEF Dropped
    <3>6. ASSUME NEW m, Queued(m) PROVE Queued(m)' \/ Dropped(m)'
      <4>1. PICK d \in Chunks : \E i \in 1..Len(buf[d]) : buf[d][i] = m
        BY <3>6 DEF Queued
      <4>2. CASE d = c
        BY <3>4, <4>1, <4>2 DEF Dropped
      <4>3. CASE d # c
        BY <3>1, <3>2, <4>1, <4>3 DEF Queued
      <4> QED
        BY <4>2, <4>3
    <3> QED
      BY <2>1, <3>5, <3>6, RowsStayAccountedFor
  <2> QED
    BY <1>2, <2>2, <2>3 DEF RowStart, GetNextWriteChunk, UseNextChunk, AddChunk, chain
<1>3. ASSUME NEW p \in Producers, RowEnd(p)
      PROVE  EveryRowAccountedFor'
  <2>1. /\ accepted' = accepted + 1 /\ UNCHANGED <<delivered, lost>>
        /\ buf' = [buf EXCEPT ![writerChunk] = Append(@, accepted + 1)]
    BY <1>3 DEF RowEnd
  <2>2. /\ buf \in [Chunks -> Seq(Nat)] /\ writerChunk \in Chunks
        /\ buf[writerChunk] \in Seq(Nat) /\ accepted \in Nat
    BY DEF TypeOK, ChainTypeOK, HistoryTypeOK
  <2>3. /\ Len(buf'[writerChunk]) = Len(buf[writerChunk]) + 1
        /\ buf'[writerChunk][Len(buf[writerChunk]) + 1] = accepted + 1
        /\ \A i \in 1..Len(buf[writerChunk]) : buf'[writerChunk][i] = buf[writerChunk][i]
    BY <2>1, <2>2
  <2>4. Queued(accepted)'
    BY <2>1, <2>2, <2>3 DEF Queued
  <2>5. \A c \in Chunks : \A i \in 1..Len(buf[c]) :
          i \in 1..Len(buf'[c]) /\ buf'[c][i] = buf[c][i]
    BY <2>1, <2>2, <2>3
  <2>6. \A m : Queued(m) => Queued(m)'
    BY <2>5 DEF Queued
  <2>7. \A m \in 1..(accepted + 1) : m \in 1..accepted \/ m = accepted + 1
    BY <2>2
  <2> QED
    BY <2>1, <2>4, <2>6, <2>7 DEF EveryRowAccountedFor, Dropped
<1>4. ASSUME NEW p \in Producers, ProducerStep(p), ~RowStart(p), ~RowEnd(p)
      PROVE  EveryRowAccountedFor'
  BY <1>1, <1>4 DEF ProducerStep, StoreLoss, RowEndRefused, RowAbort, RowEndFailed, LoadLoss, ClearLoss,
                    chain, history
<1>5. CASE CloseBegin \/ CloseEnd \/ UNCHANGED vars
  BY <1>1, <1>5 DEF CloseBegin, CloseEnd, vars, chain, history
<1>6. CASE EndChunk
  <2>1. /\ rpc = "send" /\ sent = Len(buf[chunk]) /\ UNCHANGED history
        /\ buf' = [buf EXCEPT ![chunk] = << >>]
    BY <1>6 DEF EndChunk, ChunkSent
  <2>2. \A i \in 1..Len(buf[chunk]) : buf[chunk][i] \in delivered
    BY <2>1 DEF SendInv
  <2>3. buf \in [Chunks -> Seq(Nat)]
    BY DEF TypeOK, ChainTypeOK
  <2>4. ASSUME NEW m, Queued(m) PROVE Queued(m)' \/ m \in delivered
    <3>1. PICK d \in Chunks : \E i \in 1..Len(buf[d]) : buf[d][i] = m
      BY <2>4 DEF Queued
    <3>2. CASE d = chunk
      BY <2>2, <3>1, <3>2
    <3>3. CASE d # chunk
      BY <2>1, <2>3, <3>1, <3>3 DEF Queued
    <3> QED
      BY <3>2, <3>3
  <2> QED
    BY <2>1, <2>4, RowsStayAccountedFor DEF history, Dropped
<1>7. ASSUME NEW n \in 0..TargetBufSize, WriteOk(n)
      PROVE  EveryRowAccountedFor'
  BY <1>1, <1>7 DEF WriteOk, ReaderKeeps, chain
<1>8. CASE ReaderCheck \/ ReaderWait \/ ReaderWake \/ SpuriousWakeup \/ SkipEmptyChunk
           \/ StillBackingOff \/ BeginChunk \/ WriteFail
  BY <1>1, <1>8 DEF ReaderCheck, ReaderWait, ReaderWake, SpuriousWakeup, SkipEmptyChunk,
    StillBackingOff, BeginChunk, WriteFail, ReaderKeeps, chain
<1>9. CASE WalkOn \/ DrainOn \/ DrainSleep \/ CoolDown
  BY <1>1, <1>9 DEF WalkOn, DrainOn, DrainSleep, CoolDown, ReaderKeeps, chain
<1> QED
  BY <1>2, <1>3, <1>4, <1>5, <1>6, <1>7, <1>8, <1>9 DEF Next, Elsewhere, ReaderLoop, Write

(* Every row for which row_end succeeded is queued, delivered or dropped   *)
(* with its chunk, for any number of producers, chunks and rows.           *)
THEOREM NoRowVanishes == Spec => []EveryRowAccountedFor
<1>1. Init => LockInv /\ SendInv /\ EveryRowAccountedFor
  BY ConstantsAssumption DEF Init, LockInv, InRow, ReaderAtChain, SendInv, EveryRowAccountedFor
<1>2. TypeOK /\ LockInv /\ [Next]_vars => LockInv'
  BY LockStep
<1>3. TypeOK /\ LockInv /\ SendInv /\ [Next]_vars => SendInv'
  BY SendStep
<1>4. TypeOK /\ SendInv /\ EveryRowAccountedFor /\ [Next]_vars => EveryRowAccountedFor'
  BY AccountStep
<1> QED
  BY <1>1, <1>2, <1>3, <1>4, TypeCorrect, PTL DEF Spec

-----------------------------------------------------------------------------
(* No loss goes unreported when a single thread calls omlc_inject.         *)

(* The message count of a chunk covers the rows it holds.  The reader      *)
(* empties chunks without touching the count.                              *)
CountInv == \A c \in Chunks : Len(buf[c]) <= nmessages[c]

(* The loss counter at each point of its two read-modify-write sequences.  *)
LossInv ==
  \A p \in Producers :
    /\ pc[p] = "drop" => Len(lost) <= reg[p] + reported
    /\ pc[p] = "reset" => reg[p] = nlost
    /\ pc[p] # "drop" => Len(lost) <= nlost + reported

(* nmessages is the number of rows of each chunk, whoever swaps the        *)
(* chunks.                                                                 *)
LEMMA CountStep ==
  ASSUME TypeOK, CountInv, [Next]_vars
  PROVE  CountInv'
<1>1. ASSUME UNCHANGED <<buf, nmessages>>
      PROVE  CountInv'
  BY <1>1 DEF CountInv
<1>2. /\ buf \in [Chunks -> Seq(Nat)] /\ nmessages \in [Chunks -> Nat]
      /\ writerChunk \in Chunks /\ next[writerChunk] \in Chunks /\ chunk \in Chunks
      /\ accepted \in Nat
  BY DEF TypeOK, ChainTypeOK, ReaderTypeOK, HistoryTypeOK
<1>3. ASSUME NEW p \in Producers, RowStart(p)
      PROVE  CountInv'
  <2>1. CASE UNCHANGED <<buf, nmessages>>
    BY <1>1, <2>1
  <2>2. CASE UseNextChunk(p) \/ DropNextChunk(p)
    <3>1. /\ nmessages' = [nmessages EXCEPT ![next[writerChunk]] = 0]
          /\ buf' = [buf EXCEPT ![next[writerChunk]] = << >>]
      BY <1>2, <2>2 DEF UseNextChunk, DropNextChunk
    <3> QED
      BY <1>2, <3>1 DEF CountInv
  <2> QED
    BY <1>3, <2>1, <2>2 DEF RowStart, GetNextWriteChunk, AddChunk, chain
<1>4. ASSUME NEW p \in Producers, RowEnd(p)
      PROVE  CountInv'
  <2>1. /\ nmessages' = [nmessages EXCEPT ![writerChunk] = @ + 1]
        /\ buf' = [buf EXCEPT ![writerChunk] = Append(@, accepted + 1)]
    BY <1>4 DEF RowEnd
  <2>2. Len(buf'[writerChunk]) = Len(buf[writerChunk]) + 1
    BY <1>2, <2>1
  <2> QED
    BY <1>2, <2>1, <2>2 DEF CountInv
<1>10. ASSUME NEW p \in Producers, RowEndRefused(p)
       PROVE  CountInv'
  <2>1. nmessages' = [nmessages EXCEPT ![writerChunk] = @ + 1] /\ UNCHANGED buf
    BY <1>10 DEF RowEndRefused
  <2>2. \A c \in Chunks : nmessages[c] <= nmessages'[c]
    BY <1>2, <2>1
  <2> QED
    BY <1>2, <2>1, <2>2 DEF CountInv
<1>5. ASSUME NEW p \in Producers, ProducerStep(p), ~RowStart(p), ~RowEnd(p), ~RowEndRefused(p)
      PROVE  CountInv'
  BY <1>1, <1>5 DEF ProducerStep, StoreLoss, RowAbort, RowEndFailed, LoadLoss, ClearLoss, chain
<1>6. CASE EndChunk
  <2>1. buf' = [buf EXCEPT ![chunk] = << >>] /\ UNCHANGED nmessages
    BY <1>6 DEF EndChunk
  <2> QED
    BY <1>2, <2>1 DEF CountInv
<1>7. CASE CloseBegin \/ CloseEnd \/ SpuriousWakeup \/ CoolDown \/ UNCHANGED vars
  BY <1>1, <1>7 DEF CloseBegin, CloseEnd, SpuriousWakeup, CoolDown, ReaderKeeps, vars, chain
<1>8. CASE (ReaderLoop \/ Write) /\ ~EndChunk
  BY <1>1, <1>8 DEF ReaderLoop, Write, ReaderCheck, ReaderWait, ReaderWake, SkipEmptyChunk,
    StillBackingOff, BeginChunk, WriteOk, WriteFail, WalkOn, DrainOn, DrainSleep, ReaderKeeps,
    chain
<1> QED
  BY <1>3, <1>4, <1>5, <1>6, <1>7, <1>8, <1>10 DEF Next, Elsewhere

(* With one producer, the loss counter and what was reported make up the   *)
(* rows lost.                                                              *)
LEMMA LossStep ==
  ASSUME TypeOK, CountInv, LossInv, [Next]_vars,
         \A p, q \in Producers : p = q
  PROVE  LossInv'
<1>1. ASSUME UNCHANGED <<pc, reg, nlost, lost, reported>>
      PROVE  LossInv'
  BY <1>1 DEF LossInv
<1>2. /\ pc \in [Producers -> {"idle", "row", "drop", "failed", "reset"}]
      /\ reg \in [Producers -> Nat] /\ nlost \in Nat /\ reported \in Nat
      /\ lost \in Seq(Nat) /\ Len(lost) \in Nat
  BY DEF TypeOK, ProducerTypeOK, HistoryTypeOK
<1>3. ASSUME NEW p \in Producers, RowStart(p)
      PROVE  LossInv'
  <2>1. pc[p] = "idle" /\ UNCHANGED <<nlost, reported>>
    BY <1>3 DEF RowStart
  <2>2. CASE UNCHANGED <<reg, lost>> /\ \E l \in {"failed", "row"} : pc' = [pc EXCEPT ![p] = l]
    BY <1>2, <2>1, <2>2 DEF LossInv
  <2>3. CASE DropNextChunk(p)
    <3> DEFINE c == next[writerChunk]
    <3>1. /\ pc' = [pc EXCEPT ![p] = "drop"] /\ lost' = lost \o buf[c]
          /\ reg' = [reg EXCEPT ![p] = nlost + nmessages[c]]
      BY <2>3 DEF DropNextChunk, DroppedCount
    <3>2. /\ buf[c] \in Seq(Nat) /\ nmessages[c] \in Nat /\ Len(buf[c]) \in Nat
          /\ Len(buf[c]) <= nmessages[c]
      BY DEF TypeOK, ChainTypeOK, CountInv
    <3>3. Len(lost') = Len(lost) + Len(buf[c])
      BY <1>2, <3>1, <3>2
    <3>4. Len(lost) <= nlost + reported
      BY <2>1 DEF LossInv
    <3>5. Len(lost') <= nlost + nmessages[c] + reported
      BY <1>2, <3>2, <3>3, <3>4
    <3>6. reg'[p] = nlost + nmessages[c] /\ pc'[p] = "drop"
      BY <1>2, <3>1
    <3> QED
      BY <1>2, <2>1, <3>2, <3>5, <3>6 DEF LossInv
  <2> QED
    BY <1>3, <2>2, <2>3 DEF RowStart, GetNextWriteChunk, UseNextChunk, AddChunk
<1>4. ASSUME NEW p \in Producers,
             RowEnd(p) \/ RowEndRefused(p) \/ RowAbort(p) \/ RowEndFailed(p)
      PROVE  LossInv'
  <2>1. /\ pc[p] \in {"row", "failed"} /\ UNCHANGED <<reg, nlost, lost, reported>>
        /\ \E l \in {"failed", "idle"} : pc' = [pc EXCEPT ![p] = l]
    BY <1>4 DEF RowEnd, RowEndRefused, RowAbort, RowEndFailed, history
  <2> QED
    BY <1>2, <2>1 DEF LossInv
<1>5. ASSUME NEW p \in Producers, StoreLoss(p)
      PROVE  LossInv'
  <2>1. /\ pc[p] = "drop" /\ pc' = [pc EXCEPT ![p] = "row"]
        /\ nlost' = reg[p] /\ UNCHANGED <<lost, reported>>
    BY <1>5 DEF StoreLoss, history
  <2> QED
    BY <1>2, <2>1 DEF LossInv
<1>6. ASSUME NEW p \in Producers, LoadLoss(p)
      PROVE  LossInv'
  <2>1. /\ pc[p] = "idle" /\ pc' = [pc EXCEPT ![p] = "reset"]
        /\ reg' = [reg EXCEPT ![p] = nlost] /\ UNCHANGED <<nlost, lost, reported>>
    BY <1>6 DEF LoadLoss, history
  <2> QED
    BY <1>2, <2>1 DEF LossInv
<1>7. ASSUME NEW p \in Producers, ClearLoss(p)
      PROVE  LossInv'
  <2>1. /\ pc[p] = "reset" /\ pc' = [pc EXCEPT ![p] = "idle"]
        /\ nlost' = 0 /\ reported' = reported + reg[p] /\ UNCHANGED lost
    BY <1>7 DEF ClearLoss
  <2>2. Len(lost) <= 0 + reported'
    BY <1>2, <2>1 DEF LossInv
  <2> QED
    BY <1>2, <2>1, <2>2 DEF LossInv
<1>8. CASE CloseBegin \/ CloseEnd \/ SpuriousWakeup \/ CoolDown \/ UNCHANGED vars
  BY <1>1, <1>8 DEF CloseBegin, CloseEnd, SpuriousWakeup, CoolDown, ReaderKeeps, vars, history
<1>9. CASE ReaderLoop \/ Write
  BY <1>1, <1>9 DEF ReaderLoop, Write, ReaderCheck, ReaderWait, ReaderWake, SkipEmptyChunk,
    StillBackingOff, BeginChunk, WriteOk, WriteFail, EndChunk, WalkOn, DrainOn, DrainSleep,
    ReaderKeeps, history
<1> QED
  BY <1>3, <1>4, <1>5, <1>6, <1>7, <1>8, <1>9 DEF Next, Elsewhere, ProducerStep

(* With one producer the unlocked reset of nlost races with nobody, and    *)
(* every dropped row is in a count omlc_inject was told or will be told.   *)
(* The assumption is needed: TLC refutes the property for two producers.   *)
THEOREM LossReportedToSingleProducer ==
  ASSUME \A p, q \in Producers : p = q,
         Producers # {}
  PROVE  Spec => []LossIsReported
<1>1. Init => CountInv /\ LossInv
  BY DEF Init, CountInv, LossInv
<1>2. TypeOK /\ CountInv /\ [Next]_vars => CountInv'
  BY CountStep
<1>3. TypeOK /\ CountInv /\ LossInv /\ [Next]_vars => LossInv'
  BY LossStep
<1>4. LossInv => LossIsReported
  BY DEF LossInv, LossIsReported
<1> QED
  BY <1>1, <1>2, <1>3, <1>4, TypeCorrect, PTL DEF Spec

-----------------------------------------------------------------------------
(* The queue as a whole: rows get newer along the chain, and the reader    *)
(* leaves none behind that the writer did not overtake and drop.           *)

(* What a step does to the queue: rows are taken by the out stream, a      *)
(* chunk is cleared, a row is added, or the writer moves to the next chunk, *)
(* to a new one, or to one whose rows it drops.                            *)
Delivers ==
  /\ rpc = "send"
  /\ \E n \in 0..(Len(buf[chunk]) - sent) :
       delivered' = delivered \cup {buf[chunk][i] : i \in (sent + 1)..(sent + n)}
  /\ UNCHANGED <<accepted, lost, chain, chunk>>

Clears ==
  /\ rpc = "send" /\ sent = Len(buf[chunk])
  /\ buf' = [buf EXCEPT ![chunk] = << >>]
  /\ UNCHANGED <<accepted, delivered, lost, next, unallocatedBuffers, writerChunk, chunk>>

Accepts ==
  /\ ~ReaderAtChain /\ active = 1
  /\ accepted' = accepted + 1
  /\ buf' = [buf EXCEPT ![writerChunk] = Append(@, accepted + 1)]
  /\ UNCHANGED <<delivered, lost, next, unallocatedBuffers, writerChunk, chunk>>

WriterLeaves ==
  /\ ~ReaderAtChain /\ active = 1 /\ buf[writerChunk] # << >>
  /\ UNCHANGED <<accepted, delivered, chunk>>

Takes ==
  /\ WriterLeaves /\ buf[next[writerChunk]] = << >>
  /\ writerChunk' = next[writerChunk]
  /\ UNCHANGED <<lost, buf, next, unallocatedBuffers>>

Adds ==
  LET new == MaxChunks - unallocatedBuffers + 1 IN
  /\ WriterLeaves /\ unallocatedBuffers > 0
  /\ next' = [next EXCEPT ![new] = next[writerChunk], ![writerChunk] = new]
  /\ writerChunk' = new
  /\ unallocatedBuffers' = unallocatedBuffers - 1
  /\ UNCHANGED <<lost, buf>>

Drops ==
  LET c == next[writerChunk] IN
  /\ WriterLeaves /\ buf[c] # << >>
  /\ writerChunk' = c
  /\ buf' = [buf EXCEPT ![c] = << >>]
  /\ lost' = lost \o buf[c]
  /\ UNCHANGED <<next, unallocatedBuffers>>

Queues == UNCHANGED <<accepted, delivered, lost, buf, next, unallocatedBuffers, writerChunk>>

Walks == Queues /\ rpc = "next" /\ MayAdvance /\ chunk' = next[chunk]

(* Every step of the writer is one of these forms.                         *)
LEMMA QueueForms ==
  ASSUME TypeOK, LockInv, [Next]_vars
  PROVE  \/ Queues /\ chunk' = chunk
         \/ Walks \/ Delivers \/ Clears \/ Accepts \/ Takes \/ Adds \/ Drops
<1>1. ASSUME NEW p \in Producers, RowStart(p)
      PROVE  (Queues /\ chunk' = chunk) \/ Takes \/ Adds \/ Drops
  <2>1. UNCHANGED <<accepted, delivered, chunk>> /\ lock = NoThread
    BY <1>1 DEF RowStart, readerVars
  <2>2. CASE UNCHANGED <<chain, lost>>
    BY <2>1, <2>2 DEF Queues, chain
  <2>3. CASE active = 1 /\ Len(buf[writerChunk]) >= TargetBufSize /\ GetNextWriteChunk(p)
    <3>1. ~ReaderAtChain
      BY <1>1, <2>1, <2>3, NoRowWhileReading
    <3>2. buf[writerChunk] # << >>
      <4>1. Len(<< >>) = 0 /\ TargetBufSize >= 1 /\ TargetBufSize \in Nat
        BY ConstantsAssumption
      <4> QED
        BY <2>3, <4>1
    <3>3. WriterLeaves
      BY <2>1, <2>3, <3>1, <3>2 DEF WriterLeaves
    <3> QED
      BY <2>3, <3>3
      DEF GetNextWriteChunk, UseNextChunk, AddChunk, DropNextChunk, Takes, Adds, Drops
  <2> QED
    BY <1>1, <2>2, <2>3 DEF RowStart
<1>2. ASSUME NEW p \in Producers, RowEnd(p)
      PROVE  Accepts
  <2>1. InRow(p)
    BY <1>2 DEF RowEnd, InRow
  <2>2. ~ReaderAtChain /\ active = 1
    BY <2>1, NoRowWhileReading DEF LockInv
  <2> QED
    BY <1>2, <2>2 DEF RowEnd, Signal, Accepts
<1>3. ASSUME NEW p \in Producers, ProducerStep(p), ~RowStart(p), ~RowEnd(p)
      PROVE  Queues /\ chunk' = chunk
  BY <1>3 DEF ProducerStep, StoreLoss, RowEndRefused, RowAbort, RowEndFailed, LoadLoss, ClearLoss,
              Signal, readerVars, chain, history, Queues
<1>4. CASE CloseBegin \/ CloseEnd \/ UNCHANGED vars
  BY <1>4 DEF CloseBegin, CloseEnd, Signal, readerVars, vars, chain, history, Queues
<1>5. CASE EndChunk
  BY <1>5 DEF EndChunk, ChunkSent, history, Clears
<1>6. ASSUME NEW n \in 0..TargetBufSize, WriteOk(n)
      PROVE  Delivers
  BY <1>6 DEF WriteOk, ReaderKeeps, Delivers
<1>7. CASE ReaderCheck \/ ReaderWait \/ ReaderWake \/ SpuriousWakeup \/ SkipEmptyChunk
           \/ StillBackingOff \/ BeginChunk \/ WriteFail \/ DrainSleep \/ CoolDown
  BY <1>7 DEF ReaderCheck, ReaderWait, ReaderWake, SpuriousWakeup, SkipEmptyChunk, StillBackingOff,
              BeginChunk, WriteFail, DrainSleep, CoolDown, ReaderKeeps, chain, Queues
<1>8. CASE WalkOn \/ DrainOn
  BY <1>8 DEF WalkOn, DrainOn, ReaderKeeps, chain, Queues, Walks
<1> QED
  BY <1>1, <1>2, <1>3, <1>4, <1>5, <1>6, <1>7, <1>8 DEF Next, Elsewhere, ReaderLoop, Write

-----------------------------------------------------------------------------
(* The chain is a ring of its allocated chunks, that of the writer last.   *)

Allocated == MaxChunks - unallocatedBuffers

IsRing(ring, n, last, succ) ==
  /\ ring \in [1..n -> 1..n]
  /\ \A c \in 1..n : \E i \in 1..n : ring[i] = c
  /\ \A i, j \in 1..n : ring[i] = ring[j] => i = j
  /\ ring[n] = last
  /\ \A i \in 1..n : succ[ring[i]] = ring[IF i = n THEN 1 ELSE i + 1]

(* The writer moves on.                                                    *)
LEMMA RingTurns ==
  ASSUME NEW n \in Nat \ {0}, NEW ring, NEW last, NEW succ, IsRing(ring, n, last, succ)
  PROVE  LET turned == [i \in 1..n |-> ring[IF i = n THEN 1 ELSE i + 1]] IN
         /\ IsRing(turned, n, succ[last], succ) /\ succ[last] = ring[1]
<1> DEFINE up(i) == IF i = n THEN 1 ELSE i + 1
           down(i) == IF i = 1 THEN n ELSE i - 1
           turned == [i \in 1..n |-> ring[up(i)]]
<1>1. \A i \in 1..n : up(i) \in 1..n /\ down(i) \in 1..n /\ up(down(i)) = i /\ down(up(i)) = i
  OBVIOUS
<1>2. \A i \in 1..n : turned[i] = ring[up(i)]
  OBVIOUS
<1>3. turned \in [1..n -> 1..n] /\ turned[n] = ring[1] /\ succ[last] = ring[1]
  <2>1. \A i \in 1..n : ring[i] \in 1..n
    BY DEF IsRing
  <2>2. turned \in [1..n -> 1..n]
    BY <1>1, <2>1
  <2>3. n \in 1..n /\ up(n) = 1
    OBVIOUS
  <2>4. succ[ring[n]] = ring[up(n)] /\ ring[n] = last
    BY <2>3 DEF IsRing
  <2> QED
    BY <1>2, <2>2, <2>3, <2>4
<1>4. \A c \in 1..n : \E i \in 1..n : turned[i] = c
  <2> SUFFICES ASSUME NEW c \in 1..n
               PROVE  \E i \in 1..n : turned[i] = c
    OBVIOUS
  <2>1. PICK i \in 1..n : ring[i] = c
    BY DEF IsRing
  <2>2. turned[down(i)] = c /\ down(i) \in 1..n
    BY <1>1, <1>2, <2>1
  <2> QED
    BY <2>2
<1>5. \A i, j \in 1..n : turned[i] = turned[j] => i = j
  <2> SUFFICES ASSUME NEW i \in 1..n, NEW j \in 1..n, turned[i] = turned[j]
               PROVE  i = j
    OBVIOUS
  <2>1. up(i) = up(j)
    BY <1>1, <1>2 DEF IsRing
  <2> QED
    BY <1>1, <2>1
<1>6. \A i \in 1..n : succ[turned[i]] = turned[up(i)]
  BY <1>1, <1>2 DEF IsRing
<1> QED
  BY <1>3, <1>4, <1>5, <1>6 DEF IsRing

(* A new chunk comes after the writer's.                                   *)
LEMMA RingGrows ==
  ASSUME NEW n \in Nat \ {0}, NEW ring, NEW last, NEW succ, IsRing(ring, n, last, succ),
         1..(n + 1) \subseteq DOMAIN succ
  PROVE  IsRing([i \in 1..(n + 1) |-> IF i = n + 1 THEN n + 1 ELSE ring[i]], n + 1, n + 1,
                [succ EXCEPT ![n + 1] = succ[last], ![last] = n + 1])
<1> DEFINE wider == [i \in 1..(n + 1) |-> IF i = n + 1 THEN n + 1 ELSE ring[i]]
           new == [succ EXCEPT ![n + 1] = succ[last], ![last] = n + 1]
<1>1. /\ \A i \in 1..n : wider[i] = ring[i] /\ wider[i] \in 1..n
      /\ wider[n + 1] = n + 1
      /\ \A i \in 1..(n + 1) : i \in 1..n \/ i = n + 1
  <2>1. \A i \in 1..n : ring[i] \in 1..n
    BY DEF IsRing
  <2>2. /\ n + 1 \in 1..(n + 1) /\ \A i \in 1..(n + 1) : i \in 1..n \/ i = n + 1
        /\ \A i \in 1..n : i # n + 1 /\ i \in 1..(n + 1)
    OBVIOUS
  <2> QED
    BY <2>1, <2>2
<1>2. /\ wider \in [1..(n + 1) -> 1..(n + 1)]
      /\ \A c \in 1..(n + 1) : \E i \in 1..(n + 1) : wider[i] = c
      /\ \A i, j \in 1..(n + 1) : wider[i] = wider[j] => i = j
  <2>1. wider \in [1..(n + 1) -> 1..(n + 1)]
    BY <1>1
  <2>2. \A c \in 1..(n + 1) : \E i \in 1..(n + 1) : wider[i] = c
    <3>1. \A c \in 1..n : \E i \in 1..n : ring[i] = c
      BY DEF IsRing
    <3> QED
      BY <1>1, <3>1, SMTT(40)
  <2>3. \A i, j \in 1..(n + 1) : wider[i] = wider[j] => i = j
    <3>1. \A i, j \in 1..n : ring[i] = ring[j] => i = j
      BY DEF IsRing
    <3> HIDE DEF wider
    <3> QED
      BY <1>1, <3>1
  <2> QED
    BY <2>1, <2>2, <2>3
<1>3. last \in 1..n /\ ring[n] = last /\ succ[last] = ring[1]
  BY DEF IsRing
<1>4. /\ new[n + 1] = ring[1] /\ new[last] = n + 1
      /\ \A c \in 1..n : c # last => new[c] = succ[c]
  BY <1>3
<1>5. \A i \in 1..(n + 1) : new[wider[i]] = wider[IF i = n + 1 THEN 1 ELSE i + 1]
  <2> HIDE DEF new, wider
  <2>1. ASSUME NEW i \in 1..n, i # n
        PROVE  new[wider[i]] = wider[i + 1]
    <3>1. i + 1 \in 1..n /\ n \in 1..n
      BY <2>1
    <3>2. ring[i] # last /\ ring[i] \in 1..n
      BY <1>3, <2>1, <3>1, ZenonT(40) DEF IsRing
    <3>3. succ[ring[i]] = ring[i + 1]
      BY <2>1 DEF IsRing
    <3> QED
      BY <1>1, <1>4, <3>1, <3>2, <3>3
  <2>2. new[wider[n]] = wider[n + 1] /\ new[wider[n + 1]] = wider[1]
    BY <1>1, <1>3, <1>4
  <2> QED
    BY <1>1, <2>1, <2>2
<1> QED
  BY <1>1, <1>2, <1>5 DEF IsRing

-----------------------------------------------------------------------------
(* The order of rows along the ring, and the place of the reader in it.    *)

Elems(q) == {q[i] : i \in 1..Len(q)}

(* Every member of S comes before every member of T.                       *)
Before(S, T) == \A m \in S, n \in T : m < n

RowsInv ==
  /\ delivered \subseteq 1..accepted /\ Elems(lost) \subseteq 1..accepted
  /\ \A c \in Chunks :
       /\ c > Allocated => buf[c] = << >>
       /\ \A i, j \in 1..Len(buf[c]) : i < j => buf[c][i] < buf[c][j]
       /\ Elems(buf[c]) \subseteq 1..accepted
       /\ Before(Elems(lost), Elems(buf[c]))

(* Of the reader's chunk, which it may have to send again, what has not    *)
(* been delivered is newer than all that has.                              *)
ChunkInv == \A m \in Elems(buf[chunk]) : m \in delivered \/ Before(delivered, {m})

(* Rows get newer along the ring.  The reader has left nothing behind that *)
(* the writer did not overtake and drop, and what is ahead of it is newer  *)
(* than all that has been delivered.                                       *)
Along(ring, k, n) ==
  /\ IsRing(ring, n, writerChunk, next)
  /\ \A i, j \in 1..n : i < j => Before(Elems(buf[ring[i]]), Elems(buf[ring[j]]))
  /\ k \in 1..n /\ ring[k] = chunk
  /\ \A j \in (k + 1)..n : Before(delivered, Elems(buf[ring[j]]))
  /\ lost = << >> => \A j \in 1..(k - 1) : buf[ring[j]] = << >>

RingInv ==
  \E ring \in [1..Allocated -> 1..Allocated] : \E k \in 1..Allocated : Along(ring, k, Allocated)

(* The reader stops where the writer is, or at a chunk that it could not   *)
(* send, and drains the chain to its end.                                  *)
Stopped ==
  \/ rpc \in {"check", "lock", "wait", "woken"}
  \/ rpc \in {"scan", "next"} /\ loop = "main" /\ allsent < 0

StopInv ==
  /\ Stopped => chunk = writerChunk \/ buf[chunk] # << >>
  /\ rpc = "next" /\ allsent = 1 => buf[chunk] = << >>
  /\ rpc = "done" => loop = "drain"
  /\ retval # 0 => rpc = "done"
  /\ retval = 1 /\ lost = << >> => \A c \in Chunks : buf[c] = << >>

OrderInv == RowsInv /\ ChunkInv /\ RingInv /\ StopInv

(* An empty chunk holds no row.                                            *)
LEMMA ElemsOfEmpty == Elems(<< >>) = {}
BY DEF Elems

(* A row is added at the end of a chunk, and the others stay where they    *)
(* are.                                                                    *)
LEMMA Appended ==
  ASSUME NEW S, NEW q \in Seq(S), NEW m \in S
  PROVE  /\ Len(Append(q, m)) = Len(q) + 1 /\ Elems(Append(q, m)) = Elems(q) \cup {m}
         /\ \A i \in 1..Len(q) : Append(q, m)[i] = q[i]
         /\ Append(q, m)[Len(q) + 1] = m
<1>1. /\ Len(Append(q, m)) = Len(q) + 1 /\ Len(q) \in Nat
      /\ \A i \in 1..Len(q) : Append(q, m)[i] = q[i]
      /\ Append(q, m)[Len(q) + 1] = m
  OBVIOUS
<1>2. \A i \in 1..(Len(q) + 1) : i \in 1..Len(q) \/ i = Len(q) + 1
  BY <1>1
<1> QED
  BY <1>1, <1>2 DEF Elems

(* The rows of a concatenation are those of its parts.                     *)
LEMMA Joined ==
  ASSUME NEW S, NEW q \in Seq(S), NEW r \in Seq(S)
  PROVE  Elems(q \o r) = Elems(q) \cup Elems(r)
<1>1. /\ Len(q \o r) = Len(q) + Len(r) /\ Len(q) \in Nat /\ Len(r) \in Nat
      /\ \A i \in 1..Len(q) : (q \o r)[i] = q[i]
      /\ \A i \in 1..Len(r) : (q \o r)[Len(q) + i] = r[i]
  OBVIOUS
<1>2. \A i \in 1..(Len(q) + Len(r)) : i \in 1..Len(q) \/ (i - Len(q) \in 1..Len(r) /\ i = Len(q) + (i - Len(q)))
  BY <1>1
<1>3. /\ \A i \in 1..Len(q) : i \in 1..(Len(q) + Len(r))
      /\ \A i \in 1..Len(r) : Len(q) + i \in 1..(Len(q) + Len(r))
  BY <1>1
<1>4. Elems(q \o r) \subseteq Elems(q) \cup Elems(r)
  BY <1>1, <1>2 DEF Elems
<1>5. Elems(q) \subseteq Elems(q \o r) /\ Elems(r) \subseteq Elems(q \o r)
  BY <1>1, <1>3 DEF Elems
<1> QED
  BY <1>4, <1>5

(* The types of the queue, as the proofs below use them.                   *)
LEMMA QueueTypes ==
  ASSUME TypeOK
  PROVE  /\ Allocated \in Nat \ {0} /\ Allocated <= MaxChunks /\ MaxChunks \in Nat
         /\ 1..Allocated \subseteq Chunks /\ Chunks = 1..MaxChunks
         /\ buf \in [Chunks -> Seq(Nat)] /\ next \in [Chunks -> Chunks]
         /\ writerChunk \in Chunks /\ chunk \in Chunks
         /\ \A c \in Chunks : buf[c] \in Seq(Nat) /\ Len(buf[c]) \in Nat /\ Elems(buf[c]) \subseteq Nat
         /\ lost \in Seq(Nat) /\ accepted \in Nat /\ delivered \subseteq Nat
<1>1. /\ unallocatedBuffers \in 0..(MaxChunks - 1) /\ MaxChunks \in Nat
      /\ buf \in [Chunks -> Seq(Nat)] /\ next \in [Chunks -> Chunks]
      /\ writerChunk \in Chunks /\ chunk \in Chunks
      /\ lost \in Seq(Nat) /\ accepted \in Nat /\ delivered \subseteq Nat
  BY ConstantsAssumption DEF TypeOK, ChainTypeOK, ReaderTypeOK, HistoryTypeOK
<1>2. Allocated \in Nat \ {0} /\ Allocated <= MaxChunks
  BY <1>1 DEF Allocated
<1>3. \A c \in Chunks : buf[c] \in Seq(Nat)
  BY <1>1
<1>4. \A q \in Seq(Nat) : Len(q) \in Nat /\ Elems(q) \subseteq Nat
  BY DEF Elems
<1> QED
  BY <1>1, <1>2, <1>3, <1>4 DEF Chunks

(* The rows of the chunk that follows the writer's are the oldest.         *)
LEMMA OldestChunk ==
  ASSUME TypeOK, RowsInv, RingInv, NEW e \in Chunks, e # next[writerChunk]
  PROVE  Before(Elems(buf[next[writerChunk]]), Elems(buf[e]))
<1>1. PICK ring, k : Along(ring, k, Allocated)
  BY DEF RingInv
<1>2. Allocated \in Nat \ {0} /\ Chunks = 1..MaxChunks /\ MaxChunks \in Nat
  BY QueueTypes
<1>3. next[writerChunk] = ring[1]
  <2>1. IsRing(ring, Allocated, writerChunk, next)
    BY <1>1 DEF Along
  <2>2. Allocated \in 1..Allocated
    BY <1>2
  <2> QED
    BY <2>1, <2>2 DEF IsRing
<1>4. CASE e > Allocated
  <2>1. Elems(buf[e]) = {}
    BY <1>4, ElemsOfEmpty DEF RowsInv
  <2> QED
    BY <2>1 DEF Before
<1>5. CASE ~(e > Allocated)
  <2>1. e \in 1..Allocated
    BY <1>2, <1>5
  <2>2. PICK i \in 1..Allocated : ring[i] = e
    BY <1>1, <2>1 DEF Along, IsRing
  <2>3. 1 \in 1..Allocated /\ 1 < i
    BY <1>2, <1>3, <2>2
  <2> QED
    BY <1>1, <1>3, <2>2, <2>3 DEF Along
<1> QED
  BY <1>4, <1>5

(* The rows of a chunk increase, and lost rows are older than those that   *)
(* are queued.                                                             *)
LEMMA RowsStep ==
  ASSUME TypeOK, LockInv, OrderInv, [Next]_vars
  PROVE  RowsInv'
<1> DEFINE ChunkOK(c) ==
             /\ c > Allocated => buf[c] = << >>
             /\ \A i, j \in 1..Len(buf[c]) : i < j => buf[c][i] < buf[c][j]
             /\ Elems(buf[c]) \subseteq 1..accepted
             /\ Before(Elems(lost), Elems(buf[c]))
<1>0. /\ Allocated \in Nat \ {0} /\ Allocated <= MaxChunks /\ MaxChunks \in Nat
      /\ Chunks = 1..MaxChunks
      /\ buf \in [Chunks -> Seq(Nat)] /\ writerChunk \in Chunks /\ chunk \in Chunks
      /\ next[writerChunk] \in Chunks
      /\ \A c \in Chunks : buf[c] \in Seq(Nat) /\ Len(buf[c]) \in Nat
      /\ lost \in Seq(Nat) /\ accepted \in Nat
  BY QueueTypes
<1>1. /\ RowsInv /\ RingInv /\ delivered \subseteq 1..accepted /\ Elems(lost) \subseteq 1..accepted
      /\ \A c \in Chunks : ChunkOK(c)
  BY DEF OrderInv, RowsInv
<1>e. \A q : q = << >> => Elems(q) = {} /\ Len(q) = 0
  BY ElemsOfEmpty
<1>2. CASE Queues \/ Walks \/ Takes
  <2>1. UNCHANGED <<buf, lost, accepted, delivered, unallocatedBuffers>>
    BY <1>2 DEF Queues, Walks, Takes, WriterLeaves
  <2> QED
    BY <1>1, <2>1 DEF RowsInv, Allocated
<1>3. CASE Delivers
  <2>1. delivered' \subseteq delivered \cup Elems(buf[chunk])
    <3>1. PICK n \in 0..(Len(buf[chunk]) - sent) :
            delivered' = delivered \cup {buf[chunk][i] : i \in (sent + 1)..(sent + n)}
      BY <1>3 DEF Delivers
    <3>2. \A i \in (sent + 1)..(sent + n) : i \in 1..Len(buf[chunk])
      <4>1. sent \in Nat /\ Len(buf[chunk]) \in Nat
        BY <1>0 DEF TypeOK, ReaderTypeOK
      <4> QED
        BY <4>1
    <3> QED
      BY <3>1, <3>2 DEF Elems
  <2>2. UNCHANGED <<buf, lost, accepted, unallocatedBuffers>>
    BY <1>3 DEF Delivers, chain
  <2> QED
    BY <1>0, <1>1, <2>1, <2>2 DEF RowsInv, Allocated
<1>4. CASE Clears
  <2>1. UNCHANGED <<lost, accepted, delivered, unallocatedBuffers>>
        /\ \A c \in Chunks : buf'[c] = IF c = chunk THEN << >> ELSE buf[c]
    BY <1>0, <1>4 DEF Clears
  <2>2. ASSUME NEW c \in Chunks
        PROVE  ChunkOK(c)'
    BY <1>1, <1>e, <2>1 DEF Allocated, Before
  <2> QED
    BY <1>1, <2>1, <2>2 DEF RowsInv
<1>5. CASE Accepts
  <2> DEFINE q == buf[writerChunk]
  <2>1. /\ UNCHANGED <<lost, delivered, unallocatedBuffers>> /\ accepted' = accepted + 1
        /\ \A c \in Chunks : buf'[c] = IF c = writerChunk THEN Append(q, accepted + 1) ELSE buf[c]
    BY <1>0, <1>5 DEF Accepts
  <2>2. \A S : S \subseteq 1..accepted => S \subseteq 1..(accepted + 1) /\ Before(S, {accepted + 1})
    BY <1>0 DEF Before
  <2>3. ASSUME NEW c \in Chunks, c # writerChunk
        PROVE  ChunkOK(c)'
    BY <1>1, <2>1, <2>2, <2>3 DEF Allocated
  <2>4. ChunkOK(writerChunk)'
    <3>1. /\ Len(Append(q, accepted + 1)) = Len(q) + 1
          /\ Elems(Append(q, accepted + 1)) = Elems(q) \cup {accepted + 1}
          /\ \A i \in 1..Len(q) : Append(q, accepted + 1)[i] = q[i]
          /\ Append(q, accepted + 1)[Len(q) + 1] = accepted + 1
      <4>1. q \in Seq(Nat) /\ accepted + 1 \in Nat
        BY <1>0
      <4> HIDE DEF q
      <4> QED
        BY <4>1, Appended
    <3>2. writerChunk \in 1..Allocated
      <4>1. PICK ring, k : Along(ring, k, Allocated)
        BY <1>1 DEF RingInv
      <4> QED
        BY <1>0, <4>1 DEF Along, IsRing
    <3>3. Elems(q) \subseteq 1..accepted /\ Before(Elems(lost), Elems(q)) /\ Len(q) \in Nat
          /\ \A i, j \in 1..Len(q) : i < j => q[i] < q[j]
      BY <1>0, <1>1
    <3>4. \A i \in 1..Len(q) : q[i] < accepted + 1
      <4>1. \A i \in 1..Len(q) : q[i] \in 1..accepted
        BY <3>3 DEF Elems
      <4>2. \A m \in 1..accepted : m < accepted + 1
        BY <1>0
      <4> QED
        BY <4>1, <4>2
    <3> DEFINE b == Append(q, accepted + 1)
    <3>5. \A i, j \in 1..Len(b) : i < j => b[i] < b[j]
      <4> SUFFICES ASSUME NEW i \in 1..Len(b), NEW j \in 1..Len(b), i < j
                   PROVE  b[i] < b[j]
        OBVIOUS
      <4>1. Len(b) = Len(q) + 1 /\ b[Len(q) + 1] = accepted + 1 /\ \A h \in 1..Len(q) : b[h] = q[h]
        BY <3>1
      <4>2. Len(q) \in Nat
        BY <3>3
      <4> HIDE DEF q, b
      <4>3. i \in 1..Len(q) /\ (j \in 1..Len(q) \/ j = Len(q) + 1)
        BY <4>1, <4>2
      <4> QED
        BY <3>3, <3>4, <4>1, <4>3
    <3>6. Elems(b) \subseteq 1..(accepted + 1) /\ Before(Elems(lost), Elems(b))
      <4>1. accepted + 1 \in 1..(accepted + 1)
        BY <1>0
      <4> QED
        BY <1>1, <2>2, <3>1, <3>3, <4>1 DEF Before
    <3>7. ~(writerChunk > Allocated)
      BY <1>0, <3>2
    <3>8. buf'[writerChunk] = b /\ UNCHANGED <<lost, unallocatedBuffers, writerChunk>>
          /\ accepted' = accepted + 1
      BY <1>0, <1>5, <2>1 DEF Accepts
    <3> HIDE DEF b, q
    <3> QED
      BY <3>5, <3>6, <3>7, <3>8 DEF Allocated
  <2>5. delivered' \subseteq 1..accepted' /\ Elems(lost') \subseteq 1..accepted'
    BY <1>1, <2>1, <2>2
  <2>6. UNCHANGED writerChunk
    BY <1>5 DEF Accepts
  <2>7. \A c \in Chunks : ChunkOK(c)'
    <3>1. ASSUME NEW c \in Chunks, c = writerChunk
          PROVE  ChunkOK(c)'
      BY ONLY <2>4, <2>6, <3>1
    <3> QED
      BY <2>3, <3>1
  <2> QED
    BY <2>5, <2>7 DEF RowsInv
<1>6. CASE Adds
  <2>1. UNCHANGED <<buf, lost, accepted, delivered>> /\ unallocatedBuffers' = unallocatedBuffers - 1
    BY <1>6 DEF Adds, WriterLeaves
  <2>2. \A c \in Chunks : c > Allocated' => c > Allocated
    <3>1. unallocatedBuffers \in Int
      BY DEF TypeOK, ChainTypeOK
    <3> QED
      BY <1>0, <2>1, <3>1 DEF Allocated
  <2> QED
    BY <1>1, <2>1, <2>2 DEF RowsInv
<1>7. CASE Drops
  <2> DEFINE o == next[writerChunk]
  <2>1. /\ UNCHANGED <<accepted, delivered, unallocatedBuffers>> /\ lost' = lost \o buf[o]
        /\ \A c \in Chunks : buf'[c] = IF c = o THEN << >> ELSE buf[c]
    BY <1>0, <1>7 DEF Drops, WriterLeaves
  <2>2. Elems(lost') = Elems(lost) \cup Elems(buf[o])
    BY <1>0, <2>1, Joined
  <2>3. \A c \in Chunks : c # o => Before(Elems(buf[o]), Elems(buf[c]))
    BY <1>1, OldestChunk
  <2>4. \A c \in Chunks : c # o => Before(Elems(lost'), Elems(buf[c]))
    BY <1>1, <2>2, <2>3 DEF Before
  <2>5. ASSUME NEW c \in Chunks
        PROVE  ChunkOK(c)'
    <3> HIDE DEF o
    <3> QED
      BY <1>1, <1>e, <2>1, <2>4 DEF Allocated, Before
  <2> QED
    BY <1>0, <1>1, <2>1, <2>2, <2>5 DEF RowsInv
<1> QED
  BY <1>2, <1>3, <1>4, <1>5, <1>6, <1>7, QueueForms

(* The writer's chunk and the reader's are in the ring.                    *)
LEMMA ChainInRing ==
  ASSUME TypeOK, NEW ring, NEW k, Along(ring, k, Allocated)
  PROVE  /\ k \in 1..Allocated /\ ring[k] = chunk /\ ring[Allocated] = writerChunk
         /\ next[writerChunk] = ring[1]
         /\ \A i \in 1..Allocated : ring[i] \in Chunks /\ ring[i] \in 1..Allocated
         /\ chunk # writerChunk => k < Allocated /\ k + 1 \in 1..Allocated /\ next[chunk] = ring[k + 1]
<1>1. IsRing(ring, Allocated, writerChunk, next) /\ k \in 1..Allocated /\ ring[k] = chunk
  BY DEF Along
<1>2. Allocated \in Nat \ {0} /\ 1..Allocated \subseteq Chunks /\ Allocated \in 1..Allocated
  BY QueueTypes
<1>3. ring[Allocated] = writerChunk /\ \A i \in 1..Allocated : ring[i] \in 1..Allocated
  BY <1>1 DEF IsRing
<1>4. next[writerChunk] = ring[1]
  BY <1>1, <1>2 DEF IsRing
<1>5. chunk # writerChunk => k < Allocated /\ k + 1 \in 1..Allocated
  BY <1>1, <1>2, <1>3
<1>6. k # Allocated => next[ring[k]] = ring[k + 1]
  BY <1>1 DEF IsRing
<1> QED
  BY <1>1, <1>2, <1>3, <1>4, <1>5, <1>6

(* The chunk the writer fills holds the latest rows, and the one the       *)
(* reader sends the oldest.                                                *)
LEMMA ChunkStep ==
  ASSUME TypeOK, LockInv, SendInv, OrderInv, [Next]_vars
  PROVE  ChunkInv'
<1>0. /\ buf \in [Chunks -> Seq(Nat)] /\ writerChunk \in Chunks /\ chunk \in Chunks
      /\ accepted \in Nat /\ Len(buf[chunk]) \in Nat /\ sent \in Nat /\ delivered \subseteq Nat
      /\ next[writerChunk] \in Chunks
  BY QueueTypes DEF TypeOK, ReaderTypeOK
<1>1. ChunkInv /\ RowsInv /\ RingInv
  BY DEF OrderInv
<1>2. ASSUME UNCHANGED <<delivered, chunk>>, Elems(buf'[chunk]) \subseteq Elems(buf[chunk])
      PROVE  ChunkInv'
  BY <1>1, <1>2 DEF ChunkInv
<1>3. CASE (Queues /\ chunk' = chunk) \/ Takes \/ Adds
  BY <1>2, <1>3 DEF Queues, Takes, Adds, WriterLeaves
<1>4. CASE Walks
  <2>1. PICK ring, k : Along(ring, k, Allocated)
    BY <1>1 DEF RingInv
  <2>2. chunk # writerChunk /\ chunk' = next[chunk] /\ UNCHANGED <<buf, delivered>>
    BY <1>4 DEF Walks, Queues, MayAdvance
  <2>3. chunk' = ring[k + 1] /\ k + 1 \in (k + 1)..Allocated
    <3>1. k \in 1..Allocated /\ k < Allocated /\ Allocated \in Nat
      BY <2>1, <2>2, ChainInRing, QueueTypes
    <3> QED
      BY <2>1, <2>2, <3>1, ChainInRing
  <2>4. Before(delivered, Elems(buf[ring[k + 1]]))
    BY <2>1, <2>3 DEF Along
  <2> QED
    BY <2>2, <2>3, <2>4 DEF ChunkInv, Before
<1>5. CASE Delivers
  <2>1. PICK n \in 0..(Len(buf[chunk]) - sent) :
          delivered' = delivered \cup {buf[chunk][i] : i \in (sent + 1)..(sent + n)}
    BY <1>5 DEF Delivers
  <2>2. rpc = "send" /\ UNCHANGED <<buf, chunk>>
    BY <1>5 DEF Delivers, chain
  <2>3. /\ \A i, j \in 1..Len(buf[chunk]) : i < j => buf[chunk][i] < buf[chunk][j]
        /\ \A i \in 1..sent : buf[chunk][i] \in delivered
    BY <1>0, <1>1, <2>2 DEF RowsInv, SendInv
  <2>4. ASSUME NEW j \in 1..Len(buf[chunk]), buf[chunk][j] \notin delivered'
        PROVE  Before(delivered', {buf[chunk][j]})
    <3>1. j > sent + n /\ \A i \in (sent + 1)..(sent + n) : i \in 1..Len(buf[chunk]) /\ i < j
      <4>1. j \notin (sent + 1)..(sent + n) /\ j \notin 1..sent
        BY <2>1, <2>3, <2>4
      <4> QED
        BY <1>0, <4>1, SMTT(40)
    <3>2. \A i \in (sent + 1)..(sent + n) : buf[chunk][i] < buf[chunk][j]
      BY <2>3, <3>1
    <3>3. Before(delivered, {buf[chunk][j]})
      BY <1>1, <2>1, <2>4 DEF ChunkInv, Elems
    <3> QED
      BY <2>1, <3>2, <3>3 DEF Before
  <2> QED
    BY <2>2, <2>4 DEF ChunkInv, Elems
<1>6. CASE Clears
  <2>1. buf'[chunk] = << >> /\ UNCHANGED <<delivered, chunk>>
    BY <1>0, <1>6 DEF Clears
  <2> QED
    BY <1>2, <2>1, ElemsOfEmpty
<1>7. CASE Accepts
  <2>1. /\ buf' = [buf EXCEPT ![writerChunk] = Append(@, accepted + 1)]
        /\ UNCHANGED <<delivered, chunk>>
    BY <1>7 DEF Accepts
  <2>2. CASE chunk # writerChunk
    <3>1. buf'[chunk] = buf[chunk]
      BY <1>0, <2>1, <2>2
    <3> QED
      BY <1>2, <2>1, <3>1
  <2>3. CASE chunk = writerChunk
    <3>1. buf'[chunk] = Append(buf[chunk], accepted + 1)
      BY <1>0, <2>1, <2>3
    <3>2. Elems(buf'[chunk]) = Elems(buf[chunk]) \cup {accepted + 1}
      <4>1. buf[chunk] \in Seq(Nat) /\ accepted + 1 \in Nat
        BY <1>0
      <4>2. Elems(Append(buf[chunk], accepted + 1)) = Elems(buf[chunk]) \cup {accepted + 1}
        BY <4>1, Appended
      <4> QED
        BY <3>1, <4>2
    <3>3. Before(delivered, {accepted + 1})
      <4>1. delivered \subseteq 1..accepted
        BY <1>1 DEF RowsInv
      <4>2. \A m \in 1..accepted : m < accepted + 1
        BY <1>0
      <4> QED
        BY <4>1, <4>2 DEF Before
    <3> QED
      BY <1>1, <2>1, <3>2, <3>3 DEF ChunkInv
  <2> QED
    BY <2>2, <2>3
<1>8. CASE Drops
  <2>1. /\ UNCHANGED <<delivered, chunk>>
        /\ buf'[chunk] = << >> \/ buf'[chunk] = buf[chunk]
    BY <1>0, <1>8 DEF Drops, WriterLeaves
  <2> QED
    BY <1>2, <2>1, ElemsOfEmpty
<1> QED
  BY <1>3, <1>4, <1>5, <1>6, <1>7, <1>8, QueueForms

(* The writer moves to the oldest chunk, which is then empty.              *)
LEMMA RingStaysWhenTurned ==
  ASSUME TypeOK, NEW ring, NEW k, Along(ring, k, Allocated),
         UNCHANGED <<delivered, chunk, next, unallocatedBuffers>>,
         writerChunk' = next[writerChunk],
         \A c \in Chunks : buf'[c] = IF c = next[writerChunk] THEN << >> ELSE buf[c],
         lost' # << >> \/ (lost' = lost /\ k > 1)
  PROVE  RingInv'
<1>n. PICK n : n = Allocated
  OBVIOUS
<1>t. PICK turned : turned = [i \in 1..n |-> ring[IF i = n THEN 1 ELSE i + 1]]
  OBVIOUS
<1>1. n \in Nat \ {0} /\ k \in 1..n /\ ring[k] = chunk /\ next[writerChunk] = ring[1]
      /\ \A i \in 1..n : ring[i] \in Chunks
  BY <1>n, QueueTypes, ChainInRing
<1>2. /\ IsRing(ring, n, writerChunk, next)
      /\ \A i, j \in 1..n : i < j => Before(Elems(buf[ring[i]]), Elems(buf[ring[j]]))
      /\ \A j \in (k + 1)..n : Before(delivered, Elems(buf[ring[j]]))
      /\ lost = << >> => \A j \in 1..(k - 1) : buf[ring[j]] = << >>
  BY <1>n DEF Along
<1>3. IsRing(turned, n, next[writerChunk], next)
  BY <1>1, <1>2, <1>t, RingTurns
<1>4. Allocated' = n
  BY <1>n DEF Allocated
<1>5. /\ \A i \in 1..n : i # n => turned[i] = ring[i + 1] /\ i + 1 \in 1..n /\ i + 1 # 1
      /\ turned[n] = ring[1]
  BY <1>1, <1>t
<1>6. /\ \A i \in 1..n : i # n => turned[i] = ring[i + 1] /\ buf'[turned[i]] = buf[ring[i + 1]]
      /\ buf'[turned[n]] = << >>
  <2>1. \A i \in 1..n : i # 1 => ring[i] # ring[1]
    <3>1. 1 \in 1..n
      BY <1>1
    <3> QED
      BY <1>2, <3>1 DEF IsRing
  <2>2. 1 \in 1..n
    BY <1>1
  <2> QED
    BY <1>1, <1>5, <2>1, <2>2
<1>7. \A S : Before(S, {})
  BY DEF Before
<1>8. ASSUME NEW i \in 1..n, NEW j \in 1..n, i < j
      PROVE  Before(Elems(buf'[turned[i]]), Elems(buf'[turned[j]]))
  <2>1. CASE j = n
    BY <1>6, <1>7, <2>1, ElemsOfEmpty
  <2>2. CASE j # n
    <3>1. i # n /\ i + 1 \in 1..n /\ j + 1 \in 1..n /\ i + 1 < j + 1
      BY <1>1, <1>8, <2>2
    <3> QED
      BY <1>2, <1>6, <2>2, <3>1
  <2> QED
    BY <2>1, <2>2
<1>9. CASE k > 1
  <2>1. k - 1 \in 1..n /\ k - 1 # n /\ (k - 1) + 1 = k
    BY <1>1, <1>9
  <2>2. turned[k - 1] = chunk
    BY <1>1, <1>6, <2>1
  <2>3. ASSUME NEW j \in ((k - 1) + 1)..n
        PROVE  Before(delivered, Elems(buf'[turned[j]]))
    <3>1. CASE j = n
      BY <1>6, <1>7, <3>1, ElemsOfEmpty
    <3>2. CASE j # n
      <4>1. j \in 1..n /\ j + 1 \in (k + 1)..n
        BY <1>1, <1>9, <2>3, <3>2
      <4> QED
        BY <1>2, <1>6, <3>2, <4>1
    <3> QED
      BY <3>1, <3>2
  <2>4. ASSUME lost' = << >>, NEW j \in 1..((k - 1) - 1)
        PROVE  buf'[turned[j]] = << >>
    <3>1. j \in 1..n /\ j # n /\ j + 1 \in 1..(k - 1)
      BY <1>1, <1>9, <2>4
    <3>2. lost = << >>
      BY <2>4
    <3> QED
      BY <1>2, <1>6, <3>1, <3>2
  <2>5. Along(turned, k - 1, Allocated)'
    <3>1. /\ IsRing(turned, Allocated', writerChunk', next')
          /\ UNCHANGED <<delivered, chunk>>
      BY <1>3, <1>4
    <3> QED
      BY <1>4, <1>8, <2>1, <2>2, <2>3, <2>4, <3>1 DEF Along
  <2>6. turned \in [1..Allocated' -> 1..Allocated']
    BY <1>3, <1>4 DEF IsRing
  <2> QED
    BY <1>4, <2>1, <2>5, <2>6 DEF RingInv
<1>10. CASE ~(k > 1)
  <2>1. lost' # << >> /\ turned[n] = chunk /\ n \in 1..n
    BY <1>1, <1>5, <1>10
  <2>2. \A j \in (n + 1)..n : FALSE
    BY <1>1
  <2>3. Along(turned, n, Allocated)'
    <3>1. /\ IsRing(turned, Allocated', writerChunk', next')
          /\ UNCHANGED <<delivered, chunk>>
      BY <1>3, <1>4
    <3> QED
      BY <1>4, <1>8, <2>1, <2>2, <3>1 DEF Along
  <2>4. turned \in [1..Allocated' -> 1..Allocated']
    BY <1>3, <1>4 DEF IsRing
  <2> QED
    BY <1>4, <2>1, <2>3, <2>4 DEF RingInv
<1> QED
  BY <1>9, <1>10

(* The ring and its writer stay as they are.                               *)
LEMMA RingStays ==
  ASSUME TypeOK, NEW ring, NEW k, IsRing(ring, Allocated, writerChunk, next),
         UNCHANGED <<next, unallocatedBuffers, writerChunk>>,
         k \in 1..Allocated, ring[k] = chunk',
         \A i, j \in 1..Allocated : i < j => Before(Elems(buf'[ring[i]]), Elems(buf'[ring[j]])),
         \A j \in (k + 1)..Allocated : Before(delivered', Elems(buf'[ring[j]])),
         lost' = << >> => \A j \in 1..(k - 1) : buf'[ring[j]] = << >>
  PROVE  RingInv'
<1>1. PICK n : n = Allocated
  OBVIOUS
<1>2. Allocated' = n /\ IsRing(ring, n, writerChunk', next')
  BY <1>1 DEF Allocated
<1>3. Along(ring, k, Allocated)'
  BY <1>1, <1>2 DEF Along
<1>4. ring \in [1..Allocated' -> 1..Allocated']
  BY <1>2 DEF IsRing
<1> QED
  BY <1>1, <1>2, <1>3, <1>4 DEF RingInv

(* The allocated chunks stay on one ring, along which their rows increase  *)
(* from the reader's to the writer's.                                      *)
LEMMA RingStep ==
  ASSUME TypeOK, LockInv, SendInv, OrderInv, [Next]_vars
  PROVE  RingInv'
<1>1. PICK ring, k : Along(ring, k, Allocated)
  BY DEF OrderInv, RingInv
<1>2. /\ buf \in [Chunks -> Seq(Nat)] /\ writerChunk \in Chunks /\ chunk \in Chunks
      /\ accepted \in Nat /\ Len(buf[chunk]) \in Nat /\ sent \in Nat
      /\ Allocated \in Nat \ {0} /\ next[writerChunk] \in Chunks
      /\ next \in [Chunks -> Chunks]
  BY QueueTypes DEF TypeOK, ReaderTypeOK
<1>3. /\ k \in 1..Allocated /\ ring[k] = chunk /\ ring[Allocated] = writerChunk
      /\ next[writerChunk] = ring[1]
      /\ \A i \in 1..Allocated : ring[i] \in Chunks /\ ring[i] \in 1..Allocated
      /\ chunk # writerChunk => k < Allocated /\ k + 1 \in 1..Allocated /\ next[chunk] = ring[k + 1]
  BY <1>1, ChainInRing
<1>4. /\ IsRing(ring, Allocated, writerChunk, next)
      /\ \A i, j \in 1..Allocated : i < j => Before(Elems(buf[ring[i]]), Elems(buf[ring[j]]))
      /\ \A j \in (k + 1)..Allocated : Before(delivered, Elems(buf[ring[j]]))
      /\ lost = << >> => \A j \in 1..(k - 1) : buf[ring[j]] = << >>
  BY <1>1 DEF Along
<1>5. \A i, j \in 1..Allocated : ring[i] = ring[j] => i = j
  BY <1>4 DEF IsRing
<1>6. RowsInv /\ StopInv
  BY DEF OrderInv
<1>7. \A j \in (k + 1)..Allocated : j \in 1..Allocated /\ k < j
  BY <1>2, <1>3
<1>8. CASE Queues /\ chunk' = chunk
  BY <1>3, <1>4, <1>8, RingStays DEF Queues
<1>9. CASE Walks
  <2>1. /\ chunk' = ring[k + 1] /\ k + 1 \in 1..Allocated
        /\ UNCHANGED <<next, unallocatedBuffers, writerChunk, buf, delivered, lost>>
    BY <1>3, <1>9 DEF Walks, Queues, MayAdvance
  <2>2. buf[ring[k]] = << >>
    <3>1. allsent = 1 /\ rpc = "next"
      <4>1. allsent \in {1, -1, -2}
        BY DEF TypeOK, ReaderTypeOK
      <4> QED
        BY <1>9, <4>1 DEF Walks, MayAdvance
    <3> QED
      BY <1>3, <1>6, <3>1 DEF StopInv
  <2>3. ASSUME lost = << >>, NEW j \in 1..((k + 1) - 1)
        PROVE  buf[ring[j]] = << >>
    <3>1. j \in 1..(k - 1) \/ j = k
      BY <1>2, <1>3
    <3> QED
      BY <1>4, <2>2, <2>3, <3>1
  <2>4. \A j \in ((k + 1) + 1)..Allocated : j \in (k + 1)..Allocated
    BY <1>2, <1>3
  <2> QED
    BY <1>4, <2>1, <2>3, <2>4, RingStays
<1>10. CASE Delivers
  <2>1. delivered' \subseteq delivered \cup Elems(buf[chunk])
    <3>1. PICK n \in 0..(Len(buf[chunk]) - sent) :
            delivered' = delivered \cup {buf[chunk][i] : i \in (sent + 1)..(sent + n)}
      BY <1>10 DEF Delivers
    <3>2. \A i \in (sent + 1)..(sent + n) : i \in 1..Len(buf[chunk])
      BY <1>2
    <3> QED
      BY <3>1, <3>2 DEF Elems
  <2>2. UNCHANGED <<next, unallocatedBuffers, writerChunk, buf, lost, chunk>>
    BY <1>10 DEF Delivers, chain
  <2>3. ASSUME NEW j \in (k + 1)..Allocated
        PROVE  Before(delivered', Elems(buf[ring[j]]))
    <3>1. Before(Elems(buf[chunk]), Elems(buf[ring[j]])) /\ Before(delivered, Elems(buf[ring[j]]))
      BY <1>3, <1>4, <1>7
    <3> QED
      BY <2>1, <3>1 DEF Before
  <2> QED
    BY <1>3, <1>4, <2>2, <2>3, RingStays
<1>11. CASE Clears
  <2>1. /\ UNCHANGED <<next, unallocatedBuffers, writerChunk, delivered, lost, chunk>>
        /\ \A c \in Chunks : buf'[c] = IF c = chunk THEN << >> ELSE buf[c]
    BY <1>2, <1>11 DEF Clears
  <2>2. \A i \in 1..Allocated : Elems(buf'[ring[i]]) \subseteq Elems(buf[ring[i]])
    BY <1>3, <2>1, ElemsOfEmpty
  <2>3. \A i, j \in 1..Allocated : i < j => Before(Elems(buf'[ring[i]]), Elems(buf'[ring[j]]))
    BY <1>4, <2>2 DEF Before
  <2>4. \A j \in (k + 1)..Allocated : Before(delivered', Elems(buf'[ring[j]]))
    BY <1>4, <1>7, <2>1, <2>2 DEF Before
  <2>5. lost' = << >> => \A j \in 1..(k - 1) : buf'[ring[j]] = << >>
    <3>1. \A j \in 1..(k - 1) : j \in 1..Allocated
      BY <1>2, <1>3
    <3> QED
      BY <1>3, <1>4, <2>1, <3>1
  <2> QED
    BY <1>3, <1>4, <2>1, <2>3, <2>4, <2>5, RingStays
<1>12. CASE Accepts
  <2>1. /\ UNCHANGED <<next, unallocatedBuffers, writerChunk, delivered, lost, chunk>>
        /\ \A c \in Chunks : buf'[c] = IF c = writerChunk THEN Append(buf[writerChunk], accepted + 1)
                                                          ELSE buf[c]
    BY <1>2, <1>12 DEF Accepts
  <2>2. Allocated \in 1..Allocated
    BY <1>2
  <2>3. \A i \in 1..Allocated : i # Allocated => buf'[ring[i]] = buf[ring[i]]
    BY <1>3, <1>5, <2>1, <2>2
  <2>4. Elems(buf'[ring[Allocated]]) = Elems(buf[ring[Allocated]]) \cup {accepted + 1}
    <3>1. buf[writerChunk] \in Seq(Nat) /\ accepted + 1 \in Nat
      BY <1>2
    <3>2. Elems(Append(buf[writerChunk], accepted + 1)) = Elems(buf[writerChunk]) \cup {accepted + 1}
      BY <3>1, Appended
    <3> QED
      BY <1>2, <1>3, <2>1, <3>2
  <2>5. \A S : S \subseteq 1..accepted => Before(S, {accepted + 1})
    <3>1. \A m \in 1..accepted : m < accepted + 1
      BY <1>2
    <3> QED
      BY <3>1 DEF Before
  <2>6. \A S, T : Before(S, T) /\ Before(S, {accepted + 1}) => Before(S, T \cup {accepted + 1})
    BY DEF Before
  <2>7. ASSUME NEW S, NEW j \in 1..Allocated, S \subseteq 1..accepted, Before(S, Elems(buf[ring[j]]))
        PROVE  Before(S, Elems(buf'[ring[j]]))
    BY <2>3, <2>4, <2>5, <2>6, <2>7, ZenonT(40)
  <2>8. /\ \A c \in Chunks : Elems(buf[c]) \subseteq 1..accepted
        /\ delivered \subseteq 1..accepted
    BY <1>6 DEF RowsInv
  <2>9. ASSUME NEW i \in 1..Allocated, NEW j \in 1..Allocated, i < j
        PROVE  Before(Elems(buf'[ring[i]]), Elems(buf'[ring[j]]))
    <3>1. i # Allocated
      BY <1>2, <2>9
    <3>2. Elems(buf'[ring[i]]) = Elems(buf[ring[i]]) /\ Elems(buf[ring[i]]) \subseteq 1..accepted
      BY <1>3, <2>3, <2>8, <3>1
    <3> QED
      BY <1>4, <2>7, <2>9, <3>2
  <2>10. \A j \in (k + 1)..Allocated : Before(delivered', Elems(buf'[ring[j]]))
    BY <1>4, <1>7, <2>1, <2>7, <2>8
  <2>11. lost' = << >> => \A j \in 1..(k - 1) : buf'[ring[j]] = << >>
    <3>1. \A j \in 1..(k - 1) : j \in 1..Allocated /\ j # Allocated
      BY <1>2, <1>3
    <3> QED
      BY <1>4, <2>1, <2>3, <3>1
  <2> QED
    BY <1>3, <1>4, <2>1, <2>9, <2>10, <2>11, RingStays
<1>13. CASE Takes
  <2>1. /\ UNCHANGED <<delivered, chunk, next, unallocatedBuffers, buf, lost>>
        /\ writerChunk' = next[writerChunk] /\ buf[next[writerChunk]] = << >>
        /\ buf[writerChunk] # << >> /\ ~ReaderAtChain /\ active = 1
    BY <1>13 DEF Takes, WriterLeaves
  <2>2. \A c \in Chunks : buf'[c] = IF c = next[writerChunk] THEN << >> ELSE buf[c]
    BY <2>1
  <2>3. rpc \in {"check", "lock", "wait", "woken"}
    <3>1. rpc \in {"check", "lock", "wait", "woken", "scan", "send", "next", "sleep", "done"}
      BY DEF TypeOK, ControlTypeOK
    <3>2. rpc # "sleep" /\ rpc # "done"
      BY <1>6, <2>1 DEF StopInv, LockInv
    <3> QED
      BY <2>1, <3>1, <3>2 DEF ReaderAtChain
  <2>4. chunk = writerChunk \/ buf[chunk] # << >>
    BY <1>6, <2>3 DEF StopInv, Stopped
  <2>5. chunk # ring[1]
    BY <1>3, <2>1, <2>4
  <2>6. k > 1
    BY <1>2, <1>3, <2>5
  <2> QED
    BY <1>1, <2>1, <2>2, <2>6, RingStaysWhenTurned
<1>14. CASE Drops
  <2>1. /\ UNCHANGED <<delivered, chunk, next, unallocatedBuffers>>
        /\ writerChunk' = next[writerChunk] /\ lost' = lost \o buf[next[writerChunk]]
        /\ buf[next[writerChunk]] # << >>
        /\ \A c \in Chunks : buf'[c] = IF c = next[writerChunk] THEN << >> ELSE buf[c]
    BY <1>2, <1>14 DEF Drops, WriterLeaves
  <2>2. lost' # << >>
    <3>1. lost \in Seq(Nat) /\ buf[next[writerChunk]] \in Seq(Nat)
      BY <1>2 DEF TypeOK, HistoryTypeOK
    <3>2. \A q, r \in Seq(Nat) : r # << >> => q \o r # << >>
      OBVIOUS
    <3> QED
      BY <2>1, <3>1, <3>2
  <2> QED
    BY <1>1, <2>1, <2>2, RingStaysWhenTurned
<1>15. CASE Adds
  <2>1. PICK n : n = Allocated
    OBVIOUS
  <2>2. PICK wider : wider = [i \in 1..(n + 1) |-> IF i = n + 1 THEN n + 1 ELSE ring[i]]
    OBVIOUS
  <2>3. /\ UNCHANGED <<delivered, chunk, lost, buf>> /\ unallocatedBuffers > 0
        /\ writerChunk' = n + 1 /\ unallocatedBuffers' = unallocatedBuffers - 1
        /\ next' = [next EXCEPT ![n + 1] = next[writerChunk], ![writerChunk] = n + 1]
    BY <1>15, <2>1 DEF Adds, WriterLeaves, Allocated
  <2>4. Allocated' = n + 1 /\ n + 1 \in Chunks /\ 1..(n + 1) \subseteq DOMAIN next
        /\ n \in Nat \ {0} /\ n + 1 > Allocated
    <3>1. unallocatedBuffers \in 0..(MaxChunks - 1) /\ MaxChunks \in Nat
      BY ConstantsAssumption DEF TypeOK, ChainTypeOK
    <3>2. DOMAIN next = 1..MaxChunks
      BY <1>2 DEF Chunks
    <3>3. n = MaxChunks - unallocatedBuffers
      BY <2>1 DEF Allocated
    <3> QED
      BY <2>1, <2>3, <3>1, <3>2, <3>3 DEF Allocated, Chunks
  <2>5. IsRing(wider, n + 1, writerChunk', next')
    BY <1>4, <2>1, <2>2, <2>3, <2>4, RingGrows
  <2>6. /\ \A i \in 1..(n + 1) : i \in 1..n \/ i = n + 1
        /\ \A i \in 1..n : i \in 1..(n + 1) /\ i # n + 1
        /\ n + 1 \in 1..(n + 1)
    BY <2>4
  <2>7. wider[n + 1] = n + 1 /\ \A i \in 1..n : wider[i] = ring[i]
    BY <2>2, <2>6
  <2>8. Elems(buf[wider[n + 1]]) = {}
    <3>1. buf[n + 1] = << >>
      BY <1>6, <2>4 DEF RowsInv
    <3> QED
      BY <2>7, <3>1, ElemsOfEmpty
  <2>9. \A S : Before(S, {})
    BY DEF Before
  <2>10. ASSUME NEW i \in 1..(n + 1), NEW j \in 1..(n + 1), i < j
         PROVE  Before(Elems(buf[wider[i]]), Elems(buf[wider[j]]))
    <3>1. CASE j = n + 1
      BY <2>8, <2>9, <3>1
    <3>2. CASE j # n + 1
      <4>1. i \in 1..n /\ j \in 1..n
        BY <2>4, <2>10, <3>2
      <4> QED
        BY <1>4, <2>1, <2>7, <2>10, <4>1
    <3> QED
      BY <3>1, <3>2
  <2>11. ASSUME NEW j \in (k + 1)..(n + 1)
         PROVE  Before(delivered, Elems(buf[wider[j]]))
    <3>1. j = n + 1 \/ (j \in (k + 1)..n /\ j \in 1..n)
      BY <1>3, <2>1, <2>4
    <3> QED
      BY <1>4, <2>1, <2>7, <2>8, <2>9, <3>1
  <2>12. /\ k \in 1..(n + 1) /\ wider[k] = chunk
         /\ \A j \in 1..(k - 1) : j \in 1..n
    BY <1>3, <2>1, <2>4, <2>7
  <2>13. Along(wider, k, Allocated)'
    BY <1>4, <2>3, <2>4, <2>5, <2>7, <2>10, <2>11, <2>12 DEF Along
  <2>14. wider \in [1..Allocated' -> 1..Allocated']
    BY <2>4, <2>5 DEF IsRing
  <2> QED
    BY <2>4, <2>12, <2>13, <2>14 DEF RingInv
<1> QED
  BY <1>8, <1>9, <1>10, <1>11, <1>12, <1>13, <1>14, <1>15, QueueForms

(* When the drain ends with everything sent, the chain is empty.           *)
LEMMA DrainedChainIsEmpty ==
  ASSUME TypeOK, OrderInv, rpc = "next", allsent = 1, chunk = writerChunk, lost = << >>, NEW c \in Chunks
  PROVE  buf[c] = << >>
<1>1. PICK ring, k : Along(ring, k, Allocated)
  BY DEF OrderInv, RingInv
<1>2. CASE c > Allocated
  BY <1>2 DEF OrderInv, RowsInv
<1>3. CASE ~(c > Allocated)
  <2>1. Allocated \in Nat \ {0} /\ Chunks = 1..MaxChunks /\ MaxChunks \in Nat
    BY QueueTypes
  <2>2. c \in 1..Allocated /\ Allocated \in 1..Allocated
    BY <1>3, <2>1
  <2>3. /\ k \in 1..Allocated /\ ring[k] = chunk /\ ring[Allocated] = writerChunk
        /\ IsRing(ring, Allocated, writerChunk, next)
    BY <1>1, ChainInRing DEF Along
  <2>4. k = Allocated
    BY <2>2, <2>3 DEF IsRing
  <2>5. PICK i \in 1..Allocated : ring[i] = c
    BY <2>2, <2>3 DEF IsRing
  <2>6. CASE i = Allocated
    BY <2>3, <2>5, <2>6 DEF OrderInv, StopInv
  <2>7. CASE i # Allocated
    <3>1. i \in 1..(k - 1)
      BY <2>1, <2>4, <2>7
    <3> QED
      BY <1>1, <2>5, <3>1 DEF Along
  <2> QED
    BY <2>6, <2>7
<1> QED
  BY <1>2, <1>3

(* A reader that stops has come to the end of the ring, or has rows to     *)
(* send.                                                                   *)
LEMMA StopStep ==
  ASSUME TypeOK, LockInv, OrderInv, [Next]_vars
  PROVE  StopInv'
<1>1. /\ Stopped => chunk = writerChunk \/ buf[chunk] # << >>
      /\ rpc = "next" /\ allsent = 1 => buf[chunk] = << >>
      /\ rpc = "done" => loop = "drain"
      /\ retval # 0 => rpc = "done"
      /\ retval = 1 /\ lost = << >> => \A c \in Chunks : buf[c] = << >>
      /\ rpc = "sleep" => loop = "drain"
      /\ loop = "drain" => active = 0
  BY DEF OrderInv, StopInv, LockInv
<1>2. /\ buf \in [Chunks -> Seq(Nat)] /\ writerChunk \in Chunks /\ chunk \in Chunks
      /\ accepted \in Nat /\ next[writerChunk] \in Chunks
      /\ allsent \in {1, -1, -2}
  BY QueueTypes DEF TypeOK, ReaderTypeOK
<1>3. ASSUME UNCHANGED <<writerChunk, buf, chunk, lost, loop, allsent, retval>>,
             rpc' = rpc \/ rpc' = Signalled
      PROVE  StopInv'
  BY <1>1, <1>3 DEF StopInv, Stopped, Signalled
<1>4. ASSUME NEW p \in Producers, RowStart(p)
      PROVE  StopInv'
  <2>1. UNCHANGED <<rpc, loop, allsent, retval, chunk>> /\ lock = NoThread
    BY <1>4 DEF RowStart, readerVars
  <2>2. CASE UNCHANGED <<chain, lost>>
    BY <1>3, <2>1, <2>2 DEF chain
  <2>3. CASE active = 1 /\ Len(buf[writerChunk]) >= TargetBufSize /\ GetNextWriteChunk(p)
    <3>1. ~ReaderAtChain
      BY <1>4, <2>1, <2>3, NoRowWhileReading
    <3>2. buf[writerChunk] # << >>
      <4>1. Len(<< >>) = 0 /\ TargetBufSize >= 1 /\ TargetBufSize \in Nat
        BY ConstantsAssumption
      <4> QED
        BY <2>3, <4>1
    <3>3. Stopped => buf[chunk] # << >>
      BY <1>1, <3>2
    <3>4. UNCHANGED buf \/ (writerChunk' = next[writerChunk]
                            /\ buf' = [buf EXCEPT ![next[writerChunk]] = << >>])
      BY <2>3 DEF GetNextWriteChunk, UseNextChunk, AddChunk, DropNextChunk
    <3>5. Stopped' => chunk' = writerChunk' \/ buf'[chunk'] # << >>
      <4>1. Stopped' => Stopped
        BY <2>1 DEF Stopped
      <4> QED
        BY <1>2, <2>1, <3>3, <3>4, <4>1
    <3>6. retval' # 1 /\ rpc' # "next"
      BY <1>1, <2>1, <2>3, <3>1 DEF ReaderAtChain
    <3> QED
      BY <1>1, <2>1, <3>5, <3>6 DEF StopInv
  <2> QED
    BY <1>4, <2>2, <2>3 DEF RowStart
<1>5. ASSUME NEW p \in Producers, RowEnd(p)
      PROVE  StopInv'
  <2>1. /\ UNCHANGED <<loop, chunk, allsent, retval, writerChunk>> /\ rpc' = Signalled
        /\ \A c \in Chunks : buf'[c] = IF c = writerChunk THEN Append(buf[writerChunk], accepted + 1)
                                                          ELSE buf[c]
    BY <1>2, <1>5 DEF RowEnd, Signal
  <2>2. ~ReaderAtChain /\ active = 1
    <3>1. InRow(p)
      BY <1>5 DEF RowEnd, InRow
    <3> QED
      BY <3>1, NoRowWhileReading DEF LockInv
  <2>3. Stopped' => Stopped
    BY <2>1 DEF Stopped, Signalled
  <2>4. retval' # 1 /\ rpc' # "next"
    BY <1>1, <2>1, <2>2 DEF ReaderAtChain, Signalled
  <2> QED
    BY <1>1, <1>2, <2>1, <2>3, <2>4 DEF StopInv, Signalled
<1>6. ASSUME NEW p \in Producers, ProducerStep(p), ~RowStart(p), ~RowEnd(p)
      PROVE  StopInv'
  BY <1>3, <1>6 DEF ProducerStep, StoreLoss, RowEndRefused, RowAbort, RowEndFailed, LoadLoss, ClearLoss,
              Signal, readerVars, chain, history
<1>7. CASE CloseBegin \/ CloseEnd \/ UNCHANGED vars \/ CoolDown
  BY <1>3, <1>7 DEF CloseBegin, CloseEnd, CoolDown, ReaderKeeps, Signal, readerVars, vars, chain, history
<1>8. CASE ReaderCheck \/ ReaderWait \/ SpuriousWakeup \/ ReaderWake
  BY <1>1, <1>8 DEF ReaderCheck, ReaderWait, SpuriousWakeup, ReaderWake, ReaderKeeps, chain,
                    StopInv, Stopped
<1>9. CASE SkipEmptyChunk \/ StillBackingOff
  BY <1>1, <1>9 DEF SkipEmptyChunk, StillBackingOff, CallsProcessChunk, ReaderKeeps, chain,
                    StopInv, Stopped
<1>10. CASE BeginChunk
  BY <1>1, <1>10 DEF BeginChunk, CallsProcessChunk, ReaderKeeps, chain, StopInv, Stopped
<1>11. ASSUME NEW n \in 0..TargetBufSize, WriteOk(n)
       PROVE  StopInv'
  BY <1>3, <1>11 DEF WriteOk, ReaderKeeps, chain
<1>12. CASE WriteFail
  <2>1. buf[chunk] # << >>
    <3>1. sent < Len(buf[chunk]) /\ sent \in Nat /\ Len(<< >>) = 0
      BY <1>12 DEF WriteFail, TypeOK, ReaderTypeOK
    <3> QED
      BY <3>1
  <2> QED
    BY <1>1, <1>12, <2>1 DEF WriteFail, ReaderKeeps, chain, StopInv, Stopped
<1>13. CASE EndChunk
  <2>1. /\ UNCHANGED <<chunk, loop, retval, lost>> /\ rpc = "send" /\ rpc' = "next" /\ allsent' = 1
        /\ buf'[chunk] = << >>
    BY <1>2, <1>13 DEF EndChunk, history
  <2>2. ~(allsent' < 0)
    BY <2>1
  <2> QED
    BY <1>1, <2>1, <2>2 DEF StopInv, Stopped
<1>14. CASE WalkOn
  BY <1>1, <1>2, <1>14 DEF WalkOn, MayAdvance, ReaderKeeps, chain, StopInv, Stopped
<1>15. CASE DrainOn
  <2>1. /\ UNCHANGED <<loop, allsent, buf, lost, writerChunk>> /\ loop = "drain" /\ rpc = "next"
        /\ rpc' \in {"scan", "sleep", "done"}
        /\ retval' = retval \/ (rpc' = "done" /\ retval' = allsent /\ ~MayAdvance)
    BY <1>15 DEF DrainOn, ReaderKeeps, chain
  <2>2. retval = 0
    BY <1>1, <2>1
  <2>3. ASSUME retval' = 1, lost = << >>, NEW c \in Chunks
        PROVE  buf[c] = << >>
    <3>1. allsent = 1 /\ chunk = writerChunk
      BY <2>1, <2>2, <2>3 DEF MayAdvance
    <3> QED
      BY <2>1, <2>3, <3>1, DrainedChainIsEmpty
  <2> QED
    BY <1>1, <2>1, <2>2, <2>3 DEF StopInv, Stopped
<1>16. CASE DrainSleep
  BY <1>1, <1>16 DEF DrainSleep, ReaderKeeps, chain, StopInv, Stopped
<1> QED
  BY <1>4, <1>5, <1>6, <1>7, <1>8, <1>9, <1>10, <1>11, <1>12, <1>13, <1>14, <1>15, <1>16
  DEF Next, Elsewhere, ReaderLoop, Write

(* The one chunk of a new writer is empty.                                 *)
LEMMA OrderInit ==
  ASSUME Init
  PROVE  OrderInv
<1>1. /\ MaxChunks \in Nat /\ MaxChunks >= 2 /\ 1 \in Chunks /\ chunk = 1 /\ writerChunk = 1
      /\ Allocated = 1 /\ next[1] = 1 /\ buf = [c \in Chunks |-> << >>] /\ lost = << >> /\ delivered = {}
  BY ConstantsAssumption DEF Init, Allocated, Chunks
<1>2. \A c \in Chunks : buf[c] = << >> /\ Elems(buf[c]) = {} /\ Len(buf[c]) = 0
  BY <1>1, ElemsOfEmpty
<1>3. RowsInv
  BY <1>1, <1>2, ElemsOfEmpty DEF RowsInv, Before
<1>4. ChunkInv
  BY <1>1, <1>2 DEF ChunkInv
<1>5. RingInv
  <2> DEFINE ring == [i \in 1..1 |-> 1]
  <2>1. ring[1] = 1 /\ 1 \in 1..1 /\ \A i \in 1..1 : i = 1
    OBVIOUS
  <2>2. ring \in [1..1 -> 1..1]
    OBVIOUS
  <2> HIDE DEF ring
  <2>3. IsRing(ring, 1, writerChunk, next)
    BY <1>1, <2>1, <2>2 DEF IsRing
  <2>4. Along(ring, 1, 1)
    <3>1. \A i, j \in 1..1 : ~(i < j)
      BY <2>1
    <3>2. \A j \in (1 + 1)..1 : FALSE
      OBVIOUS
    <3>3. \A j \in 1..(1 - 1) : FALSE
      OBVIOUS
    <3> QED
      BY <1>1, <2>1, <2>3, <3>1, <3>2, <3>3 DEF Along
  <2> QED
    BY <1>1, <2>1, <2>2, <2>4 DEF RingInv
<1>6. StopInv
  BY <1>1 DEF Init, StopInv, Stopped
<1> QED
  BY <1>3, <1>4, <1>5, <1>6 DEF OrderInv

(* The facts about order are inductive, given types, the lock, what the    *)
(* reader has sent of its chunk, and that no row vanishes.                 *)
QueueInv == TypeOK /\ LockInv /\ SendInv /\ EveryRowAccountedFor /\ OrderInv

(* The queue keeps its order whatever the threads do.                      *)
LEMMA QueueInvariant == Spec => []QueueInv
<1>1. Init => LockInv /\ SendInv /\ EveryRowAccountedFor
  BY ConstantsAssumption DEF Init, LockInv, InRow, ReaderAtChain, SendInv, EveryRowAccountedFor
<1>2. Init => OrderInv
  BY OrderInit
<1>3. TypeOK /\ LockInv /\ SendInv /\ EveryRowAccountedFor /\ [Next]_vars
        => LockInv' /\ SendInv' /\ EveryRowAccountedFor'
  BY LockStep, SendStep, AccountStep
<1>4. TypeOK /\ LockInv /\ SendInv /\ OrderInv /\ [Next]_vars => OrderInv'
  BY RowsStep, ChunkStep, RingStep, StopStep DEF OrderInv
<1> QED
  BY <1>1, <1>2, <1>3, <1>4, TypeCorrect, PTL DEF Spec, QueueInv

(* When threadStart has returned 1 and no chunk was ever dropped, the out  *)
(* stream has taken every row that was accepted: the reader leaves nothing *)
(* behind in the chain, wherever the writer and a failed write found it.   *)
THEOREM DrainLeavesNothing == Spec => []DrainedWithoutOverflow
<1>1. ASSUME QueueInv, retval = 1, lost = << >>
      PROVE  1..accepted \subseteq delivered
  <2>1. \A c \in Chunks : buf[c] = << >>
    BY <1>1 DEF QueueInv, OrderInv, StopInv
  <2>2. \A i \in 1..0 : FALSE
    OBVIOUS
  <2>3. Len(<< >>) = 0
    OBVIOUS
  <2>4. \A m : ~Queued(m) /\ ~Dropped(m)
    BY <1>1, <2>1, <2>2, <2>3 DEF Queued, Dropped
  <2> QED
    BY <1>1, <2>4 DEF QueueInv, EveryRowAccountedFor
<1>2. QueueInv => DrainedWithoutOverflow
  BY <1>1 DEF DrainedWithoutOverflow
<1> QED
  BY <1>2, QueueInvariant, PTL

-----------------------------------------------------------------------------
(* Refinement of MeasurementQueue.                                         *)

(* A write to the out stream hands on rows that are newer than all it had. *)
LEMMA DeliversInOrder ==
  ASSUME QueueInv, Delivers
  PROVE  Queue!Deliver
<1>1. PICK n \in 0..(Len(buf[chunk]) - sent) :
        delivered' = delivered \cup {buf[chunk][i] : i \in (sent + 1)..(sent + n)}
  BY DEF Delivers
<1>2. chunk \in Chunks /\ Len(buf[chunk]) \in Nat /\ sent \in Nat
  BY QueueTypes DEF QueueInv, TypeOK, ReaderTypeOK
<1>3. \A i \in (sent + 1)..(sent + n) : i \in 1..Len(buf[chunk])
  BY <1>2
<1> DEFINE rows == {buf[chunk][i] : i \in (sent + 1)..(sent + n)} \ delivered
<1>4. rows \subseteq Elems(buf[chunk]) /\ delivered' = delivered \cup rows /\ rows \cap delivered = {}
  BY <1>1, <1>3 DEF Elems
<1>5. Elems(buf[chunk]) \subseteq 1..accepted /\ Before(Elems(lost), Elems(buf[chunk])) /\ accepted \in Nat
  BY <1>2, QueueTypes DEF QueueInv, OrderInv, RowsInv
<1>6. \A m \in Elems(buf[chunk]) : m \notin Elems(lost)
  <2>1. \A m \in 1..accepted : ~(m < m)
    BY <1>5
  <2> QED
    BY <1>5, <2>1 DEF Before
<1>7. \A m \in rows, a \in delivered : a < m
  BY <1>4 DEF QueueInv, OrderInv, ChunkInv, Before
<1> HIDE DEF rows
<1>8. rows \in SUBSET ((1..accepted) \ (delivered \cup Elems(lost)))
  BY <1>4, <1>5, <1>6
<1>9. UNCHANGED <<accepted, Elems(lost)>>
  BY DEF Delivers, Elems
<1> QED
  BY <1>4, <1>7, <1>8, <1>9 DEF Queue!Deliver, Elems

(* A chunk that is dropped holds the oldest rows of the queue.             *)
LEMMA DropsTheOldest ==
  ASSUME QueueInv, Drops
  PROVE  Queue!Drop
<1> DEFINE c == next[writerChunk]
           rows == Elems(buf[c])
<1>1. c \in Chunks /\ accepted \in Nat /\ lost \in Seq(Nat) /\ buf[c] \in Seq(Nat)
  <2>1. TypeOK
    BY DEF QueueInv
  <2> QED
    BY <2>1, QueueTypes
<1>2. rows \subseteq 1..accepted /\ Before(Elems(lost), rows)
  BY <1>1 DEF QueueInv, OrderInv, RowsInv
<1>3. UNCHANGED <<accepted, delivered>> /\ lost' = lost \o buf[c]
  BY DEF Drops, WriterLeaves
<1>4. Elems(lost') = Elems(lost) \cup rows
  BY <1>1, <1>3, Joined
<1>5. ASSUME NEW m \in rows, NEW a \in 1..accepted, a < m
      PROVE  a \in delivered \cup Elems(lost) \cup rows
  <2>1. CASE Queued(a)
    <3>1. PICK e \in Chunks : a \in Elems(buf[e])
      BY <2>1 DEF Queued, Elems
    <3>2. CASE e = c
      BY <3>1, <3>2
    <3>3. CASE e # c
      <4>1. Before(rows, Elems(buf[e]))
        BY <3>3, OldestChunk DEF QueueInv, OrderInv
      <4>2. m < a /\ m \in 1..accepted
        BY <1>2, <1>5, <3>1, <4>1 DEF Before
      <4> QED
        BY <1>1, <1>5, <4>2
    <3> QED
      BY <3>2, <3>3
  <2>2. CASE a \in delivered \/ Dropped(a)
    BY <2>2 DEF Dropped, Elems
  <2> QED
    BY <2>1, <2>2 DEF QueueInv, EveryRowAccountedFor
<1>6. \A m \in rows : m \notin Elems(lost)
  <2>1. \A m \in 1..accepted : ~(m < m)
    BY <1>1
  <2> QED
    BY <1>2, <2>1 DEF Before
<1> HIDE DEF rows
<1>7. rows \in SUBSET ((1..accepted) \ Elems(lost))
  BY <1>2, <1>6
<1> QED
  BY <1>3, <1>4, <1>5, <1>7 DEF Queue!Drop, Elems

(* As a queue the BufferedWriter is a lossy FIFO: for any number of        *)
(* producers, chunks and rows, what it does to accepted, delivered and     *)
(* dropped rows is what MeasurementQueue allows.                           *)
THEOREM RefinesMeasurementQueue == Spec => ImplementsQueue
<1>1. Init => Queue!Init
  <2>1. \A i \in 1..0 : FALSE
    OBVIOUS
  <2>2. Len(<< >>) = 0
    OBVIOUS
  <2> QED
    BY <2>1, <2>2 DEF Init, Queue!Init
<1>2. QueueInv /\ [Next]_vars => [Queue!Next]_(Queue!vars)
  <2> SUFFICES ASSUME QueueInv, [Next]_vars
               PROVE  [Queue!Next]_(Queue!vars)
    OBVIOUS
  <2>1. TypeOK /\ LockInv
    BY DEF QueueInv
  <2>2. CASE Delivers
    BY <2>2, DeliversInOrder DEF Queue!Next
  <2>3. CASE Drops
    BY <2>3, DropsTheOldest DEF Queue!Next
  <2>4. CASE Accepts
    BY <2>4 DEF Accepts, Queue!Accept, Queue!Next
  <2>5. CASE Queues \/ Walks \/ Clears \/ Takes \/ Adds
    BY <2>5 DEF Queues, Walks, Clears, Takes, Adds, WriterLeaves, Queue!vars
  <2> QED
    BY <2>1, <2>2, <2>3, <2>4, <2>5, QueueForms
<1> QED
  BY <1>1, <1>2, QueueInvariant, PTL DEF Spec, ImplementsQueue, Queue!Spec
===============================================================================
