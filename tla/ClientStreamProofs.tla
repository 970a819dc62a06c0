--------------------------- MODULE ClientStreamProofs ---------------------------
(***************************************************************************)
(* What reaches the server on a connection: proofs about ClientStream, for *)
(* any rows, chunks and failures of the socket.  The facts about the queue *)
(* of BufferedWriterProofs hold here as well, for the stream's steps are   *)
(* steps of the BufferedWriter.                                            *)
(***************************************************************************)
EXTENDS ClientStream, BufferedWriterProofs

(* Every step of the stream is one of the BufferedWriter, or leaves it     *)
(* alone.                                                                  *)
LEMMA StreamStepsQueue ==
  ASSUME [StreamNext]_allVars
  PROVE  [Next]_vars
<1>1. ASSUME NEW n \in 0..TargetBufSize, NEW k \in {0, 1}, SendData(n, k)
      PROVE  Next
  BY <1>1 DEF SendData, Next, Write
<1> QED
  BY <1>1 DEF StreamNext, SendHeader, FailHeader, LoseHeader, FailData, PeerCloses, Next, Write, allVars

(* The facts about the queue hold with the stream behind it.               *)
LEMMA StreamKeepsQueue == StreamSpec => []QueueInv
<1>1. StreamSpec => Spec
  <2>1. StreamInit => Init
    BY DEF StreamInit
  <2>2. [StreamNext]_allVars => [Next]_vars
    BY StreamStepsQueue
  <2> QED
    BY <2>1, <2>2, PTL DEF StreamSpec, Spec
<1> QED
  BY <1>1, QueueInvariant, PTL

-----------------------------------------------------------------------------
(* What is on the wire.                                                    *)

Items ==
  ({"row", "head", "tail"} \X Nat) \cup ({"fail", "noheader"} \X {0}) \cup ({"header"} \X Seq(Nat))

StreamTypeOK ==
  /\ is_disconnected \in {0, 1}
  /\ header_written \in {0, 1}
  /\ step \in {"call", "data"}
  /\ part \in {0, 1}
  /\ peer \in {"open", "closed"}
  /\ wire \in Seq(Items)

(* How much of the wire stays when the socket reaches the server.          *)
Held == IF is_disconnected = 1 THEN 0 ELSE Len(wire)

(* What reaches a peer that is there follows what has reached it on this   *)
(* connection.                                                             *)
LEMMA ReachesAppends ==
  ASSUME StreamTypeOK, NEW q \in Seq(Items), Reaches(q)
  PROVE  /\ is_disconnected' = 0 /\ peer' = "open" /\ wire' \in Seq(Items)
         /\ Held \in Nat /\ Len(wire) \in Nat /\ Held <= Len(wire)
         /\ Len(wire') = Held + Len(q)
         /\ \A i \in 1..Held : wire'[i] = wire[i]
         /\ \A t \in 1..Len(q) : wire'[Held + t] = q[t]
<1>1. wire \in Seq(Items) /\ is_disconnected \in {0, 1}
  BY DEF StreamTypeOK
<1>2. CASE is_disconnected = 1
  <2>1. wire' = q /\ Held = 0 /\ is_disconnected' = 0 /\ peer' = "open"
    BY <1>2 DEF Reaches, Held
  <2> QED
    BY <1>1, <2>1
<1>3. CASE is_disconnected = 0
  <2>1. wire' = wire \o q /\ Held = Len(wire) /\ is_disconnected' = 0 /\ peer' = "open"
    BY <1>3 DEF Reaches, Held
  <2> QED
    BY <1>1, <2>1
<1> QED
  BY <1>1, <1>2, <1>3

(* A mark, or the headers, on the wire.                                    *)
LEMMA ReachesMarks ==
  ASSUME StreamTypeOK, NEW x \in Items, Reaches(<<x>>)
  PROVE  /\ is_disconnected' = 0 /\ peer' = "open" /\ wire' \in Seq(Items)
         /\ Held \in Nat /\ Len(wire) \in Nat /\ Held <= Len(wire)
         /\ Len(wire') = Held + 1 /\ wire'[Held + 1] = x
         /\ \A i \in 1..Held : wire'[i] = wire[i]
<1>1. <<x>> \in Seq(Items) /\ Len(<<x>>) = 1 /\ <<x>>[1] = x /\ 1 \in 1..1
  OBVIOUS
<1> QED
  BY <1>1, ReachesAppends

Connected == is_disconnected = 0 /\ header_written = 1

(* Between the connection and the call: once the headers are sent there is *)
(* something in their place on the wire, without them nothing of the chunk *)
(* is sent, and only the last item may be the head of a row.               *)
CallInv ==
  /\ step = "data" => Connected
  /\ Connected => \E i \in 1..Len(wire) : Kind(i) \in {"header", "noheader"}
  /\ rpc = "send" /\ ~Connected => sent = 0
  /\ part = 1 =>
       /\ Connected /\ rpc = "send" /\ sent < Len(buf[chunk])
       /\ Len(wire) > 0 /\ wire[Len(wire)] = <<"head", buf[chunk][sent + 1]>>
  /\ is_disconnected = 0 /\ Len(wire) > 0 /\ Kind(Len(wire)) = "head" => part = 1

(* What SendData puts on the wire: w rows from sent + 1 on, the first as a *)
(* tail if its head is there, and perhaps the head of one more.            *)
DataSent(n, k, w) ==
  /\ w = IF k = 1 /\ ~(n = 0 /\ part = 1) THEN n + 1 ELSE n
  /\ wire' \in Seq(Items) /\ Len(wire) \in Nat /\ Len(wire') = Len(wire) + w
  /\ \A i \in 1..Len(wire) : wire'[i] = wire[i]
  /\ \A t \in 1..w :
       /\ sent + t \in 1..Len(buf[chunk])
       /\ wire'[Len(wire) + t] =
            <<IF t = n + 1 THEN "head" ELSE IF t = 1 /\ part = 1 THEN "tail" ELSE "row",
              buf[chunk][sent + t]>>

(* A write of rows adds them to the connection from the place the reader   *)
(* has come to; the first of them may be the rest of one.                  *)
LEMMA DataOnWire ==
  ASSUME TypeOK, StreamTypeOK, CallInv, NEW n \in Nat, NEW k \in {0, 1}, SendData(n, k)
  PROVE  /\ Connected /\ rpc = "send" /\ Connected' /\ n + k > 0 /\ sent + n + k <= Len(buf[chunk])
         /\ \E w \in Nat : DataSent(n, k, w)
<1>1. /\ WritesData /\ n + k > 0 /\ sent + n + k <= Len(buf[chunk])
      /\ header_written' = header_written
  BY DEF SendData
<1>2. Connected /\ rpc = "send"
  BY <1>1 DEF WritesData, InCall, NeedsHeader, CallInv, Connected, StreamTypeOK
<1>3. Held = Len(wire)
  BY <1>2 DEF Held, Connected
<1> DEFINE row(i) == buf[chunk][sent + i]
           whole == [i \in 1..n |-> <<IF i = 1 /\ part = 1 THEN "tail" ELSE "row", row(i)>>]
           last == <<"head", row(n + 1)>>
           more == k = 1 /\ ~(n = 0 /\ part = 1)
           head == IF more THEN <<last>> ELSE << >>
           w == IF more THEN n + 1 ELSE n
<1>4. Reaches(whole \o head)
  BY DEF SendData
<1>5. /\ buf[chunk] \in Seq(Nat) /\ sent \in Nat /\ Len(buf[chunk]) \in Nat
  BY QueueTypes DEF TypeOK, ReaderTypeOK
<1>6. \A t \in 1..(n + 1) : t <= n + k => sent + t \in 1..Len(buf[chunk]) /\ row(t) \in Nat
  BY <1>1, <1>5, SMTT(40)
<1>7. whole \in Seq(Items) /\ Len(whole) = n
  <2>1. \A t \in 1..n : row(t) \in Nat
    BY <1>6
  <2>2. \A t \in 1..n : <<IF t = 1 /\ part = 1 THEN "tail" ELSE "row", row(t)>> \in Items
    BY <2>1 DEF Items
  <2> HIDE DEF row
  <2> QED
    BY <2>2
<1>8. head \in Seq(Items) /\ Len(head) = IF more THEN 1 ELSE 0
  <2>1. CASE more
    <3>1. row(n + 1) \in Nat
      BY <1>6, <2>1
    <3>2. last \in Items
      BY <3>1 DEF Items
    <3> QED
      BY <2>1, <3>2
  <2>2. CASE ~more
    BY <2>2
  <2> QED
    BY <2>1, <2>2
<1>9. \A t \in 1..n : (whole \o head)[t] = whole[t]
  BY <1>7, <1>8
<1>10. whole \o head \in Seq(Items) /\ Len(whole \o head) = w
  BY <1>7, <1>8
<1>11. more => (whole \o head)[n + 1] = last
  BY <1>7, <1>8
<1>12. /\ is_disconnected' = 0 /\ wire' \in Seq(Items) /\ Len(wire) \in Nat
       /\ Len(wire') = Len(wire) + w
       /\ \A i \in 1..Len(wire) : wire'[i] = wire[i]
       /\ \A t \in 1..w : wire'[Len(wire) + t] = (whole \o head)[t]
  <2> HIDE DEF whole, head, w
  <2> QED
    BY <1>3, <1>4, <1>10, ReachesAppends
<1>13. \A t \in 1..w : (whole \o head)[t] =
         <<IF t = n + 1 THEN "head" ELSE IF t = 1 /\ part = 1 THEN "tail" ELSE "row", row(t)>>
  <2>1. \A t \in 1..w : t \in 1..n \/ (t = n + 1 /\ more)
    OBVIOUS
  <2>2. \A t \in 1..n : t # n + 1
    OBVIOUS
  <2> QED
    BY <1>9, <1>11, <2>1, <2>2
<1>14. \A t \in 1..w : sent + t \in 1..Len(buf[chunk])
  BY <1>6
<1>15. DataSent(n, k, w) /\ w \in Nat
  <2>1. w = (IF k = 1 /\ ~(n = 0 /\ part = 1) THEN n + 1 ELSE n) /\ w \in Nat
    OBVIOUS
  <2> HIDE DEF whole, head, w
  <2>2. ASSUME NEW t \in 1..w
        PROVE  /\ sent + t \in 1..Len(buf[chunk])
               /\ wire'[Len(wire) + t] =
                    <<IF t = n + 1 THEN "head" ELSE IF t = 1 /\ part = 1 THEN "tail" ELSE "row",
                      buf[chunk][sent + t]>>
    BY <1>12, <1>13, <1>14
  <2> QED
    BY <1>12, <2>1, <2>2 DEF DataSent
<1> QED
  BY <1>1, <1>2, <1>12, <1>15 DEF Connected

-----------------------------------------------------------------------------
(* Steps of the stream and of what is around it.                           *)

(* The stream is not written to.                                           *)
Around ==
  /\ Elsewhere \/ UNCHANGED vars
  /\ UNCHANGED <<is_disconnected, header_written, step, part, wire>>
  /\ peer' \in {peer, "closed"}

(* The call fails and leaves a mark, if the connection is still there.     *)
Fails ==
  /\ rpc = "send" /\ rpc' = "next" /\ sent < Len(buf[chunk])
  /\ UNCHANGED <<accepted, delivered, lost, buf, chunk, sent, meta>>
  /\ \/ is_disconnected' = 1 /\ peer' = "closed" /\ UNCHANGED wire
     \/ Reaches(<< <<"fail", 0>> >>)

(* Every step of the stream is one of these forms.                         *)
LEMMA StreamForms ==
  ASSUME [StreamNext]_allVars
  PROVE  \/ Around
         \/ SendHeader
         \/ FailHeader /\ Fails
         \/ LoseHeader
         \/ \E n \in 0..TargetBufSize, k \in {0, 1} : SendData(n, k)
         \/ FailData /\ Fails
<1>1. WriteFail => /\ rpc = "send" /\ rpc' = "next" /\ sent < Len(buf[chunk])
                   /\ UNCHANGED <<accepted, delivered, lost, buf, chunk, sent, meta>>
  BY DEF WriteFail, ReaderKeeps, chain
<1>2. FindsClosed => is_disconnected' = 1 /\ peer' = "closed" /\ UNCHANGED wire
  BY DEF FindsClosed
<1>3. FailHeader => Fails
  BY <1>1, <1>2 DEF FailHeader, Fails
<1>4. FailData => Fails
  BY <1>1, <1>2 DEF FailData, Fails
<1>5. CASE Elsewhere /\ UNCHANGED streamVars
  BY <1>5 DEF Around, streamVars
<1>6. CASE PeerCloses \/ UNCHANGED allVars
  BY <1>6 DEF Around, streamVars, PeerCloses, allVars
<1> QED
  BY <1>3, <1>4, <1>5, <1>6 DEF StreamNext

(* The socket, its peer and what has reached it keep their types.          *)
LEMMA StreamTypeStep ==
  ASSUME TypeOK, StreamTypeOK, CallInv, [StreamNext]_allVars
  PROVE  StreamTypeOK'
<1>1. CASE Around
  BY <1>1 DEF Around, StreamTypeOK
<1>2. CASE SendHeader
  <2>1. <<"header", meta>> \in Items
    BY DEF Items, TypeOK, ProducerTypeOK
  <2>2. Reaches(<< <<"header", meta>> >>)
    BY <1>2 DEF SendHeader
  <2>3. is_disconnected' = 0 /\ peer' = "open" /\ wire' \in Seq(Items)
    BY <2>1, <2>2, ReachesMarks
  <2> QED
    BY <1>2, <2>3 DEF SendHeader, StreamTypeOK
<1>3. CASE Fails /\ (FailHeader \/ FailData)
  <2>1. <<"fail", 0>> \in Items
    BY DEF Items
  <2>2. is_disconnected' \in {0, 1} /\ peer' \in {"open", "closed"} /\ wire' \in Seq(Items)
    BY <1>3, <2>1, ReachesMarks DEF Fails, StreamTypeOK
  <2> QED
    BY <1>3, <2>2 DEF FailHeader, FailData, StreamTypeOK
<1>4. CASE LoseHeader
  <2>1. <<"noheader", 0>> \in Items
    BY DEF Items
  <2>2. Reaches(<< <<"noheader", 0>> >>)
    BY <1>4 DEF LoseHeader
  <2>3. is_disconnected' = 0 /\ peer' = "open" /\ wire' \in Seq(Items)
    BY <2>1, <2>2, ReachesMarks
  <2> QED
    BY <1>4, <2>3 DEF LoseHeader, StreamTypeOK
<1>5. ASSUME NEW n \in 0..TargetBufSize, NEW k \in {0, 1}, SendData(n, k)
      PROVE  StreamTypeOK'
  <2>1. n \in Nat
    BY ConstantsAssumption
  <2>2. wire' \in Seq(Items)
    BY <1>5, <2>1, DataOnWire DEF DataSent
  <2>3. is_disconnected' \in {0, 1} /\ peer' \in {"open", "closed"}
    BY <1>5 DEF SendData, Reaches, StreamTypeOK
  <2> QED
    BY <1>5, <2>2, <2>3 DEF SendData, StreamTypeOK
<1> QED
  BY <1>1, <1>2, <1>3, <1>4, <1>5, StreamForms

(* While a chunk is being sent nothing else touches it.                    *)
LEMMA SendingIsUndisturbed ==
  ASSUME TypeOK, LockInv, Elsewhere \/ UNCHANGED vars
  PROVE  /\ rpc = "send" => EndChunk \/ UNCHANGED <<rpc, buf, chunk, sent, accepted, lost, meta>>
         /\ rpc # "send" /\ rpc' = "send" => sent' = 0
         /\ UNCHANGED delivered
<1>1. ASSUME NEW p \in Producers, ProducerStep(p)
      PROVE  /\ rpc = "send" => UNCHANGED <<rpc, buf, chunk, sent, accepted, lost, meta>>
             /\ rpc # "send" => rpc' # "send"
             /\ UNCHANGED delivered
  <2>1. rpc' \in {rpc, "woken"} /\ (rpc = "send" => rpc' = rpc) /\ UNCHANGED <<chunk, sent, delivered>>
    BY <1>1 DEF ProducerStep, RowStart, StoreLoss, RowEnd, RowEndRefused, RowAbort, RowEndFailed,
                LoadLoss, ClearLoss, Signal, Signalled, readerVars, history
  <2>2. ASSUME rpc = "send"
        PROVE  UNCHANGED <<buf, accepted, lost, meta>>
    <3>1. ~InRow(p) /\ ~(lock = NoThread /\ active = 1)
      BY <2>2, NoRowWhileReading DEF ReaderAtChain
    <3>2. active \in {0, 1}
      BY DEF TypeOK, ControlTypeOK
    <3>3. CASE RowStart(p)
      BY <3>1, <3>2, <3>3 DEF RowStart, chain
    <3>4. CASE RowEndFailed(p) \/ LoadLoss(p) \/ ClearLoss(p)
      BY <3>4 DEF RowEndFailed, LoadLoss, ClearLoss, chain, history
    <3> QED
      BY <1>1, <3>1, <3>3, <3>4 DEF ProducerStep, StoreLoss, RowEnd, RowEndRefused, RowAbort, InRow
  <2> QED
    BY <2>1, <2>2
<1>2. CASE CloseBegin \/ CloseEnd \/ UNCHANGED vars \/ CoolDown
  BY <1>2 DEF CloseBegin, CloseEnd, CoolDown, Signal, Signalled, ReaderKeeps, readerVars, vars, chain,
              history
<1>3. CASE ReaderCheck \/ ReaderWait \/ ReaderWake \/ SpuriousWakeup \/ SkipEmptyChunk
           \/ StillBackingOff \/ WalkOn \/ DrainOn \/ DrainSleep
  BY <1>3 DEF ReaderCheck, ReaderWait, ReaderWake, SpuriousWakeup, SkipEmptyChunk, StillBackingOff,
              CallsProcessChunk, WalkOn, DrainOn, DrainSleep
<1>4. CASE BeginChunk
  BY <1>4 DEF BeginChunk, CallsProcessChunk
<1>5. CASE EndChunk
  BY <1>5 DEF EndChunk, history
<1> QED
  BY <1>1, <1>2, <1>3, <1>4, <1>5 DEF Elsewhere, ReaderLoop

(* While a call writes, the flags of the stream and the step it has come   *)
(* to agree.                                                               *)
LEMMA CallStep ==
  ASSUME TypeOK, LockInv, StreamTypeOK, CallInv, [StreamNext]_allVars
  PROVE  CallInv'
<1>1. CASE Around
  <2>1. UNCHANGED <<is_disconnected, header_written, step, part, wire>> /\ (Elsewhere \/ UNCHANGED vars)
    BY <1>1 DEF Around
  <2>2. UNCHANGED Connected
    BY <2>1 DEF Connected
  <2>3. rpc' = "send" /\ ~Connected' => sent' = 0
    BY <2>1, <2>2, SendingIsUndisturbed DEF EndChunk, CallInv
  <2>4. part' = 1 => UNCHANGED <<rpc, buf, chunk, sent>>
    <3>1. part = 1 => sent < Len(buf[chunk]) /\ rpc = "send"
      BY DEF CallInv
    <3>2. sent \in Nat
      BY DEF TypeOK, ReaderTypeOK
    <3> QED
      BY <2>1, <3>1, <3>2, SendingIsUndisturbed DEF EndChunk, ChunkSent
  <2> QED
    BY <2>1, <2>2, <2>3, <2>4 DEF CallInv, Kind
<1>2. CASE SendHeader \/ LoseHeader
  <2>1. PICK x \in { <<"header", meta>>, <<"noheader", 0>> } : Reaches(<<x>>)
    BY <1>2 DEF SendHeader, LoseHeader
  <2>2. /\ WritesHeader /\ header_written' = 1 /\ step' = "data" /\ UNCHANGED <<rpc, sent, part>>
    BY <1>2 DEF SendHeader, LoseHeader, vars, readerVars
  <2>3. x \in Items /\ x[1] \in {"header", "noheader"}
    BY <2>1 DEF Items, TypeOK, ProducerTypeOK
  <2>4. /\ is_disconnected' = 0 /\ Held \in Nat /\ Len(wire') = Held + 1 /\ wire'[Held + 1] = x
    BY <2>1, <2>3, ReachesMarks
  <2>h. PICK h : h = Held + 1
    OBVIOUS
  <2>5. part = 0
    BY <2>2 DEF WritesHeader, NeedsHeader, CallInv, Connected, StreamTypeOK
  <2>6. Connected' /\ h \in 1..Len(wire') /\ Kind(h)' \in {"header", "noheader"}
    BY <2>2, <2>3, <2>4, <2>h DEF Connected, Kind
  <2>7. Kind(Len(wire))' # "head"
    BY <2>3, <2>4 DEF Kind
  <2> QED
    BY <2>2, <2>4, <2>5, <2>6, <2>7 DEF CallInv
<1>3. CASE Fails /\ (FailHeader \/ FailData)
  <2>1. part' = 0 /\ rpc' = "next"
    <3>1. FailHeader => part = 0 /\ part' = part
      BY DEF FailHeader, WritesHeader, NeedsHeader, CallInv, Connected, StreamTypeOK
    <3> QED
      BY <1>3, <3>1 DEF FailData, Fails
  <2>2. FailHeader => ~Connected' /\ step' = "call"
    BY DEF FailHeader, WritesHeader, Connected
  <2>3. FailData => Connected /\ header_written' = 1 /\ step' = "call"
    BY DEF FailData, WritesData, NeedsHeader, CallInv, Connected, StreamTypeOK
  <2>4. CASE is_disconnected' = 1
    BY <1>3, <2>1, <2>2, <2>3, <2>4 DEF CallInv, Connected
  <2>5. CASE Reaches(<< <<"fail", 0>> >>)
    <3>1. <<"fail", 0>> \in Items
      BY DEF Items
    <3>2. /\ is_disconnected' = 0 /\ Held \in Nat /\ Len(wire') = Held + 1
          /\ wire'[Held + 1] = <<"fail", 0>> /\ \A i \in 1..Held : wire'[i] = wire[i]
      BY <2>5, <3>1, ReachesMarks
    <3>3. Kind(Len(wire))' # "head"
      BY <3>2 DEF Kind
    <3>4. FailData => \E i \in 1..Len(wire') : Kind(i)' \in {"header", "noheader"}
      <4>1. FailData => Held = Len(wire) /\ \E i \in 1..Len(wire) : Kind(i) \in {"header", "noheader"}
        BY <2>3 DEF CallInv, Connected, Held
      <4>2. \A i \in 1..Held : i \in 1..Len(wire')
        BY <3>2
      <4> QED
        BY <3>2, <4>1, <4>2 DEF Kind
    <3> QED
      BY <1>3, <2>1, <2>2, <2>3, <3>2, <3>3, <3>4 DEF CallInv
  <2> QED
    BY <1>3, <2>4, <2>5 DEF Fails
<1>4. ASSUME NEW n \in 0..TargetBufSize, NEW k \in {0, 1}, SendData(n, k)
      PROVE  CallInv'
  <2>1. n \in Nat /\ sent \in Nat /\ Len(buf[chunk]) \in Nat
    BY ConstantsAssumption, QueueTypes DEF TypeOK, ReaderTypeOK
  <2>2. /\ Connected /\ rpc = "send" /\ Connected' /\ n + k > 0 /\ sent + n + k <= Len(buf[chunk])
    BY <1>4, <2>1, DataOnWire
  <2>3. PICK w \in Nat : DataSent(n, k, w)
    BY <1>4, <2>1, DataOnWire
  <2>4. /\ sent' = sent + n /\ part' = k /\ step' = "call" /\ UNCHANGED <<rpc, buf, chunk>>
    BY <1>4 DEF SendData, WriteOk, ReaderKeeps, chain
  <2>5. /\ Len(wire) \in Nat /\ Len(wire') = Len(wire) + w
        /\ \A i \in 1..Len(wire) : wire'[i] = wire[i] /\ i \in 1..Len(wire')
    BY <2>3 DEF DataSent
  <2>6. \E i \in 1..Len(wire') : Kind(i)' \in {"header", "noheader"}
    <3>1. PICK i \in 1..Len(wire) : Kind(i) \in {"header", "noheader"}
      BY <2>2 DEF CallInv
    <3> QED
      BY <2>5, <3>1 DEF Kind
  <2>7. CASE w = 0
    <3>1. n = 0 /\ k = 1 /\ part = 1
      BY <2>1, <2>2, <2>3, <2>7 DEF DataSent
    <3>2. wire[Len(wire)] = <<"head", buf[chunk][sent + 1]>> /\ Len(wire) > 0 /\ Len(wire') = Len(wire)
      BY <2>5, <2>7, <3>1 DEF CallInv
    <3>3. wire'[Len(wire')] = <<"head", buf'[chunk'][sent' + 1]>>
      <4>1. Len(wire) \in 1..Len(wire)
        BY <2>5, <3>2
      <4>2. sent' = sent
        BY <2>1, <2>4, <3>1
      <4> QED
        BY <2>4, <2>5, <3>2, <4>1, <4>2
    <3> QED
      BY <2>1, <2>2, <2>4, <2>6, <3>1, <3>2, <3>3 DEF CallInv
  <2>8. CASE w > 0
    <3>1. wire'[Len(wire')] =
            <<IF w = n + 1 THEN "head" ELSE IF w = 1 /\ part = 1 THEN "tail" ELSE "row",
              buf[chunk][sent + w]>>
      <4>1. w \in 1..w
        BY <2>8
      <4> QED
        BY <2>3, <2>5, <4>1 DEF DataSent
    <3>2. CASE k = 1
      <4>1. w = n + 1 /\ sent + w = sent' + 1
        BY <2>1, <2>3, <2>4, <2>8, <3>2 DEF DataSent
      <4>2. wire'[Len(wire')] = <<"head", buf'[chunk'][sent' + 1]>>
        BY <2>4, <3>1, <4>1
      <4>3. Len(wire') > 0 /\ sent' < Len(buf'[chunk'])
        BY <2>1, <2>2, <2>4, <2>5, <2>8, <3>2
      <4> QED
        BY <2>2, <2>4, <2>6, <3>2, <4>2, <4>3 DEF CallInv
    <3>3. CASE k = 0
      <4>1. w = n /\ w # n + 1
        BY <2>1, <2>3, <3>3 DEF DataSent
      <4>2. Kind(Len(wire))' # "head"
        BY <3>1, <4>1 DEF Kind
      <4> QED
        BY <2>2, <2>4, <2>6, <3>3, <4>2 DEF CallInv
    <3> QED
      BY <3>2, <3>3
  <2> QED
    BY <2>7, <2>8
<1> QED
  BY <1>1, <1>2, <1>3, <1>4, StreamForms

-----------------------------------------------------------------------------
(* The headers come first.                                                 *)

(* Marks and headers add no row, and leave the rows on a connection where  *)
(* they are.                                                               *)
LEMMA MarksAddNoRow ==
  ASSUME StreamTypeOK, NEW x \in Items, x[1] \notin {"row", "head", "tail"}, Reaches(<<x>>)
  PROVE  /\ is_disconnected = 0 =>
              /\ \A i \in 1..Len(wire) : i \in 1..Len(wire') /\ wire'[i] = wire[i]
              /\ Len(wire) \in Nat /\ Len(wire') = Len(wire) + 1 /\ wire'[Len(wire) + 1] = x
         /\ \A j \in 1..Len(wire') : IsRow(j)' =>
              /\ is_disconnected = 0 /\ j \in 1..Len(wire)
              /\ \A i \in 1..j : i \in 1..Len(wire) /\ wire'[i] = wire[i]
<1>1. /\ Held \in Nat /\ Len(wire) \in Nat /\ Len(wire') = Held + 1 /\ wire'[Held + 1] = x
      /\ \A i \in 1..Held : wire'[i] = wire[i]
  BY ReachesMarks
<1>2. (is_disconnected = 1 /\ Held = 0) \/ (is_disconnected = 0 /\ Held = Len(wire))
  BY DEF Held, StreamTypeOK
<1>3. ASSUME NEW j \in 1..Len(wire'), IsRow(j)'
      PROVE  /\ is_disconnected = 0 /\ j \in 1..Len(wire)
             /\ \A i \in 1..j : i \in 1..Len(wire) /\ wire'[i] = wire[i]
  <2>1. j # Held + 1
    BY <1>1, <1>3 DEF IsRow, Kind
  <2>2. j \in 1..Held
    BY <1>1, <1>3, <2>1
  <2>3. is_disconnected = 0 /\ Held = Len(wire)
    BY <1>2, <2>2
  <2> QED
    BY <1>1, <2>2, <2>3
<1> QED
  BY <1>1, <1>2, <1>3

(* Every step but SendData adds at most a mark, or the headers.            *)
LEMMA WireForms ==
  ASSUME TypeOK, StreamTypeOK, [StreamNext]_allVars
  PROVE  \/ UNCHANGED wire
         \/ \E x \in Items : x[1] \in {"fail", "noheader", "header"} /\ Reaches(<<x>>)
         \/ \E n \in 0..TargetBufSize, k \in {0, 1} : SendData(n, k)
<1>1. /\ <<"header", meta>> \in Items /\ <<"fail", 0>> \in Items /\ <<"noheader", 0>> \in Items
  BY DEF Items, TypeOK, ProducerTypeOK
<1> QED
  BY <1>1, StreamForms DEF Around, SendHeader, LoseHeader, Fails

(* No row precedes the headers on a connection, unless a write of headers  *)
(* failed.                                                                 *)
LEMMA HeaderStep ==
  ASSUME TypeOK, StreamTypeOK, CallInv, HeaderFirstUnlessError, [StreamNext]_allVars
  PROVE  HeaderFirstUnlessError'
<1>1. CASE UNCHANGED wire
  BY <1>1 DEF HeaderFirstUnlessError, HeaderFirst, IsRow, Kind
<1>2. ASSUME NEW x \in Items, x[1] \in {"fail", "noheader", "header"}, Reaches(<<x>>)
      PROVE  HeaderFirstUnlessError'
  <2>1. /\ is_disconnected = 0 => \A i \in 1..Len(wire) : i \in 1..Len(wire') /\ wire'[i] = wire[i]
        /\ \A j \in 1..Len(wire') : IsRow(j)' =>
              /\ is_disconnected = 0 /\ j \in 1..Len(wire)
              /\ \A i \in 1..j : i \in 1..Len(wire) /\ wire'[i] = wire[i]
    BY <1>2, MarksAddNoRow
  <2>2. CASE is_disconnected = 0 /\ \E i \in 1..Len(wire) : Kind(i) = "noheader"
    BY <2>1, <2>2 DEF HeaderFirstUnlessError, Kind
  <2>3. CASE ~(is_disconnected = 0 /\ \E i \in 1..Len(wire) : Kind(i) = "noheader")
    <3>1. ASSUME NEW j \in 1..Len(wire'), IsRow(j)'
          PROVE  \E i \in 1..(j - 1) : Kind(i)' = "header"
      <4>1. /\ is_disconnected = 0 /\ j \in 1..Len(wire)
            /\ \A i \in 1..j : wire'[i] = wire[i]
        BY <2>1, <3>1
      <4>2. j \in 1..j /\ \A i \in 1..(j - 1) : i \in 1..j
        BY <4>1
      <4>3. IsRow(j)
        BY <3>1, <4>1, <4>2 DEF IsRow, Kind
      <4> QED
        BY <2>3, <4>1, <4>2, <4>3 DEF HeaderFirstUnlessError, HeaderFirst, Kind
    <3> QED
      BY <3>1 DEF HeaderFirstUnlessError, HeaderFirst
  <2> QED
    BY <2>2, <2>3
<1>3. ASSUME NEW n \in 0..TargetBufSize, NEW k \in {0, 1}, SendData(n, k)
      PROVE  HeaderFirstUnlessError'
  <2>1. n \in Nat
    BY ConstantsAssumption
  <2>2. PICK w \in Nat : DataSent(n, k, w)
    BY <1>3, <2>1, DataOnWire
  <2>3. PICK h \in 1..Len(wire) : Kind(h) \in {"header", "noheader"}
    BY <1>3, <2>1, DataOnWire DEF CallInv
  <2>4. /\ Len(wire) \in Nat /\ Len(wire') = Len(wire) + w
        /\ \A i \in 1..Len(wire) : i \in 1..Len(wire') /\ wire'[i] = wire[i]
    BY <2>2 DEF DataSent
  <2>5. CASE \E i \in 1..Len(wire) : Kind(i) = "noheader"
    BY <2>4, <2>5 DEF HeaderFirstUnlessError, Kind
  <2>6. CASE ~\E i \in 1..Len(wire) : Kind(i) = "noheader"
    <3>1. HeaderFirst /\ Kind(h) = "header"
      BY <2>3, <2>6 DEF HeaderFirstUnlessError
    <3>2. ASSUME NEW j \in 1..Len(wire'), IsRow(j)'
          PROVE  \E i \in 1..(j - 1) : Kind(i)' = "header"
      <4>1. CASE j \in 1..Len(wire)
        <5>1. IsRow(j)
          BY <2>4, <3>2, <4>1 DEF IsRow, Kind
        <5>2. PICK i \in 1..(j - 1) : Kind(i) = "header"
          BY <3>1, <4>1, <5>1 DEF HeaderFirst
        <5>3. i \in 1..Len(wire)
          BY <2>4, <4>1
        <5> QED
          BY <2>4, <5>2, <5>3 DEF Kind
      <4>2. CASE j \notin 1..Len(wire)
        <5>1. h \in 1..(j - 1)
          BY <2>4, <4>2
        <5> QED
          BY <2>4, <3>1, <5>1 DEF Kind
      <4> QED
        BY <4>1, <4>2
    <3> QED
      BY <3>2 DEF HeaderFirstUnlessError, HeaderFirst
  <2> QED
    BY <2>5, <2>6
<1> QED
  BY <1>1, <1>2, <1>3, WireForms

(* What the proofs about the wire rest on.                                 *)
LinkInv == TypeOK /\ LockInv /\ StreamTypeOK /\ CallInv

(* Types, the mutex and the calls of the stream are as they should be in   *)
(* every state.                                                            *)
LEMMA LinkInvariant == StreamSpec => []LinkInv
<1>1. StreamInit => StreamTypeOK /\ CallInv
  <2>1. << >> \in Seq(Items)
    OBVIOUS
  <2> QED
    BY <2>1 DEF StreamInit, Init, StreamTypeOK, CallInv, Connected
<1>2. QueueInv /\ StreamTypeOK /\ CallInv /\ [StreamNext]_allVars => StreamTypeOK' /\ CallInv'
  BY StreamTypeStep, CallStep DEF QueueInv
<1>3. QueueInv /\ StreamTypeOK /\ CallInv => LinkInv
  BY DEF QueueInv, LinkInv
<1> QED
  BY <1>1, <1>2, <1>3, StreamKeepsQueue, PTL DEF StreamSpec

(* No row precedes the headers on a connection, however often it was lost  *)
(* and found again, unless sendto failed in the way that net_stream_write  *)
(* takes for success.                                                      *)
THEOREM HeadersComeFirst == StreamSpec => []HeaderFirstUnlessError
<1>1. StreamInit => HeaderFirstUnlessError
  <2>1. StreamInit => Len(wire) = 0
    BY DEF StreamInit
  <2> QED
    BY <2>1 DEF HeaderFirstUnlessError, HeaderFirst
<1>2. LinkInv /\ HeaderFirstUnlessError /\ [StreamNext]_allVars => HeaderFirstUnlessError'
  BY HeaderStep DEF LinkInv
<1> QED
  BY <1>1, <1>2, LinkInvariant, PTL DEF StreamSpec

-----------------------------------------------------------------------------
(* Rows are whole and in order.                                            *)

(* A row on the wire, with no failure after it.                            *)
Fresh(i) == IsRow(i) /\ \A k \in i..Len(wire) : Kind(k) # "fail"

(* The rows of the reader's chunk that it has yet to send, or will send    *)
(* again.                                                                  *)
ToSend(q) == rpc = "send" => q > sent

(* A row sent since the last failure is older than those yet to be sent,   *)
(* but for the one whose head it is.                                       *)
SentBefore(i) ==
  /\ RowAt(i) \in delivered \/ (part = 1 /\ i = Len(wire))
  /\ \A q \in 1..Len(buf[chunk]) : ToSend(q) =>
       RowAt(i) < buf[chunk][q] \/ (part = 1 /\ q = sent + 1 /\ i = Len(wire))

FreshInv == is_disconnected = 0 => \A i \in 1..Len(wire) : Fresh(i) => SentBefore(i)

(* Between writes, what comes to the reader's chunk is newer than all that *)
(* has been delivered.                                                     *)
LEMMA NewRowsToSend ==
  ASSUME QueueInv, [Next]_vars, rpc # "send", NEW m \in Elems(buf'[chunk'])
  PROVE  m \in Elems(buf[chunk]) \/ Before(delivered, {m})
<1>1. TypeOK /\ LockInv /\ RowsInv /\ RingInv
  BY DEF QueueInv, OrderInv
<1>2. /\ buf \in [Chunks -> Seq(Nat)] /\ writerChunk \in Chunks /\ chunk \in Chunks
      /\ accepted \in Nat /\ next[writerChunk] \in Chunks
  BY <1>1, QueueTypes
<1>3. CASE (Queues /\ chunk' = chunk) \/ Takes \/ Adds
  BY <1>3 DEF Queues, Takes, Adds, WriterLeaves
<1>4. CASE Walks
  <2>1. PICK ring, k : Along(ring, k, Allocated)
    BY <1>1 DEF RingInv
  <2>2. chunk # writerChunk /\ chunk' = next[chunk] /\ UNCHANGED buf
    BY <1>4 DEF Walks, Queues, MayAdvance
  <2>3. chunk' = ring[k + 1] /\ k + 1 \in (k + 1)..Allocated
    <3>1. k \in 1..Allocated /\ k < Allocated /\ Allocated \in Nat
      BY <1>1, <2>1, <2>2, ChainInRing, QueueTypes
    <3> QED
      BY <1>1, <2>1, <2>2, <3>1, ChainInRing
  <2>4. Before(delivered, Elems(buf[ring[k + 1]]))
    BY <2>1, <2>3 DEF Along
  <2> QED
    BY <2>2, <2>3, <2>4 DEF Before
<1>5. CASE Accepts
  <2>1. /\ buf' = [buf EXCEPT ![writerChunk] = Append(@, accepted + 1)] /\ UNCHANGED chunk
    BY <1>5 DEF Accepts
  <2>2. CASE chunk # writerChunk
    BY <1>2, <2>1, <2>2
  <2>3. CASE chunk = writerChunk
    <3>1. buf'[chunk] = Append(buf[chunk], accepted + 1)
      BY <1>2, <2>1, <2>3
    <3>2. Elems(buf'[chunk]) = Elems(buf[chunk]) \cup {accepted + 1}
      <4>1. buf[chunk] \in Seq(Nat) /\ accepted + 1 \in Nat
        BY <1>2
      <4>2. Elems(Append(buf[chunk], accepted + 1)) = Elems(buf[chunk]) \cup {accepted + 1}
        BY <4>1, Appended
      <4> QED
        BY <3>1, <4>2
    <3>3. Before(delivered, {accepted + 1})
      <4>1. delivered \subseteq 1..accepted
        BY <1>1 DEF RowsInv
      <4>2. \A d \in 1..accepted : d < accepted + 1
        BY <1>2
      <4> QED
        BY <4>1, <4>2 DEF Before
    <3> QED
      BY <2>1, <3>2, <3>3
  <2> QED
    BY <2>2, <2>3
<1>6. CASE Drops
  <2>1. UNCHANGED chunk /\ (buf'[chunk] = << >> \/ buf'[chunk] = buf[chunk])
    BY <1>2, <1>6 DEF Drops, WriterLeaves
  <2> QED
    BY <1>6, <2>1, ElemsOfEmpty DEF Drops, WriterLeaves
<1> QED
  BY <1>1, <1>3, <1>4, <1>5, <1>6, QueueForms DEF Delivers, Clears

(* A write of data adds nothing but rows of the reader's chunk.            *)
LEMMA DataIsRows ==
  ASSUME NEW n, NEW k, NEW w, DataSent(n, k, w)
  PROVE  /\ Len(wire') = Len(wire) + w /\ \A i \in 1..Len(wire) : wire'[i] = wire[i]
         /\ \A t \in 1..w : /\ wire'[Len(wire) + t][1] \in {"row", "head", "tail"}
                            /\ wire'[Len(wire) + t][2] = buf[chunk][sent + t]
                            /\ sent + t \in 1..Len(buf[chunk])
<1>1. ASSUME NEW t \in 1..w
      PROVE  /\ wire'[Len(wire) + t][1] \in {"row", "head", "tail"}
             /\ wire'[Len(wire) + t][2] = buf[chunk][sent + t]
             /\ sent + t \in 1..Len(buf[chunk])
  <2>1. /\ wire'[Len(wire) + t] =
             <<IF t = n + 1 THEN "head" ELSE IF t = 1 /\ part = 1 THEN "tail" ELSE "row",
               buf[chunk][sent + t]>>
        /\ sent + t \in 1..Len(buf[chunk])
    BY DEF DataSent
  <2> QED
    BY <2>1
<1> QED
  BY <1>1 DEF DataSent

(* What has reached the server on this connection is older than what waits *)
(* to be sent, except for the row that was cut.                            *)
LEMMA FreshStep ==
  ASSUME QueueInv, StreamTypeOK, CallInv, FreshInv, [StreamNext]_allVars
  PROVE  FreshInv'
<1>1. /\ TypeOK /\ LockInv /\ [Next]_vars /\ Len(wire) \in Nat /\ chunk \in Chunks
      /\ buf \in [Chunks -> Seq(Nat)] /\ Len(buf[chunk]) \in Nat /\ sent \in Nat /\ part \in {0, 1}
  <2>1. TypeOK
    BY DEF QueueInv
  <2> QED
    BY <2>1, StreamStepsQueue, QueueTypes DEF QueueInv, StreamTypeOK, TypeOK, ReaderTypeOK
<1>2. CASE Around
  <2>1. /\ UNCHANGED <<is_disconnected, part, wire, delivered>> /\ (Elsewhere \/ UNCHANGED vars)
    BY <1>1, <1>2, SendingIsUndisturbed DEF Around
  <2> SUFFICES ASSUME is_disconnected = 0, NEW i \in 1..Len(wire), Fresh(i)
               PROVE  SentBefore(i)'
    BY <2>1 DEF FreshInv, Fresh, IsRow, Kind
  <2>2. SentBefore(i)
    BY DEF FreshInv
  <2>3. CASE rpc = "send" /\ UNCHANGED <<rpc, buf, chunk, sent>>
    BY <2>1, <2>2, <2>3 DEF SentBefore, ToSend, RowAt
  <2>4. CASE EndChunk
    <3>1. buf'[chunk'] = << >> /\ part = 0
      BY <1>1, <2>4 DEF EndChunk, ChunkSent, CallInv
    <3>2. \A q \in 1..Len(<< >>) : FALSE
      OBVIOUS
    <3> QED
      BY <2>1, <2>2, <3>1, <3>2 DEF SentBefore, RowAt
  <2>5. CASE rpc # "send"
    <3>1. part = 0 /\ RowAt(i) \in delivered
      BY <1>1, <2>2, <2>5 DEF CallInv, SentBefore
    <3>2. ASSUME NEW q \in 1..Len(buf'[chunk'])
          PROVE  RowAt(i) < buf'[chunk'][q]
      <4>1. buf'[chunk'][q] \in Elems(buf'[chunk'])
        BY DEF Elems
      <4>2. CASE buf'[chunk'][q] \in Elems(buf[chunk])
        BY <2>2, <2>5, <3>1, <4>2 DEF SentBefore, ToSend, Elems
      <4>3. CASE Before(delivered, {buf'[chunk'][q]})
        BY <3>1, <4>3 DEF Before
      <4> QED
        BY <1>1, <2>5, <4>1, <4>2, <4>3, NewRowsToSend
    <3> QED
      BY <2>1, <3>1, <3>2 DEF SentBefore, RowAt
  <2> QED
    BY <1>1, <2>1, <2>3, <2>4, <2>5, SendingIsUndisturbed
<1>3. CASE SendHeader \/ LoseHeader
  <2>1. PICK x \in Items : x[1] \in {"header", "noheader"} /\ Reaches(<<x>>)
    <3>1. <<"header", meta>> \in Items /\ <<"noheader", 0>> \in Items
      BY <1>1 DEF Items, TypeOK, ProducerTypeOK
    <3> QED
      BY <1>3, <3>1 DEF SendHeader, LoseHeader
  <2>2. WritesHeader /\ UNCHANGED <<rpc, sent, part, buf, chunk, delivered>>
    BY <1>3 DEF SendHeader, LoseHeader, vars, readerVars, chain, history
  <2>3. part = 0
    BY <1>1, <2>2 DEF WritesHeader, NeedsHeader, CallInv, Connected, StreamTypeOK
  <2> SUFFICES ASSUME NEW i \in 1..Len(wire'), Fresh(i)'
               PROVE  SentBefore(i)'
    BY DEF FreshInv
  <2>4. /\ is_disconnected = 0 /\ i \in 1..Len(wire) /\ wire'[i] = wire[i]
        /\ \A h \in 1..Len(wire) : wire'[h] = wire[h] /\ h \in 1..Len(wire')
    <3>1. i \in 1..i
      BY <1>1
    <3> QED
      BY <2>1, <3>1, MarksAddNoRow DEF Fresh
  <2>5. Fresh(i)
    <3>1. Len(wire) <= Len(wire')
      <4>1. CASE Len(wire) = 0
        BY <1>1, <2>4, <4>1
      <4>2. CASE Len(wire) # 0
        BY <1>1, <2>4, <4>2
      <4> QED
        BY <4>1, <4>2
    <3>2. \A h \in i..Len(wire) : h \in 1..Len(wire) /\ h \in i..Len(wire')
      BY <1>1, <2>4, <3>1
    <3> QED
      BY <2>4, <3>2 DEF Fresh, IsRow, Kind
  <2>6. SentBefore(i)
    BY <2>4, <2>5 DEF FreshInv
  <2> QED
    BY <2>2, <2>3, <2>4, <2>6 DEF SentBefore, ToSend, RowAt
<1>4. CASE Fails
  <2>1. CASE is_disconnected' = 1
    BY <2>1 DEF FreshInv
  <2>2. CASE Reaches(<< <<"fail", 0>> >>)
    <3>1. <<"fail", 0>> \in Items
      BY DEF Items
    <3>2. Held \in Nat /\ Len(wire') = Held + 1 /\ wire'[Held + 1] = <<"fail", 0>>
      BY <2>2, <3>1, ReachesMarks
    <3>3. \A i \in 1..Len(wire') : Len(wire') \in i..Len(wire')
      BY <3>2
    <3>4. wire'[Len(wire')][1] = "fail"
      BY <3>2
    <3> QED
      BY <3>3, <3>4 DEF FreshInv, Fresh, Kind
  <2> QED
    BY <1>4, <2>1, <2>2 DEF Fails
<1>5. ASSUME NEW n \in 0..TargetBufSize, NEW k \in {0, 1}, SendData(n, k)
      PROVE  FreshInv'
  <2>1. n \in Nat
    BY ConstantsAssumption
  <2>2. /\ Connected /\ rpc = "send" /\ n + k > 0 /\ sent + n + k <= Len(buf[chunk])
    BY <1>1, <1>5, <2>1, DataOnWire
  <2>3. PICK w \in Nat : DataSent(n, k, w)
    BY <1>1, <1>5, <2>1, DataOnWire
  <2>4. /\ sent' = sent + n /\ part' = k /\ UNCHANGED <<rpc, buf, chunk>>
        /\ delivered' = delivered \cup {buf[chunk][i] : i \in (sent + 1)..(sent + n)}
    BY <1>5 DEF SendData, WriteOk, ReaderKeeps, chain
  <2>5. /\ Len(wire') = Len(wire) + w /\ w \in {n, n + 1}
        /\ \A i \in 1..Len(wire) : wire'[i] = wire[i] /\ i \in 1..Len(wire')
        /\ \A t \in 1..w : wire'[Len(wire) + t][2] = buf[chunk][sent + t] /\ sent + t \in 1..Len(buf[chunk])
        /\ w = n + 1 => k = 1
        /\ w = n => k = 0 \/ (n = 0 /\ part = 1)
    <3>1. /\ Len(wire') = Len(wire) + w
          /\ \A i \in 1..Len(wire) : wire'[i] = wire[i]
          /\ \A t \in 1..w : wire'[Len(wire) + t][2] = buf[chunk][sent + t]
                            /\ sent + t \in 1..Len(buf[chunk])
      BY <2>3, DataIsRows
    <3>2. \A i \in 1..Len(wire) : i \in 1..Len(wire')
      BY <1>1, <3>1
    <3>3. w = IF k = 1 /\ ~(n = 0 /\ part = 1) THEN n + 1 ELSE n
      BY <2>3 DEF DataSent
    <3>4. n + 1 # n
      BY <2>1
    <3> QED
      BY <3>1, <3>2, <3>3, <3>4
  <2>6. \A a, b \in 1..Len(buf[chunk]) : a < b => buf[chunk][a] < buf[chunk][b]
    BY <1>1 DEF QueueInv, OrderInv, RowsInv
  <2> SUFFICES ASSUME NEW i \in 1..Len(wire'), Fresh(i)'
               PROVE  SentBefore(i)'
    BY DEF FreshInv
  <2>7. CASE i \in 1..Len(wire)
    <3>1. Fresh(i) /\ wire'[i] = wire[i]
      <4>1. \A h \in i..Len(wire) : h \in 1..Len(wire) /\ h \in i..Len(wire')
        BY <1>1, <2>5, <2>7
      <4> QED
        BY <2>5, <2>7, <4>1 DEF Fresh, IsRow, Kind
    <3>2. SentBefore(i)
      BY <2>2, <2>7, <3>1 DEF FreshInv, Connected
    <3>3. part = 1 /\ i = Len(wire) /\ n = 0 => k = 1 /\ w = 0 /\ Len(wire') = Len(wire)
      BY <1>1, <2>1, <2>2, <2>3, <2>5 DEF DataSent
    <3>4. RowAt(i)' \in delivered' \/ (part' = 1 /\ i = Len(wire'))
      <4>1. CASE RowAt(i) \in delivered
        BY <2>4, <3>1, <4>1 DEF RowAt
      <4>2. CASE part = 1 /\ i = Len(wire)
        <5>1. CASE n = 0
          BY <2>4, <3>3, <4>2, <5>1
        <5>2. CASE n # 0
          <6>1. RowAt(i) = buf[chunk][sent + 1]
            BY <4>2 DEF CallInv, RowAt
          <6>2. sent + 1 \in (sent + 1)..(sent + n)
            BY <1>1, <2>1, <5>2
          <6> QED
            BY <2>4, <3>1, <6>1, <6>2 DEF RowAt
        <5> QED
          BY <5>1, <5>2
      <4> QED
        BY <3>2, <4>1, <4>2 DEF SentBefore
    <3>5. ASSUME NEW q \in 1..Len(buf[chunk]), q > sent + n
          PROVE  RowAt(i)' < buf[chunk][q] \/ (part' = 1 /\ q = sent' + 1 /\ i = Len(wire'))
      <4>1. q > sent
        BY <1>1, <2>1, <3>5
      <4>2. RowAt(i) < buf[chunk][q] \/ (part = 1 /\ q = sent + 1 /\ i = Len(wire))
        BY <3>2, <4>1 DEF SentBefore, ToSend
      <4>3. part = 1 /\ q = sent + 1 /\ i = Len(wire) => n = 0
        BY <1>1, <2>1, <3>5
      <4>4. n = 0 => sent' = sent
        BY <1>1, <2>4
      <4> QED
        BY <2>4, <3>1, <3>3, <4>2, <4>3, <4>4 DEF RowAt
    <3> QED
      BY <2>2, <2>4, <3>4, <3>5 DEF SentBefore, ToSend
  <2>8. CASE i \notin 1..Len(wire)
    <3>1. PICK t \in 1..w : i = Len(wire) + t
      <4>1. i - Len(wire) \in 1..w /\ i = Len(wire) + (i - Len(wire))
        BY <1>1, <2>5, <2>8
      <4> QED
        BY <4>1
    <3>2. RowAt(i)' = buf[chunk][sent + t] /\ sent + t \in 1..Len(buf[chunk])
      BY <2>5, <3>1 DEF RowAt
    <3>3. CASE t <= n
      <4>1. sent + t \in (sent + 1)..(sent + n)
        BY <1>1, <2>1, <3>3
      <4>2. \A q \in 1..Len(buf[chunk]) : q > sent + n => sent + t < q
        BY <1>1, <2>1, <3>3
      <4> QED
        BY <2>2, <2>4, <2>6, <3>2, <4>1, <4>2 DEF SentBefore, ToSend
    <3>4. CASE ~(t <= n)
      <4>1. t = n + 1 /\ k = 1 /\ i = Len(wire')
        BY <2>1, <2>5, <3>1, <3>4
      <4>2. \A q \in 1..Len(buf[chunk]) : q > sent + n => q = sent' + 1 \/ sent + t < q
        <5>1. sent' = sent + n
          BY <2>4
        <5> QED
          BY <1>1, <2>1, <4>1, <5>1
      <4> QED
        BY <2>2, <2>4, <2>6, <3>2, <4>1, <4>2 DEF SentBefore, ToSend
    <3> QED
      BY <3>3, <3>4
  <2> QED
    BY <2>7, <2>8
<1> QED
  BY <1>2, <1>3, <1>4, <1>5, StreamForms

(* What RowsWholeAndInOrder says of item j.                                *)
RowInPlace(j) ==
  /\ Kind(j) = "tail" => j > 1 /\ wire[j - 1] = <<"head", RowAt(j)>>
  /\ j > 1 /\ Kind(j - 1) = "head" => wire[j] = <<"tail", RowAt(j - 1)>>
  /\ \A i \in 1..(j - 1) : IsRow(i) /\ (\A k \in i..j : Kind(k) # "fail") =>
       RowAt(i) < RowAt(j) \/ (i = j - 1 /\ Kind(j) = "tail")

(* It depends on the items up to j only.                                   *)
LEMMA RowStaysInPlace ==
  ASSUME NEW j \in Nat \ {0}, \A i \in 1..j : wire'[i] = wire[i], RowInPlace(j)
  PROVE  RowInPlace(j)'
<1>1. wire'[j] = wire[j] /\ (j > 1 => wire'[j - 1] = wire[j - 1])
  OBVIOUS
<1>2. ASSUME NEW i \in 1..(j - 1), IsRow(i)', \A k \in i..j : Kind(k)' # "fail"
      PROVE  RowAt(i)' < RowAt(j)' \/ (i = j - 1 /\ Kind(j)' = "tail")
  <2>1. wire'[i] = wire[i] /\ \A k \in i..j : wire'[k] = wire[k]
    OBVIOUS
  <2>2. IsRow(i) /\ \A k \in i..j : Kind(k) # "fail"
    BY <1>2, <2>1 DEF IsRow, Kind
  <2>3. RowAt(i) < RowAt(j) \/ (i = j - 1 /\ Kind(j) = "tail")
    BY <2>2 DEF RowInPlace
  <2> QED
    BY <1>1, <2>1, <2>3 DEF RowAt, Kind
<1> QED
  BY <1>1, <1>2 DEF RowInPlace, Kind, RowAt

(* A row is followed by a later one, and the tail of a row by nothing but  *)
(* its head.                                                               *)
LEMMA PlaceStep ==
  ASSUME QueueInv, StreamTypeOK, CallInv, FreshInv, RowsWholeAndInOrder, [StreamNext]_allVars
  PROVE  RowsWholeAndInOrder'
<1>1. /\ TypeOK /\ Len(wire) \in Nat /\ chunk \in Chunks
      /\ buf \in [Chunks -> Seq(Nat)] /\ Len(buf[chunk]) \in Nat /\ sent \in Nat /\ part \in {0, 1}
  <2>1. TypeOK
    BY DEF QueueInv
  <2> QED
    BY <2>1, QueueTypes DEF StreamTypeOK, TypeOK, ReaderTypeOK
<1>2. \A j \in 1..Len(wire) : IsRow(j) => RowInPlace(j)
  BY DEF RowsWholeAndInOrder, RowInPlace
<1>3. ASSUME NEW j \in 1..Len(wire), IsRow(j)', \A i \in 1..j : wire'[i] = wire[i]
      PROVE  RowInPlace(j)'
  <2>1. j \in Nat \ {0} /\ j \in 1..j
    BY <1>1
  <2>2. IsRow(j)
    BY <1>3, <2>1 DEF IsRow, Kind
  <2> QED
    BY <1>2, <1>3, <2>1, <2>2, RowStaysInPlace
<1>4. (\A j \in 1..Len(wire') : IsRow(j)' => RowInPlace(j)') => RowsWholeAndInOrder'
  BY DEF RowsWholeAndInOrder, RowInPlace
<1>5. CASE UNCHANGED wire
  BY <1>3, <1>4, <1>5
<1>6. ASSUME NEW x \in Items, x[1] \in {"fail", "noheader", "header"}, Reaches(<<x>>)
      PROVE  RowsWholeAndInOrder'
  BY <1>3, <1>4, <1>6, MarksAddNoRow
<1>7. ASSUME NEW n \in 0..TargetBufSize, NEW k \in {0, 1}, SendData(n, k)
      PROVE  RowsWholeAndInOrder'
  <2>1. n \in Nat
    BY ConstantsAssumption
  <2>2. is_disconnected = 0 /\ rpc = "send"
    BY <1>1, <1>7, <2>1, DataOnWire DEF Connected
  <2>3. PICK w \in Nat : DataSent(n, k, w)
    BY <1>1, <1>7, <2>1, DataOnWire
  <2>4. /\ Len(wire') = Len(wire) + w
        /\ \A i \in 1..Len(wire) : wire'[i] = wire[i]
        /\ \A t \in 1..w :
             /\ wire'[Len(wire) + t] =
                  <<IF t = n + 1 THEN "head" ELSE IF t = 1 /\ part = 1 THEN "tail" ELSE "row",
                    buf[chunk][sent + t]>>
             /\ sent + t \in 1..Len(buf[chunk])
        /\ w = IF k = 1 /\ ~(n = 0 /\ part = 1) THEN n + 1 ELSE n
    BY <2>3 DEF DataSent
  <2>5. \A a, b \in 1..Len(buf[chunk]) : a < b => buf[chunk][a] < buf[chunk][b]
    BY <1>1 DEF QueueInv, OrderInv, RowsInv
  <2>6. part = 1 => Len(wire) > 0 /\ wire[Len(wire)] = <<"head", buf[chunk][sent + 1]>>
    BY DEF CallInv
  <2>7. Len(wire) > 0 /\ Kind(Len(wire)) = "head" => part = 1
    BY <2>2 DEF CallInv
  <2>8. w \in {n, n + 1} /\ (part = 1 /\ w > 0 => n > 0)
    BY <2>1, <2>4
  <2>9. ASSUME NEW t \in 1..w
        PROVE  /\ wire'[Len(wire) + t][1] \in {"row", "head", "tail"}
               /\ wire'[Len(wire) + t][1] = "tail" => t = 1 /\ part = 1
               /\ t = 1 /\ part = 1 => wire'[Len(wire) + t] = <<"tail", buf[chunk][sent + 1]>>
               /\ t < w => wire'[Len(wire) + t][1] # "head"
               /\ wire'[Len(wire) + t][2] = buf[chunk][sent + t]
    <3>1. wire'[Len(wire) + t] =
            <<IF t = n + 1 THEN "head" ELSE IF t = 1 /\ part = 1 THEN "tail" ELSE "row",
              buf[chunk][sent + t]>>
      BY <2>4
    <3>2. t < w => t # n + 1
      BY <2>1, <2>8
    <3>3. t = 1 /\ part = 1 => t # n + 1
      BY <2>1, <2>8
    <3> QED
      BY <3>1, <3>2, <3>3
  <2>10. ASSUME NEW j \in 1..Len(wire'), j \notin 1..Len(wire)
         PROVE  RowInPlace(j)'
    <3>1. PICK t \in 1..w : j = Len(wire) + t
      <4>1. j - Len(wire) \in 1..w /\ j = Len(wire) + (j - Len(wire))
        BY <1>1, <2>4, <2>10
      <4> QED
        BY <4>1
    <3>2. /\ wire'[j][1] = "tail" => t = 1 /\ part = 1
          /\ t = 1 /\ part = 1 => wire'[j] = <<"tail", buf[chunk][sent + 1]>>
          /\ wire'[j][2] = buf[chunk][sent + t] /\ sent + t \in 1..Len(buf[chunk])
      BY <2>4, <2>9, <3>1
    <3>3. t = 1 => j - 1 = Len(wire) /\ (Len(wire) > 0 => wire'[j - 1] = wire[Len(wire)])
      BY <1>1, <2>4, <3>1
    <3>4. t # 1 => wire'[j - 1][1] # "head"
      <4>1. t # 1 => t - 1 \in 1..w /\ t - 1 < w /\ j - 1 = Len(wire) + (t - 1)
        BY <1>1, <3>1
      <4> QED
        BY <2>9, <4>1
    <3>5. wire'[j][1] = "tail" => j > 1 /\ wire'[j - 1] = <<"head", wire'[j][2]>>
      BY <1>1, <2>6, <3>1, <3>2, <3>3
    <3>6. j > 1 /\ wire'[j - 1][1] = "head" => wire'[j] = <<"tail", wire'[j - 1][2]>>
      <4>1. CASE t = 1 /\ j > 1
        <5>1. Len(wire) > 0 /\ wire'[j - 1] = wire[Len(wire)]
          BY <1>1, <3>3, <4>1
        <5> QED
          BY <2>6, <2>7, <3>2, <4>1, <5>1 DEF Kind
      <4> QED
        BY <3>4, <4>1
    <3>7. ASSUME NEW i \in 1..(j - 1), IsRow(i)', \A h \in i..j : Kind(h)' # "fail"
          PROVE  wire'[i][2] < wire'[j][2] \/ (i = j - 1 /\ wire'[j][1] = "tail")
      <4>1. CASE i \in 1..Len(wire)
        <5>1. Fresh(i)
          <6>1. wire'[i] = wire[i] /\ \A h \in i..Len(wire) : h \in i..j /\ wire'[h] = wire[h]
            BY <1>1, <2>4, <3>1, <4>1
          <6> QED
            BY <3>7, <6>1 DEF Fresh, IsRow, Kind
        <5>2. sent + t > sent
          BY <1>1
        <5>3. RowAt(i) < buf[chunk][sent + t] \/ (part = 1 /\ sent + t = sent + 1 /\ i = Len(wire))
          BY <2>2, <3>2, <4>1, <5>1, <5>2 DEF FreshInv, SentBefore, ToSend
        <5>4. sent + t = sent + 1 => t = 1
          BY <1>1
        <5>5. wire'[i] = wire[i]
          BY <2>4, <4>1
        <5> QED
          BY <3>2, <3>3, <5>3, <5>4, <5>5 DEF RowAt
      <4>2. CASE i \notin 1..Len(wire)
        <5>1. PICK r \in 1..w : i = Len(wire) + r
          <6>1. i - Len(wire) \in 1..w /\ i = Len(wire) + (i - Len(wire))
            BY <1>1, <2>4, <3>1, <3>7, <4>2
          <6> QED
            BY <6>1
        <5>2. r < t /\ sent + r < sent + t /\ sent + r \in 1..Len(buf[chunk])
          BY <1>1, <2>4, <3>1, <3>7, <5>1
        <5> QED
          BY <2>5, <2>9, <3>2, <5>1, <5>2
      <4> QED
        BY <4>1, <4>2
    <3> QED
      BY <3>5, <3>6, <3>7 DEF RowInPlace, Kind, RowAt
  <2> QED
    BY <1>3, <1>4, <2>4, <2>10
<1> QED
  BY <1>1, <1>5, <1>6, <1>7, WireForms

(* Between failures of a connection the out stream sees every row whole,   *)
(* once and in order, however the socket splits the rows, and after a      *)
(* failure from the beginning of a row.                                    *)
THEOREM RowsKeepTheirPlace == StreamSpec => []RowsWholeAndInOrder
<1>1. StreamInit => FreshInv /\ RowsWholeAndInOrder
  <2>1. StreamInit => Len(wire) = 0 /\ is_disconnected = 1
    BY DEF StreamInit
  <2>2. \A j \in 1..0 : FALSE
    OBVIOUS
  <2> QED
    BY <2>1, <2>2 DEF FreshInv, RowsWholeAndInOrder
<1>2. QueueInv /\ LinkInv /\ FreshInv /\ [StreamNext]_allVars => FreshInv'
  BY FreshStep DEF LinkInv
<1>3. QueueInv /\ LinkInv /\ FreshInv /\ RowsWholeAndInOrder /\ [StreamNext]_allVars
        => RowsWholeAndInOrder'
  BY PlaceStep DEF LinkInv
<1> QED
  BY <1>1, <1>2, <1>3, StreamKeepsQueue, LinkInvariant, PTL DEF StreamSpec

-----------------------------------------------------------------------------
(* Schemas come before the rows that need them.                            *)

Clean == \A i \in 1..Len(wire) : Kind(i) # "noheader"

(* Item i tells the server of row s.                                       *)
Tells(i, s) ==
  \/ IsRow(i) /\ RowAt(i) = s
  \/ Kind(i) = "header" /\ \E k \in 1..Len(wire[i][2]) : wire[i][2][k] = s

(* A row that the reader has yet to send.                                  *)
Pending(s) ==
  \/ \E q \in 1..Len(buf[chunk]) : ToSend(q) /\ buf[chunk][q] = s
  \/ \E c \in Chunks : c # chunk /\ s \in Elems(buf[c])

MetaInv == \A s \in SchemaRows : s <= accepted => s \in Elems(meta)

(* On a connection with headers, every schema row was told or is pending.  *)
DeclInv ==
  lost = << >> /\ Connected /\ Clean =>
    \A s \in SchemaRows : s <= accepted => (\E i \in 1..Len(wire) : Tells(i, s)) \/ Pending(s)

(* The reader's chunk holds the oldest rows when none were dropped.        *)
LEMMA AheadIsNewer ==
  ASSUME QueueInv, lost = << >>, NEW c \in Chunks, c # chunk
  PROVE  Before(Elems(buf[chunk]), Elems(buf[c]))
<1>1. PICK ring, k : Along(ring, k, Allocated)
  BY DEF QueueInv, OrderInv, RingInv
<1>2. /\ Allocated \in Nat \ {0} /\ Chunks = 1..MaxChunks /\ MaxChunks \in Nat
      /\ k \in 1..Allocated /\ ring[k] = chunk
  <2>1. TypeOK
    BY DEF QueueInv
  <2> QED
    BY <1>1, <2>1, QueueTypes, ChainInRing
<1>3. CASE buf[c] = << >>
  BY <1>3, ElemsOfEmpty DEF Before
<1>4. CASE buf[c] # << >>
  <2>1. c \in 1..Allocated
    BY <1>2, <1>4 DEF QueueInv, OrderInv, RowsInv
  <2>2. PICK i \in 1..Allocated : ring[i] = c
    BY <1>1, <2>1 DEF Along, IsRing
  <2>3. ~(i \in 1..(k - 1)) /\ i # k
    BY <1>1, <1>2, <1>4, <2>2 DEF Along
  <2>4. k < i
    BY <1>2, <2>3
  <2> QED
    BY <1>1, <1>2, <2>2, <2>4 DEF Along
<1> QED
  BY <1>3, <1>4

(* If no row is lost after a step, none was before it, and nothing was     *)
(* dropped.                                                                *)
LEMMA LossStays ==
  ASSUME TypeOK, LockInv, [Next]_vars, lost' = << >>
  PROVE  lost = << >> /\ ~Drops
<1>1. CASE Drops
  <2>1. lost \in Seq(Nat) /\ next[writerChunk] \in Chunks /\ \A c \in Chunks : buf[c] \in Seq(Nat)
    BY QueueTypes
  <2>2. lost' = lost \o buf[next[writerChunk]] /\ buf[next[writerChunk]] # << >>
    BY <1>1 DEF Drops
  <2>3. \A q, r \in Seq(Nat) : r # << >> => q \o r # << >>
    OBVIOUS
  <2> QED
    BY <2>1, <2>2, <2>3
<1>2. CASE ~Drops
  BY <1>2, QueueForms DEF Queues, Walks, Delivers, Clears, Accepts, Takes, Adds
<1> QED
  BY <1>1, <1>2

(* A row that is written is in the chain, and none leaves it unsent.       *)
LEMMA RowsStayQueued ==
  ASSUME QueueInv, [Next]_vars, rpc # "send", lost' = << >>
  PROVE  /\ \A m : (\E c \in Chunks : m \in Elems(buf[c])) => \E c \in Chunks : m \in Elems(buf'[c])
         /\ accepted' # accepted => /\ accepted' = accepted + 1
                                    /\ \E c \in Chunks : accepted' \in Elems(buf'[c])
<1>1. TypeOK /\ LockInv /\ ~Drops
  BY LossStays DEF QueueInv
<1>2. /\ buf \in [Chunks -> Seq(Nat)] /\ writerChunk \in Chunks /\ accepted \in Nat
  BY <1>1, QueueTypes
<1>3. CASE Queues \/ Walks \/ Takes \/ Adds
  BY <1>3 DEF Queues, Walks, Takes, Adds, WriterLeaves
<1>4. CASE Accepts
  <2>1. /\ accepted' = accepted + 1
        /\ \A c \in Chunks : buf'[c] = IF c = writerChunk THEN Append(buf[c], accepted + 1) ELSE buf[c]
    BY <1>2, <1>4 DEF Accepts
  <2>2. Elems(buf'[writerChunk]) = Elems(buf[writerChunk]) \cup {accepted + 1}
    <3>1. buf[writerChunk] \in Seq(Nat) /\ accepted + 1 \in Nat
      BY <1>2
    <3>2. Elems(Append(buf[writerChunk], accepted + 1)) = Elems(buf[writerChunk]) \cup {accepted + 1}
      BY <3>1, Appended
    <3> QED
      BY <1>2, <2>1, <3>2
  <2>3. \A c \in Chunks : Elems(buf[c]) \subseteq Elems(buf'[c])
    BY <2>1, <2>2
  <2> QED
    BY <1>2, <2>1, <2>2, <2>3
<1> QED
  BY <1>1, <1>3, <1>4, QueueForms DEF Delivers, Clears

(* If memory suffices, the schemas of the rows that were accepted are in   *)
(* the headers.                                                            *)
LEMMA MetaStep ==
  ASSUME TypeOK, MetaInv, AllocMayFail = FALSE, [Next]_vars
  PROVE  MetaInv'
<1>1. ASSUME UNCHANGED <<accepted, meta>>
      PROVE  MetaInv'
  BY <1>1 DEF MetaInv
<1>2. ASSUME NEW p \in Producers, RowEnd(p)
      PROVE  MetaInv'
  <2>1. /\ accepted' = accepted + 1 /\ accepted \in Nat /\ meta \in Seq(Nat)
        /\ meta' = IF accepted + 1 \in SchemaRows THEN Append(meta, accepted + 1) ELSE meta
    BY <1>2 DEF RowEnd, PushMeta, TypeOK, HistoryTypeOK, ProducerTypeOK
  <2>2. Elems(Append(meta, accepted + 1)) = Elems(meta) \cup {accepted + 1}
    <3>1. accepted + 1 \in Nat
      BY <2>1
    <3> QED
      BY <2>1, <3>1, Appended
  <2>3. \A s \in SchemaRows : s <= accepted' => s <= accepted \/ s = accepted + 1
    <3>1. SchemaRows \subseteq Nat
      BY ConstantsAssumption
    <3> QED
      BY <2>1, <3>1
  <2> QED
    BY <2>1, <2>2, <2>3 DEF MetaInv
<1>3. ASSUME NEW p \in Producers, ProducerStep(p), ~RowEnd(p)
      PROVE  UNCHANGED <<accepted, meta>>
  BY <1>3 DEF ProducerStep, RowStart, StoreLoss, RowEndRefused, RowAbort, RowEndFailed,
              LoadLoss, ClearLoss, history
<1>4. CASE CloseBegin \/ CloseEnd \/ UNCHANGED vars \/ CoolDown
  BY <1>1, <1>4 DEF CloseBegin, CloseEnd, CoolDown, ReaderKeeps, vars, history
<1>5. ReaderLoop \/ SpuriousWakeup \/ Write => UNCHANGED <<accepted, meta>>
  BY DEF ReaderLoop, ReaderCheck, ReaderWait, ReaderWake, SpuriousWakeup, SkipEmptyChunk,
         StillBackingOff, BeginChunk, EndChunk, WalkOn, DrainOn, DrainSleep, Write, WriteFail, WriteOk,
         ReaderKeeps, history
<1> QED
  BY <1>1, <1>2, <1>3, <1>4, <1>5 DEF Next, Elsewhere

(* A schema accepted so far has reached the server on this connection, or  *)
(* is still ahead of the reader.                                           *)
LEMMA DeclStep ==
  ASSUME QueueInv, StreamTypeOK, CallInv, MetaInv, DeclInv, [StreamNext]_allVars
  PROVE  DeclInv'
<1>1. /\ TypeOK /\ LockInv /\ [Next]_vars /\ Len(wire) \in Nat /\ chunk \in Chunks /\ accepted \in Nat
      /\ buf \in [Chunks -> Seq(Nat)] /\ Len(buf[chunk]) \in Nat /\ sent \in Nat /\ part \in {0, 1}
  <2>1. TypeOK
    BY DEF QueueInv
  <2> QED
    BY <2>1, StreamStepsQueue, QueueTypes DEF QueueInv, StreamTypeOK, TypeOK, ReaderTypeOK
<1> SUFFICES ASSUME lost' = << >>, Connected', Clean', NEW s \in SchemaRows, s <= accepted'
             PROVE  (\E i \in 1..Len(wire') : Tells(i, s)') \/ Pending(s)'
  BY DEF DeclInv
<1>2. lost = << >>
  BY <1>1, LossStays
<1>3. s \in Nat
  BY ConstantsAssumption
<1>4. ASSUME NEW i \in 1..Len(wire), wire'[i] = wire[i], Tells(i, s)
      PROVE  Tells(i, s)'
  BY <1>4 DEF Tells, IsRow, Kind, RowAt
<1>5. CASE Around
  <2>1. /\ UNCHANGED <<is_disconnected, header_written, wire>> /\ (Elsewhere \/ UNCHANGED vars)
        /\ Connected /\ Clean
    BY <1>5 DEF Around, Connected, Clean, Kind
  <2>2. s <= accepted => (\E i \in 1..Len(wire) : Tells(i, s)) \/ Pending(s)
    BY <1>2, <2>1 DEF DeclInv
  <2>3. CASE \E i \in 1..Len(wire) : Tells(i, s)
    BY <1>4, <2>1, <2>3
  <2>4. CASE rpc = "send" /\ UNCHANGED <<rpc, buf, chunk, sent, accepted>> /\ ~\E i \in 1..Len(wire) : Tells(i, s)
    <3>1. Pending(s)
      BY <2>2, <2>4
    <3> QED
      BY <2>4, <3>1 DEF Pending, ToSend
  <2>5. CASE EndChunk /\ ~\E i \in 1..Len(wire) : Tells(i, s)
    <3>1. /\ rpc = "send" /\ sent = Len(buf[chunk]) /\ UNCHANGED <<chunk, accepted>>
          /\ \A c \in Chunks : c # chunk => buf'[c] = buf[c]
      BY <1>1, <2>5 DEF EndChunk, ChunkSent, history
    <3>2. \A q \in 1..Len(buf[chunk]) : ~ToSend(q)
      BY <1>1, <3>1 DEF ToSend
    <3> QED
      BY <2>2, <2>5, <3>1, <3>2 DEF Pending
  <2>6. CASE rpc # "send" /\ ~\E i \in 1..Len(wire) : Tells(i, s)
    <3>1. \E c \in Chunks : s \in Elems(buf'[c])
      <4>1. CASE s <= accepted
        <5>1. \E c \in Chunks : s \in Elems(buf[c])
          BY <1>1, <2>2, <2>6, <4>1 DEF Pending, Elems
        <5> QED
          BY <1>1, <2>6, <5>1, RowsStayQueued
      <4>2. CASE ~(s <= accepted)
        <5>1. accepted' # accepted
          BY <4>2
        <5>2. accepted' = accepted + 1 /\ \E c \in Chunks : accepted' \in Elems(buf'[c])
          BY <1>1, <2>6, <5>1, RowsStayQueued
        <5>3. s = accepted'
          BY <1>1, <1>3, <4>2, <5>2
        <5> QED
          BY <5>2, <5>3
      <4> QED
        BY <4>1, <4>2
    <3>2. rpc' = "send" => sent' = 0
      BY <1>1, <2>1, <2>6, SendingIsUndisturbed
    <3>3. \A q \in 1..Len(buf'[chunk']) : ToSend(q)'
      <4>1. \A q \in 1..Len(buf'[chunk']) : q > 0
        OBVIOUS
      <4> QED
        BY <3>2, <4>1 DEF ToSend
    <3> QED
      BY <3>1, <3>3 DEF Pending, Elems
  <2> QED
    BY <1>1, <2>1, <2>3, <2>4, <2>5, <2>6, SendingIsUndisturbed
<1>6. CASE SendHeader
  <2>1. Reaches(<< <<"header", meta>> >>) /\ UNCHANGED accepted
    BY <1>6 DEF SendHeader, vars, history
  <2>2. <<"header", meta>> \in Items
    BY <1>1 DEF Items, TypeOK, ProducerTypeOK
  <2>3. Held \in Nat /\ Len(wire') = Held + 1 /\ wire'[Held + 1] = <<"header", meta>>
    BY <2>1, <2>2, ReachesMarks
  <2>4. PICK h : h = Held + 1
    OBVIOUS
  <2>5. h \in 1..Len(wire') /\ wire'[h] = <<"header", meta>>
    BY <2>3, <2>4
  <2>6. PICK k \in 1..Len(meta) : meta[k] = s
    BY <2>1 DEF MetaInv, Elems
  <2> QED
    BY <2>5, <2>6 DEF Tells, Kind
<1>7. CASE LoseHeader
  <2>1. Reaches(<< <<"noheader", 0>> >>) /\ <<"noheader", 0>> \in Items
    BY <1>7 DEF LoseHeader, Items
  <2>2. Held \in Nat /\ Len(wire') = Held + 1 /\ wire'[Held + 1] = <<"noheader", 0>>
    BY <2>1, ReachesMarks
  <2>3. PICK h : h = Held + 1
    OBVIOUS
  <2>4. h \in 1..Len(wire') /\ wire'[h][1] = "noheader"
    BY <2>2, <2>3
  <2> QED
    BY <2>4 DEF Clean, Kind
<1>8. CASE Fails /\ (FailHeader \/ FailData)
  <2>1. ~FailHeader
    BY DEF FailHeader, Connected
  <2>2. Connected /\ Reaches(<< <<"fail", 0>> >>)
    BY <1>8, <2>1 DEF Fails, FailData, WritesData, NeedsHeader, CallInv, Connected, StreamTypeOK
  <2>3. <<"fail", 0>> \in Items
    BY DEF Items
  <2>4. \A i \in 1..Len(wire) : i \in 1..Len(wire') /\ wire'[i] = wire[i]
    BY <2>2, <2>3, MarksAddNoRow DEF Connected
  <2>5. Clean
    BY <2>4 DEF Clean, Kind
  <2>6. rpc' # "send" /\ UNCHANGED <<accepted, buf, chunk>>
    BY <1>8 DEF Fails
  <2>7. (\E i \in 1..Len(wire) : Tells(i, s)) \/ Pending(s)
    BY <1>2, <2>2, <2>5, <2>6 DEF DeclInv
  <2>8. Pending(s) => Pending(s)'
    BY <2>6 DEF Pending, ToSend
  <2> QED
    BY <1>4, <2>4, <2>7, <2>8
<1>9. ASSUME NEW n \in 0..TargetBufSize, NEW k \in {0, 1}, SendData(n, k)
      PROVE  (\E i \in 1..Len(wire') : Tells(i, s)') \/ Pending(s)'
  <2>1. n \in Nat
    BY ConstantsAssumption
  <2>2. Connected
    BY <1>1, <1>9, <2>1, DataOnWire
  <2>3. PICK w \in Nat : DataSent(n, k, w)
    BY <1>1, <1>9, <2>1, DataOnWire
  <2>4. sent' = sent + n /\ UNCHANGED <<rpc, buf, chunk, accepted>>
    BY <1>9 DEF SendData, WriteOk, ReaderKeeps, chain
  <2>5. /\ Len(wire') = Len(wire) + w /\ \A i \in 1..Len(wire) : wire'[i] = wire[i]
        /\ \A t \in 1..w : /\ wire'[Len(wire) + t][1] \in {"row", "head", "tail"}
                           /\ wire'[Len(wire) + t][2] = buf[chunk][sent + t]
    BY <2>3, DataIsRows
  <2>6. w >= n /\ \A i \in 1..Len(wire) : i \in 1..Len(wire')
    <3>1. w \in {n, n + 1}
      BY <2>3 DEF DataSent
    <3> QED
      BY <1>1, <2>1, <2>5, <3>1
  <2>7. Clean
    BY <2>5, <2>6 DEF Clean, Kind
  <2>8. (\E i \in 1..Len(wire) : Tells(i, s)) \/ Pending(s)
    BY <1>2, <2>2, <2>4, <2>7 DEF DeclInv
  <2>9. ASSUME Pending(s)
        PROVE  (\E i \in 1..Len(wire') : Tells(i, s)') \/ Pending(s)'
    <3>1. CASE \E c \in Chunks : c # chunk /\ s \in Elems(buf[c])
      BY <2>4, <3>1 DEF Pending
    <3>2. ASSUME NEW q \in 1..Len(buf[chunk]), ToSend(q), buf[chunk][q] = s
          PROVE  (\E i \in 1..Len(wire') : Tells(i, s)') \/ Pending(s)'
      <4>1. CASE rpc # "send" \/ q > sent + n
        BY <2>4, <3>2, <4>1 DEF Pending, ToSend
      <4>2. CASE rpc = "send" /\ ~(q > sent + n)
        <5>1. q > sent
          BY <3>2, <4>2 DEF ToSend
        <5>2. q - sent \in 1..w /\ q = sent + (q - sent)
          BY <1>1, <2>1, <2>6, <4>2, <5>1
        <5>3. PICK t \in 1..w : q = sent + t
          BY <5>2
        <5>4. PICK i : i = Len(wire) + t
          OBVIOUS
        <5>5. i \in 1..Len(wire') /\ wire'[i][1] \in {"row", "head", "tail"} /\ wire'[i][2] = s
          BY <1>1, <2>5, <3>2, <5>3, <5>4
        <5> QED
          BY <5>5 DEF Tells, IsRow, Kind, RowAt
      <4> QED
        BY <4>1, <4>2
    <3> QED
      BY <2>9, <3>1, <3>2 DEF Pending
  <2> QED
    BY <1>4, <2>5, <2>6, <2>8, <2>9
<1> QED
  BY <1>5, <1>6, <1>7, <1>8, <1>9, StreamForms

(* What SchemaBeforeRow says of item j.                                    *)
SchemaTold(j) == \A s \in SchemaRows : s < RowAt(j) => \E i \in 1..(j - 1) : Tells(i, s)

(* A row does not overtake a schema that was declared before it.           *)
LEMMA SchemaStep ==
  ASSUME QueueInv, StreamTypeOK, CallInv, DeclInv, SchemaBeforeRow, [StreamNext]_allVars
  PROVE  SchemaBeforeRow'
<1>1. /\ TypeOK /\ LockInv /\ [Next]_vars /\ Len(wire) \in Nat /\ chunk \in Chunks /\ accepted \in Nat
      /\ buf \in [Chunks -> Seq(Nat)] /\ Len(buf[chunk]) \in Nat /\ sent \in Nat /\ part \in {0, 1}
  <2>1. TypeOK
    BY DEF QueueInv
  <2> QED
    BY <2>1, StreamStepsQueue, QueueTypes DEF QueueInv, StreamTypeOK, TypeOK, ReaderTypeOK
<1>2. lost = << >> /\ Clean => \A j \in 1..Len(wire) : IsRow(j) => SchemaTold(j)
  BY DEF SchemaBeforeRow, Clean, SchemaTold, Declared, Tells
<1>3. (lost' = << >> /\ Clean' => \A j \in 1..Len(wire') : IsRow(j)' => SchemaTold(j)') => SchemaBeforeRow'
  BY DEF SchemaBeforeRow, Clean, SchemaTold, Declared, Tells
<1> SUFFICES ASSUME lost' = << >>, Clean', NEW j \in 1..Len(wire'), IsRow(j)'
             PROVE  SchemaTold(j)'
  BY <1>3
<1>4. lost = << >>
  BY <1>1, LossStays
<1>5. ASSUME j \in 1..Len(wire), Clean, \A i \in 1..j : wire'[i] = wire[i]
      PROVE  SchemaTold(j)'
  <2>1. j \in 1..j /\ \A i \in 1..(j - 1) : i \in 1..j
    BY <1>1, <1>5
  <2>2. IsRow(j)
    BY <1>5, <2>1 DEF IsRow, Kind
  <2>3. SchemaTold(j)
    BY <1>2, <1>4, <1>5, <2>2
  <2> QED
    BY <1>5, <2>1, <2>3 DEF SchemaTold, Tells, IsRow, Kind, RowAt
<1>6. CASE UNCHANGED wire
  BY <1>5, <1>6 DEF Clean, Kind
<1>7. ASSUME NEW x \in Items, x[1] \in {"fail", "noheader", "header"}, Reaches(<<x>>)
      PROVE  SchemaTold(j)'
  <2>1. /\ is_disconnected = 0 /\ j \in 1..Len(wire) /\ \A i \in 1..j : wire'[i] = wire[i]
        /\ \A i \in 1..Len(wire) : i \in 1..Len(wire') /\ wire'[i] = wire[i]
    BY <1>7, MarksAddNoRow
  <2> QED
    BY <1>5, <2>1 DEF Clean, Kind
<1>8. ASSUME NEW n \in 0..TargetBufSize, NEW k \in {0, 1}, SendData(n, k)
      PROVE  SchemaTold(j)'
  <2>1. n \in Nat
    BY ConstantsAssumption
  <2>2. Connected /\ rpc = "send"
    BY <1>1, <1>8, <2>1, DataOnWire
  <2>3. PICK w \in Nat : DataSent(n, k, w)
    BY <1>1, <1>8, <2>1, DataOnWire
  <2>4. /\ Len(wire') = Len(wire) + w /\ \A i \in 1..Len(wire) : wire'[i] = wire[i]
        /\ \A t \in 1..w : /\ wire'[Len(wire) + t][1] \in {"row", "head", "tail"}
                           /\ wire'[Len(wire) + t][2] = buf[chunk][sent + t]
                           /\ sent + t \in 1..Len(buf[chunk])
    BY <2>3, DataIsRows
  <2>5. Clean
    <3>1. \A i \in 1..Len(wire) : i \in 1..Len(wire')
      BY <1>1, <2>4
    <3> QED
      BY <2>4, <3>1 DEF Clean, Kind
  <2>6. CASE j \in 1..Len(wire)
    <3>1. \A i \in 1..j : i \in 1..Len(wire)
      BY <1>1, <2>6
    <3> QED
      BY <1>5, <2>4, <2>5, <2>6, <3>1
  <2>7. CASE j \notin 1..Len(wire)
    <3>1. PICK t \in 1..w : j = Len(wire) + t
      <4>1. j - Len(wire) \in 1..w /\ j = Len(wire) + (j - Len(wire))
        BY <1>1, <2>4, <2>7
      <4> QED
        BY <4>1
    <3>2. RowAt(j)' = buf[chunk][sent + t] /\ sent + t \in 1..Len(buf[chunk])
      BY <2>4, <3>1 DEF RowAt
    <3> SUFFICES ASSUME NEW s \in SchemaRows, s < buf[chunk][sent + t]
                 PROVE  \E i \in 1..(j - 1) : Tells(i, s)'
      BY <3>2 DEF SchemaTold
    <3>3. buf[chunk][sent + t] \in Elems(buf[chunk]) /\ Elems(buf[chunk]) \subseteq 1..accepted /\ s \in Nat
      BY <1>1, <3>2, ConstantsAssumption DEF QueueInv, OrderInv, RowsInv, Elems
    <3>4. s <= accepted
      BY <1>1, <3>3
    <3>5. CASE \E i \in 1..Len(wire) : Tells(i, s)
      <4>1. PICK i \in 1..Len(wire) : Tells(i, s)
        BY <3>5
      <4>2. i \in 1..(j - 1) /\ wire'[i] = wire[i]
        BY <1>1, <2>4, <3>1
      <4> QED
        BY <4>1, <4>2 DEF Tells, IsRow, Kind, RowAt
    <3>6. CASE Pending(s)
      <4>1. ASSUME NEW c \in Chunks, c # chunk, s \in Elems(buf[c])
            PROVE  FALSE
        <5>1. buf[chunk][sent + t] < s
          BY <1>4, <3>3, <4>1, AheadIsNewer DEF Before
        <5>2. buf[chunk][sent + t] \in Nat
          BY <1>1, <3>2, SMTT(40)
        <5> QED
          BY <3>3, <5>1, <5>2
      <4>2. PICK q \in 1..Len(buf[chunk]) : q > sent /\ buf[chunk][q] = s
        BY <2>2, <3>6, <4>1 DEF Pending, ToSend
      <4>3. q < sent + t
        <5>1. \A a, b \in 1..Len(buf[chunk]) : a < b => buf[chunk][a] < buf[chunk][b]
          BY <1>1 DEF QueueInv, OrderInv, RowsInv
        <5>2. CASE q > sent + t
          <6>1. buf[chunk][sent + t] < s /\ buf[chunk][sent + t] \in Nat
            BY <1>1, <3>2, <4>2, <5>1, <5>2
          <6> QED
            BY <3>3, <6>1
        <5>3. CASE q = sent + t
          <6>1. buf[chunk][sent + t] = s
            BY <4>2, <5>3
          <6> QED
            BY <3>3, <6>1
        <5> QED
          BY <1>1, <5>2, <5>3
      <4>4. PICK r \in 1..w : q = sent + r /\ r < t
        <5>1. q - sent \in 1..w /\ q = sent + (q - sent) /\ q - sent < t
          BY <1>1, <4>2, <4>3
        <5> QED
          BY <5>1
      <4>5. PICK i : i = Len(wire) + r
        OBVIOUS
      <4>6. i \in 1..(j - 1) /\ wire'[i][1] \in {"row", "head", "tail"} /\ wire'[i][2] = s
        <5>1. i \in 1..(j - 1)
          BY <1>1, <3>1, <4>4, <4>5, SMTT(40)
        <5>2. /\ wire'[Len(wire) + r][1] \in {"row", "head", "tail"}
              /\ wire'[Len(wire) + r][2] = buf[chunk][sent + r]
          BY <2>4
        <5> QED
          BY <4>2, <4>4, <4>5, <5>1, <5>2
      <4> QED
        BY <4>6 DEF Tells, IsRow, Kind, RowAt
    <3> QED
      BY <1>4, <2>2, <2>5, <3>4, <3>5, <3>6 DEF DeclInv
  <2> QED
    BY <2>6, <2>7
<1> QED
  BY <1>1, <1>6, <1>7, <1>8, WireForms

(* The server has been told of every schema before a row that may need it, *)
(* on the first connection and on any after it, so long as no row was      *)
(* dropped, the headers were not skipped and recording a schema row did    *)
(* not fail: a row that meta_buf does not hold is not replayed.            *)
THEOREM SchemasComeFirst ==
  ASSUME AllocMayFail = FALSE
  PROVE  StreamSpec => []SchemaBeforeRow
<1>1. StreamInit => MetaInv /\ DeclInv /\ SchemaBeforeRow
  <2>1. StreamInit => Len(wire) = 0 /\ ~Connected /\ accepted = 0
    BY DEF StreamInit, Init, Connected
  <2>2. \A j \in 1..0 : FALSE
    OBVIOUS
  <2>3. \A s \in SchemaRows : ~(s <= 0)
    BY ConstantsAssumption
  <2> QED
    BY <2>1, <2>2, <2>3 DEF MetaInv, DeclInv, SchemaBeforeRow
<1>2. QueueInv /\ MetaInv /\ [StreamNext]_allVars => MetaInv'
  BY StreamStepsQueue, MetaStep DEF QueueInv
<1>3. QueueInv /\ LinkInv /\ MetaInv /\ DeclInv /\ [StreamNext]_allVars => DeclInv'
  BY DeclStep DEF LinkInv
<1>4. QueueInv /\ LinkInv /\ DeclInv /\ SchemaBeforeRow /\ [StreamNext]_allVars => SchemaBeforeRow'
  BY SchemaStep DEF LinkInv
<1> QED
  BY <1>1, <1>2, <1>3, <1>4, StreamKeepsQueue, LinkInvariant, PTL DEF StreamSpec
=============================================================================
