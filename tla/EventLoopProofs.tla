--------------------------- MODULE EventLoopProofs ---------------------------
(***************************************************************************)
(* Proofs about EventLoop for any number of connections, reads and         *)
(* signals.                                                                *)
(***************************************************************************)
EXTENDS EventLoop, ListProofs

(* The list holds the channels that are allocated, each once.              *)
ListInv ==
  /\ Distinct(channels)
  /\ \A ch \in Channels : chan[ch].memory = "live" <=> ch \in InList

(* The array that update_fds builds: the active channels of the list, each *)
(* once.                                                                   *)
LEMMA ActiveChannelsProperties ==
  ASSUME TypeOK
  PROVE  /\ ActiveChannels(channels, chan) \in Seq(Channels)
         /\ Distinct(channels) => Distinct(ActiveChannels(channels, chan))
         /\ \A ch \in Channels :
              (\E k \in 1..Len(ActiveChannels(channels, chan)) : ActiveChannels(channels, chan)[k] = ch)
                <=> chan[ch].is_active = 1 /\ ch \in InList
<1> DEFINE T == {ch \in Channels : chan[ch].is_active = 1}
           copy == Kept(channels, T)
<1>1. channels \in Seq(Channels)
  BY DEF TypeOK
<1>2. /\ copy \in Seq(Channels)
      /\ \A x : (\E k \in 1..Len(copy) : copy[k] = x) <=> x \in T /\ \E k \in 1..Len(channels) : channels[k] = x
      /\ Distinct(channels) => Distinct(copy)
  <2> HIDE DEF T
  <2> QED BY <1>1, KeptProperties, Zenon
<1>3. ActiveChannels(channels, chan) = copy
  BY DEF ActiveChannels
<1> HIDE DEF copy
<1> QED
  BY <1>2, <1>3 DEF InList

(* The list once a channel is unlinked.                                    *)
LEMMA UnlinkedProperties ==
  ASSUME TypeOK, NEW ch \in Channels
  PROVE  /\ Unlinked(ch) \in Seq(Channels)
         /\ Distinct(channels) => Distinct(Unlinked(ch))
         /\ \A x : (\E k \in 1..Len(Unlinked(ch)) : Unlinked(ch)[k] = x) <=> x \in InList \ {ch}
<1> DEFINE T == Channels \ {ch}
           rest == Kept(channels, T)
<1>1. channels \in Seq(Channels) /\ \A k \in 1..Len(channels) : channels[k] \in Channels
  BY ElementOfSeq DEF TypeOK
<1>2. /\ rest \in Seq(Channels)
      /\ \A x : (\E k \in 1..Len(rest) : rest[k] = x) <=> x \in T /\ \E k \in 1..Len(channels) : channels[k] = x
      /\ Distinct(channels) => Distinct(rest)
  <2> HIDE DEF T
  <2> QED BY <1>1, KeptProperties, Zenon
<1>3. Unlinked(ch) = rest
  BY DEF Unlinked
<1> HIDE DEF rest
<1> QED
  BY <1>1, <1>2, <1>3 DEF InList

-----------------------------------------------------------------------------
(* Type correctness.                                                       *)

Channel ==
  [memory : {"unused", "live", "freed"}, is_active : {0, 1}, is_removable : {0, 1},
   is_shutting_down : {0, 1}]

Socket ==
  [fd : {"none", "listening", "open", "closed"}, data : 0..MaxData,
   peer : {"none", "open", "closed", "reset"}]

(* What callbacks change.                                                  *)
ListTypeOK ==
  /\ chan \in [Channels -> Channel]
  /\ channels \in Seq(Channels)
  /\ fds_dirty \in {0, 1}

SocketTypeOK == sock \in [Channels -> Socket]

(* The parts of the type of the loop's state.                              *)
LEMMA ListTypes ==
  ASSUME TypeOK
  PROVE  /\ ListTypeOK /\ SocketTypeOK
         /\ \A ch \in Channels : chan[ch] \in Channel /\ sock[ch] \in Socket
BY DEF TypeOK, ListTypeOK, SocketTypeOK, Channel, Socket

(* Releasing, removing and deactivating a channel.                         *)
LEMMA ChangeType ==
  ASSUME TypeOK, NEW ch \in Channels,
         ReleaseChannel(ch) \/ RemoveChannel(ch) \/ DeactivateChannel(ch)
  PROVE  ListTypeOK'
<1>1. ListTypeOK /\ chan[ch] \in Channel
  BY ListTypes
<1>2. CASE ReleaseChannel(ch)
  BY <1>1, <1>2 DEF ReleaseChannel, Released, Dirty, ListTypeOK, Channel
<1>3. CASE RemoveChannel(ch)
  BY <1>1, <1>3, UnlinkedProperties, ZenonT(40) DEF RemoveChannel, Freed, Dirty, ListTypeOK, Channel
<1>4. CASE DeactivateChannel(ch)
  BY <1>1, <1>4 DEF DeactivateChannel, Deactivated, Dirty, ListTypeOK, Channel
<1> QED
  BY <1>2, <1>3, <1>4

(* Freeing a channel keeps the types.                                      *)
LEMMA DisposeType ==
  ASSUME TypeOK, NEW ch \in Channels, Dispose(ch)
  PROVE  ListTypeOK' /\ SocketTypeOK'
<1>1. ListTypeOK'
  BY ChangeType DEF Dispose
<1>2. SocketTypeOK'
  BY ListTypes, LoopAssumption DEF Dispose, ClosedSocket, NoSocket, SocketTypeOK, Socket
<1> QED
  BY <1>1, <1>2

(* A callback keeps the types, whatever the application does in it.        *)
LEMMA CallbackType ==
  ASSUME TypeOK, NEW ch \in Channels,
         \/ sock[ch].data > 0 /\ ReadCallback(ch, sock[ch].data - 1)
         \/ StatusCallback(ch, "SOCKET_CONN_CLOSED")
         \/ StatusCallback(ch, "SOCKET_IDLE")
         \/ Accept
  PROVE  ListTypeOK' /\ SocketTypeOK'
<1>1. ListTypeOK /\ SocketTypeOK /\ chan[ch] \in Channel /\ sock[ch] \in Socket
  BY ListTypes
<1>2. CASE UNCHANGED <<chan, channels, fds_dirty, sock>>
  BY <1>1, <1>2 DEF ListTypeOK, SocketTypeOK
<1>3. CASE Dispose(ch)
  BY <1>3, DisposeType
<1>4. CASE sock[ch].data > 0 /\ ReadCallback(ch, sock[ch].data - 1)
  <2>1. sock[ch].data - 1 \in 0..MaxData
    BY <1>1, <1>4, LoopAssumption DEF Socket
  <2>2. CASE sock' = [sock EXCEPT ![ch].data = sock[ch].data - 1]
             /\ UNCHANGED <<chan, channels, fds_dirty>>
    BY <1>1, <2>1, <2>2 DEF ListTypeOK, SocketTypeOK, Socket
  <2> QED
    BY <1>3, <1>4, <2>2 DEF ReadCallback
<1>5. CASE StatusCallback(ch, "SOCKET_CONN_CLOSED") \/ StatusCallback(ch, "SOCKET_IDLE")
  BY <1>2, <1>3, <1>5 DEF StatusCallback
<1>6. CASE Accept
  <2>1. SUFFICES ASSUME NEW new \in Connections, NEW n \in 0..MaxData,
                        chan[new].memory = "unused",
                        chan' = OnInFd(chan, new), channels' = <<new>> \o channels,
                        fds_dirty' = 1, sock' = [sock EXCEPT ![new] = Accepted(n)]
                 PROVE  ListTypeOK' /\ SocketTypeOK'
    BY <1>2, <1>6 DEF Accept
  <2>2. chan' \in [Channels -> Channel]
    BY <1>1, <2>1 DEF ListTypeOK, OnInFd, NewChannel, Unused, Channel, Channels
  <2>3. sock' \in [Channels -> Socket]
    BY <1>1, <2>1 DEF SocketTypeOK, Accepted, Socket, Channels
  <2> QED
    BY <1>1, <2>1, <2>2, <2>3 DEF ListTypeOK, SocketTypeOK
<1> QED
  BY <1>4, <1>5, <1>6

(* Every step keeps the types.                                             *)
LEMMA TypeStep ==
  ASSUME TypeOK, [Next]_vars
  PROVE  TypeOK'
<1> DEFINE Labels == {"test", "update", "poll", "walk", "dispatch", "drain", "idle", "remove",
                      "returned", "crashed"}
           Rest == /\ fds \in Seq(Channels)
                   /\ stopping \in {0, 1} /\ force_stop \in {0, 1}
                   /\ pc \in Labels
                   /\ i \in Nat \ {0}
                   /\ current \in Channels \cup {NoChannel}
                   /\ (current # NoChannel) = (pc \in {"dispatch", "drain", "idle", "crashed"})
                   /\ idle \subseteq Connections /\ wild \in BOOLEAN
                   /\ signals \in 0..MaxSignals
<1>1. ListTypeOK /\ SocketTypeOK /\ \A ch \in Channels : chan[ch] \in Channel /\ sock[ch] \in Socket
  BY ListTypes
<1>2. Rest
  BY DEF TypeOK
<1>3. ListTypeOK' /\ SocketTypeOK' /\ Rest' => TypeOK'
  BY DEF ListTypeOK, SocketTypeOK, TypeOK, Channel, Socket
<1>4. UNCHANGED <<chan, channels, fds_dirty>> => ListTypeOK'
  BY <1>1 DEF ListTypeOK
<1>5. UNCHANGED sock => SocketTypeOK'
  BY <1>1 DEF SocketTypeOK
<1>6. pc \in {"dispatch", "drain", "idle"} => current \in Channels
  BY <1>2
<1>7. CASE Test
  BY <1>2, <1>3, <1>4, <1>5, <1>7 DEF Test, At, loop
<1>8. CASE Update
  <2>1. ListTypeOK' /\ SocketTypeOK'
    BY <1>1, <1>4, <1>5, <1>8 DEF Update, ListTypeOK
  <2>2. fds' \in Seq(Channels) /\ pc' \in {"test", "poll"}
    BY <1>2, <1>8, ActiveChannelsProperties DEF Update
  <2> QED
    BY <1>2, <1>3, <1>8, <2>1, <2>2 DEF Update, At
<1>9. CASE Poll
  BY <1>2, <1>3, <1>4, <1>5, <1>9 DEF Poll, At, loop
<1>10. CASE Fetch
  <2>1. current' \in Channels \cup {NoChannel} /\ (current' # NoChannel <=> pc' = "dispatch")
    BY <1>2, <1>10, ElementOfSeq, LoopAssumption DEF Fetch, Channels
  <2> QED
    BY <1>2, <1>3, <1>4, <1>5, <1>10, <2>1 DEF Fetch, At, loop
<1>11. CASE Error \/ HangUp \/ Invalid
  <2>1. current \in Channels
    BY <1>6, <1>11 DEF Error, HangUp, Invalid, Handling, At
  <2>2. \/ /\ sock[current].data > 0
           /\ sock' = [sock EXCEPT ![current].data = @ - 1]
           /\ UNCHANGED <<chan, channels, fds_dirty>>
        \/ DeactivateChannel(current) /\ UNCHANGED sock
    BY <1>11 DEF Error, HangUp, Invalid
  <2>3. ListTypeOK' /\ SocketTypeOK'
    <3>1. CASE DeactivateChannel(current) /\ UNCHANGED sock
      BY <1>5, <2>1, <3>1, ChangeType
    <3>2. CASE /\ sock[current].data > 0
               /\ sock' = [sock EXCEPT ![current].data = @ - 1]
               /\ UNCHANGED <<chan, channels, fds_dirty>>
      BY <1>1, <1>4, <2>1, <3>2, LoopAssumption DEF SocketTypeOK, Socket
    <3> QED
      BY <2>2, <3>1, <3>2
  <2> QED
    BY <1>2, <1>3, <1>11, <2>3 DEF Error, HangUp, Invalid, Handling, At
<1>12. CASE Drain
  <2>1. current \in Channels
    BY <1>6, <1>12 DEF Drain, At
  <2>2. ListTypeOK' /\ SocketTypeOK'
    BY <1>4, <1>5, <1>12, <2>1, CallbackType DEF Drain
  <2> QED
    BY <1>2, <1>3, <1>12, <2>2 DEF Drain, At
<1>13. CASE Readable
  <2>1. current \in Channels
    BY <1>6, <1>13 DEF Readable, Handling, At
  <2>2. ListTypeOK' /\ SocketTypeOK'
    <3>1. CASE \/ sock[current].data > 0 /\ ReadCallback(current, sock[current].data - 1)
               \/ StatusCallback(current, "SOCKET_CONN_CLOSED")
      BY <2>1, <3>1, CallbackType
    <3>2. CASE /\ sock' = [sock EXCEPT ![current].peer = "closed"]
               /\ UNCHANGED <<chan, channels, fds_dirty>>
      BY <1>1, <1>4, <2>1, <3>2 DEF SocketTypeOK, Socket
    <3>3. CASE /\ RemoveChannel(current) \/ UNCHANGED <<chan, channels, fds_dirty>>
               /\ UNCHANGED sock
      BY <1>4, <1>5, <2>1, <3>3, ChangeType
    <3> QED
      BY <1>13, <3>1, <3>2, <3>3 DEF Readable
  <2> QED
    BY <1>2, <1>3, <1>13, <2>2 DEF Readable, Handling, At
<1>14. CASE Acceptable
  <2>1. current \in Channels
    BY <1>6, <1>14 DEF Acceptable, Handling, At
  <2>2. ListTypeOK' /\ SocketTypeOK'
    BY <1>4, <1>5, <1>14, <2>1, CallbackType DEF Acceptable
  <2> QED
    BY <1>2, <1>3, <1>14, <2>2 DEF Acceptable, Handling, At
<1>15. CASE Quiet
  <2>1. current \in Channels
    BY <1>6, <1>15 DEF Quiet, Handling, At
  <2>2. ListTypeOK' /\ SocketTypeOK'
    BY <1>4, <1>5, <1>15, <2>1, ChangeType DEF Quiet
  <2> QED
    BY <1>2, <1>3, <1>15, <2>2 DEF Quiet, Handling, At
<1>16. CASE Idle
  <2>1. current \in Channels
    BY <1>6, <1>16 DEF Idle, At
  <2>2. ListTypeOK' /\ SocketTypeOK'
    BY <1>4, <1>5, <1>16, <2>1, CallbackType DEF Idle
  <2> QED
    BY <1>2, <1>3, <1>16, <2>2 DEF Idle, At
<1>17. CASE Remove
  <2>1. ListTypeOK' /\ SocketTypeOK'
    <3>1. i <= Len(fds) => fds[i] \in Channels
      BY <1>2, ElementOfSeq
    <3> QED
      BY <1>4, <1>5, <1>17, <3>1, ChangeType DEF Remove, Removable
  <2>2. UNCHANGED <<fds, stopping, force_stop, current, idle, signals>>
    BY <1>17 DEF Remove
  <2>3. wild' \in BOOLEAN /\ i' \in Nat \ {0} /\ pc = "remove" /\ pc' \in {"remove", "test"}
    <3>1. pc = "remove"
      BY <1>17 DEF Remove, At
    <3>2. CASE Removable(i)
      <4>1. wild' = (chan[fds[i]].memory = "freed") /\ i' = i + 1 /\ pc' = pc
        BY <1>17, <3>2 DEF Remove
      <4> QED
        BY <1>2, <3>1, <4>1
    <3>3. CASE ~Removable(i)
      <4>1. wild' = wild /\ i' = 1 /\ pc' = "test"
        BY <1>17, <3>3 DEF Remove
      <4> QED
        BY <1>2, <3>1, <4>1
    <3> QED
      BY <3>2, <3>3
  <2> QED
    BY <1>2, <1>3, <2>1, <2>2, <2>3
<1>18. CASE Signal
  <2>1. chan' \in [Channels -> Channel]
    BY <1>1, <1>18 DEF Signal, Terminated, ListTypeOK, Channel
  <2>2. ListTypeOK' /\ SocketTypeOK'
    BY <1>1, <1>18, <2>1, LoopAssumption DEF Signal, ListTypeOK, SocketTypeOK, Socket, NoSocket
  <2>3. fds' \in Seq(Channels) /\ pc' \in {pc, "test", "poll"} /\ (pc' # pc => pc \in {"poll", "update"})
    <3>1. \A n \in 1..Len(ActiveChannels(channels, chan)) :
            SubSeq(ActiveChannels(channels, chan), 1, n) \in Seq(Channels)
      BY ActiveChannelsProperties
    <3>2. \/ fds' = << >>
          \/ \E n \in 1..Len(ActiveChannels(channels, chan)) :
               fds' = SubSeq(ActiveChannels(channels, chan), 1, n)
      BY <1>18 DEF Signal
    <3>3. fds' \in Seq(Channels)
      <4>1. << >> \in Seq(Channels)
        BY EmptySeq
      <4> QED
        BY <3>1, <3>2, <4>1, Zenon
    <3>4. pc' \in {pc, "test", "poll"} /\ (pc' # pc => pc \in {"poll", "update"})
      BY <1>18 DEF Signal
    <3> QED
      BY <3>3, <3>4
  <2> QED
    BY <1>2, <1>3, <1>18, <2>2, <2>3, LoopAssumption DEF Signal
<1>19. ASSUME NEW ch \in Connections, PeerCloses(ch)
       PROVE  TypeOK'
  <2>1. SocketTypeOK'
    BY <1>1, <1>19 DEF PeerCloses, SocketTypeOK, Socket, Channels
  <2> QED
    BY <1>2, <1>3, <1>4, <1>19, <2>1 DEF PeerCloses, loop
<1>20. ASSUME NEW ch \in Connections, TimePasses(ch)
       PROVE  TypeOK'
  BY <1>2, <1>3, <1>4, <1>5, <1>20 DEF TimePasses, loop
<1>21. CASE UNCHANGED vars
  BY <1>2, <1>3, <1>4, <1>5, <1>21 DEF vars, loop
<1> QED
  BY <1>7, <1>8, <1>9, <1>10, <1>11, <1>12, <1>13, <1>14, <1>15, <1>16, <1>17, <1>18, <1>19,
     <1>20, <1>21
  DEF Next, Run

(* The listening socket is the one channel of a new loop.                  *)
LEMMA TypeInit ==
  ASSUME Init
  PROVE  TypeOK
<1>1. Listener \in Channels /\ NoChannel \notin Channels
  BY LoopAssumption DEF Channels
<1>2. chan \in [Channels -> Channel]
  BY <1>1 DEF Init, OnInFd, NewChannel, Unused, Channel
<1>3. sock \in [Channels -> Socket]
  BY LoopAssumption DEF Init, Listening, NoSocket, Socket
<1>4. channels \in Seq(Channels) /\ fds \in Seq(Channels)
  BY <1>1 DEF Init
<1>5. fds_dirty \in {0, 1} /\ stopping \in {0, 1} /\ force_stop \in {0, 1} /\ i \in Nat \ {0}
      /\ pc = "test" /\ current = NoChannel /\ idle = {} /\ wild = FALSE /\ signals \in 0..MaxSignals
  BY LoopAssumption DEF Init
<1> QED
  <2>1. current \in Channels \cup {NoChannel} /\ idle \subseteq Connections /\ wild \in BOOLEAN
    BY <1>5
  <2>2. (current # NoChannel) = (pc \in {"dispatch", "drain", "idle", "crashed"})
    BY <1>5
  <2> QED
    BY <1>2, <1>3, <1>4, <1>5, <2>1, <2>2 DEF TypeOK, Channel, Socket

(* Every variable of the loop, and of what its callbacks change, has its   *)
(* type.                                                                   *)
THEOREM TypeCorrect == Spec => []TypeOK
<1>1. Init => TypeOK
  BY TypeInit
<1>2. TypeOK /\ [Next]_vars => TypeOK'
  BY TypeStep
<1> QED
  BY <1>1, <1>2, PTL DEF Spec

-----------------------------------------------------------------------------
(* No freed channel is used, where callbacks release channels and leave    *)
(* their removal to the loop.                                              *)

(* A channel that is released, or not allocated, is inactive.              *)
ReleasedInv ==
  \A ch \in Channels :
    chan[ch].is_removable = 1 \/ chan[ch].memory # "live" => chan[ch].is_active = 0

(* fds has no channel twice, those that became inactive since it was built *)
(* are known to be there, and while the loop runs no active one is missing *)
(* unnoticed.                                                              *)
FdsInv ==
  /\ Distinct(fds)
  /\ stopping = force_stop
  /\ \A k \in 1..Len(fds) : chan[fds[k]].is_active = 0 => fds_dirty = 1 \/ stopping = 1
  /\ stopping = 0 /\ fds_dirty = 0
       => \A ch \in Channels : chan[ch].is_active = 1 => \E k \in 1..Len(fds) : fds[k] = ch
  /\ pc = "poll" => fds_dirty = 0

(* fds has a freed channel only while channels are being removed, behind   *)
(* the position that the loop has reached, and then until it is rebuilt or *)
(* the loop ends.                                                          *)
FreedInv ==
  /\ \A k \in 1..Len(fds) :
       \/ chan[fds[k]].memory = "live"
       \/ pc = "remove" /\ k < i
       \/ pc \in {"test", "update"} /\ fds_dirty = 1
       \/ pc \in {"test", "returned"} /\ stopping = 1
  /\ current # NoChannel => chan[current].memory = "live"
  /\ ~wild

LoopInv == TypeOK /\ ListInv /\ ReleasedInv /\ FdsInv /\ FreedInv

(* What a callback may do to the channels: none is freed, and each change  *)
(* of activity makes the arrays dirty.                                     *)
Harmless ==
  /\ ListInv' /\ ReleasedInv'
  /\ \A ch \in Channels :
       /\ chan[ch].memory = "live" => chan'[ch].memory = "live"
       /\ chan'[ch].is_active # chan[ch].is_active => fds_dirty' = 1
  /\ fds_dirty = 1 => fds_dirty' = 1

(* A step that leaves the channels alone is harmless.                      *)
LEMMA UnchangedIsHarmless ==
  ASSUME LoopInv, UNCHANGED <<chan, channels, fds_dirty>>
  PROVE  Harmless
BY DEF LoopInv, ListInv, InList, ReleasedInv, Harmless

(* eventloop_socket_release and eventloop_socket_activate on a channel.    *)
LEMMA ReleaseIsHarmless ==
  ASSUME LoopInv, NEW ch \in Channels, ReleaseChannel(ch) \/ DeactivateChannel(ch)
  PROVE  Harmless
<1>1. /\ \A x \in Channels : chan[x] \in Channel
      /\ chan \in [Channels -> Channel] /\ fds_dirty \in {0, 1}
  BY ListTypes DEF LoopInv, ListTypeOK
<1>2. /\ channels' = channels /\ fds_dirty' = Dirty(chan, ch)
      /\ chan' = Released(chan, ch) \/ chan' = Deactivated(chan, ch)
  BY DEF ReleaseChannel, DeactivateChannel
<1>3. \A x \in Channels :
        /\ chan'[x].memory = chan[x].memory
        /\ x # ch => chan'[x] = chan[x]
        /\ chan'[ch].is_active = 0
  BY <1>1, <1>2 DEF Released, Deactivated, Channel
<1>4. ListInv'
  BY <1>2, <1>3 DEF LoopInv, ListInv, InList
<1>5. ReleasedInv'
  BY <1>1, <1>3 DEF LoopInv, ReleasedInv
<1>6. fds_dirty = 1 \/ chan[ch].is_active = 1 => fds_dirty' = 1
  BY <1>2 DEF Dirty
<1>7. chan[ch].is_active \in {0, 1}
  BY <1>1 DEF Channel
<1> QED
  BY <1>3, <1>4, <1>5, <1>6, <1>7 DEF Harmless

(* A callback that releases channels, adds one or activates one is         *)
(* harmless to the walk over the array of descriptors.                     *)
LEMMA CallbackIsHarmless ==
  ASSUME LoopInv, RemovesAtOnce = FALSE, NEW ch \in Channels,
         \/ sock[ch].data > 0 /\ ReadCallback(ch, sock[ch].data - 1)
         \/ StatusCallback(ch, "SOCKET_CONN_CLOSED")
         \/ StatusCallback(ch, "SOCKET_IDLE")
         \/ Accept
  PROVE  Harmless
<1>1. CASE Dispose(ch)
  BY <1>1, ReleaseIsHarmless DEF Dispose
<1>2. CASE UNCHANGED <<chan, channels, fds_dirty>>
  BY <1>2, UnchangedIsHarmless
<1>3. CASE Accept
  <2>1. SUFFICES ASSUME NEW new \in Connections, chan[new].memory = "unused",
                        chan' = OnInFd(chan, new), channels' = <<new>> \o channels, fds_dirty' = 1
                 PROVE  Harmless
    BY <1>2, <1>3 DEF Accept
  <2>2. /\ new \in Channels /\ channels \in Seq(Channels) /\ chan \in [Channels -> Channel]
        /\ <<new>> \in Seq(Channels)
    BY ListTypes DEF LoopInv, ListTypeOK, Channels
  <2>3. \A x \in Channels : chan'[x] = IF x = new THEN NewChannel ELSE chan[x]
    BY <2>1, <2>2 DEF OnInFd
  <2>4. NewChannel.memory = "live" /\ NewChannel.is_active = 1 /\ NewChannel.is_removable = 0
    BY DEF NewChannel, Unused
  <2>5. new \notin InList
    BY <2>1, <2>2 DEF LoopInv, ListInv
  <2>6. /\ Len(channels') = 1 + Len(channels) /\ Len(channels) \in Nat
        /\ \A k \in 1..(1 + Len(channels)) : channels'[k] = IF k = 1 THEN new ELSE channels[k - 1]
    BY <2>1, <2>2, ConcatProperties, LenProperties
  <2>7. ListInv'
    <3>1. Distinct(channels')
      BY <2>5, <2>6, SMTT(40) DEF LoopInv, ListInv, InList, Distinct
    <3>2. \A x : (\E k \in 1..Len(channels') : channels'[k] = x)
                    <=> x = new \/ \E k \in 1..Len(channels) : channels[k] = x
      <4> TAKE x
      <4>1. ASSUME NEW k \in 1..Len(channels), channels[k] = x
            PROVE  \E l \in 1..Len(channels') : channels'[l] = x
        <5>1. k + 1 \in 1..Len(channels') /\ channels'[k + 1] = x
          BY <2>6, <4>1
        <5> QED
          BY <5>1
      <4>2. 1 \in 1..Len(channels') /\ channels'[1] = new
        BY <2>6
      <4>3. ASSUME NEW l \in 1..Len(channels'), channels'[l] = x, x # new
            PROVE  \E k \in 1..Len(channels) : channels[k] = x
        <5>1. l - 1 \in 1..Len(channels) /\ channels[l - 1] = x
          BY <2>6, <4>3
        <5> QED
          BY <5>1
      <4> QED
        BY <4>1, <4>2, <4>3
    <3>3. \A x : x \in InList' <=> x = new \/ x \in InList
      BY <3>2 DEF InList
    <3>4. \A x \in Channels : chan'[x].memory = "live" <=> x = new \/ chan[x].memory = "live"
      BY <2>3, <2>4
    <3> QED
      BY <3>1, <3>3, <3>4 DEF LoopInv, ListInv
  <2>8. ReleasedInv'
    BY <2>3, <2>4 DEF LoopInv, ReleasedInv
  <2> QED
    BY <2>1, <2>3, <2>4, <2>7, <2>8 DEF Harmless
<1> QED
  BY <1>1, <1>2, <1>3 DEF ReadCallback, StatusCallback

(* What is left to show of a step that only does what is harmless.         *)
LEMMA HarmlessStep ==
  ASSUME LoopInv, TypeOK', Harmless, UNCHANGED <<fds, stopping, force_stop, wild>>,
         pc \in {"dispatch", "drain", "idle"}, pc' # "poll",
         current' \in {current, NoChannel}
  PROVE  LoopInv'
<1>1. /\ fds \in Seq(Channels) /\ Len(fds) \in Nat /\ \A k \in 1..Len(fds) : fds[k] \in Channels
      /\ current \in Channels \cup {NoChannel} /\ fds_dirty \in {0, 1} /\ fds_dirty' \in {0, 1}
      /\ \A ch \in Channels : chan[ch].is_active \in {0, 1}
  BY ElementOfSeq, LenProperties DEF LoopInv, TypeOK
<1>2. FdsInv'
  BY <1>1 DEF LoopInv, FdsInv, Harmless
<1>3. FreedInv'
  BY <1>1 DEF LoopInv, FreedInv, Harmless
<1> QED
  BY <1>2, <1>3 DEF LoopInv, Harmless

(* eventloop_socket_remove of a released channel, at its place in fds.     *)
LEMMA RemoveStep ==
  ASSUME LoopInv, Remove, TypeOK'
  PROVE  LoopInv'
<1>1. /\ fds \in Seq(Channels) /\ Len(fds) \in Nat /\ \A k \in 1..Len(fds) : fds[k] \in Channels
      /\ current = NoChannel /\ i \in Nat \ {0} /\ pc = "remove" /\ fds_dirty \in {0, 1}
      /\ UNCHANGED <<fds, stopping, force_stop, current>>
  BY ElementOfSeq, LenProperties DEF LoopInv, TypeOK, Remove, At
<1>2. CASE Removable(i) /\ chan[fds[i]].is_removable = 1
  <2> DEFINE ch == fds[i]
  <2>1. i \in 1..Len(fds) /\ ch \in Channels /\ chan[ch].memory = "live"
    BY <1>1, <1>2 DEF Removable, LoopInv, FreedInv
  <2>2. RemoveChannel(ch) /\ wild' = FALSE /\ i' = i + 1 /\ pc' = "remove"
    BY <1>1, <1>2, <2>1 DEF Remove, LoopInv
  <2>3. /\ chan \in [Channels -> Channel] /\ chan[ch].is_active = 0
    BY <1>2, <2>1, ListTypes DEF LoopInv, ListTypeOK, ReleasedInv
  <2>4. \A x \in Channels : /\ chan'[x].is_active = chan[x].is_active
                            /\ chan'[x].is_removable = chan[x].is_removable
                            /\ chan'[x].memory = IF x = ch THEN "freed" ELSE chan[x].memory
    BY <2>2, <2>3 DEF RemoveChannel, Freed, Channel
  <2>5. fds_dirty' = fds_dirty
    BY <2>2, <2>3 DEF RemoveChannel, Dirty
  <2>6. ListInv'
    <3>1. channels' = Unlinked(ch)
      BY <2>2 DEF RemoveChannel
    <3>2. /\ Distinct(channels')
          /\ \A x : (\E k \in 1..Len(channels') : channels'[k] = x) <=> x \in InList \ {ch}
      BY <2>1, <3>1, UnlinkedProperties DEF LoopInv, ListInv
    <3>3. \A x : x \in InList' <=> x \in InList \ {ch}
      BY <3>2 DEF InList
    <3> QED
      BY <2>4, <3>2, <3>3 DEF LoopInv, ListInv
  <2>7. ReleasedInv'
    BY <2>3, <2>4 DEF LoopInv, ReleasedInv
  <2>8. FdsInv'
    BY <1>1, <2>2, <2>4, <2>5 DEF LoopInv, FdsInv
  <2>9. FreedInv'
    <3>1. \A k \in 1..Len(fds) : fds[k] = ch => k = i
      BY <2>1 DEF LoopInv, FdsInv, Distinct
    <3> QED
      BY <1>1, <2>1, <2>2, <2>4, <3>1 DEF LoopInv, FreedInv
  <2> QED
    BY <2>6, <2>7, <2>8, <2>9 DEF LoopInv
<1>3. CASE Removable(i) /\ chan[fds[i]].is_removable # 1
  <2>1. i \in 1..Len(fds) /\ chan[fds[i]].memory = "live"
    BY <1>1, <1>3 DEF Removable, LoopInv, FreedInv
  <2>2. UNCHANGED <<chan, channels, fds_dirty>> /\ wild' = FALSE /\ i' = i + 1 /\ pc' = "remove"
    BY <1>1, <1>3, <2>1 DEF Remove
  <2>3. FdsInv'
    BY <1>1, <2>2 DEF LoopInv, FdsInv
  <2>4. FreedInv'
    BY <1>1, <2>1, <2>2 DEF LoopInv, FreedInv
  <2> QED
    BY <2>2, <2>3, <2>4 DEF LoopInv, ListInv, InList, ReleasedInv
<1>4. CASE ~Removable(i)
  <2>1. UNCHANGED <<chan, channels, fds_dirty, wild>> /\ pc' = "test"
    BY <1>1, <1>4 DEF Remove
  <2>2. FdsInv'
    BY <1>1, <2>1 DEF LoopInv, FdsInv
  <2>3. ASSUME NEW k \in 1..Len(fds), chan[fds[k]].memory # "live"
        PROVE  fds_dirty = 1 \/ stopping = 1
    BY <1>1, <2>3 DEF LoopInv, ReleasedInv, FdsInv
  <2>4. FreedInv'
    BY <1>1, <2>1, <2>3 DEF LoopInv, FreedInv
  <2> QED
    BY <2>1, <2>2, <2>4 DEF LoopInv, ListInv, InList, ReleasedInv
<1> QED
  BY <1>2, <1>3, <1>4

(* update_fds.                                                             *)
LEMMA UpdateStep ==
  ASSUME LoopInv, Update, TypeOK'
  PROVE  LoopInv'
<1>1. /\ pc = "update" /\ ~wild /\ current = NoChannel /\ fds_dirty \in {0, 1}
      /\ UNCHANGED <<chan, channels, stopping, force_stop, current, wild>>
      /\ \A ch \in Channels : chan[ch].is_active \in {0, 1}
  BY DEF LoopInv, TypeOK, Update, At
<1>2. ListInv' /\ ReleasedInv'
  BY <1>1 DEF LoopInv, ListInv, InList, ReleasedInv
<1>3. CASE fds_dirty = 1
  <2>1. fds' = ActiveChannels(channels, chan) /\ fds_dirty' = 0
    BY <1>3 DEF Update
  <2>2. /\ fds' \in Seq(Channels) /\ Distinct(fds')
        /\ \A ch \in Channels : (\E k \in 1..Len(fds') : fds'[k] = ch)
                                  <=> chan[ch].is_active = 1 /\ ch \in InList
    BY <2>1, ActiveChannelsProperties DEF LoopInv, ListInv
  <2>3. \A k \in 1..Len(fds') : /\ fds'[k] \in Channels
                               /\ chan[fds'[k]].is_active = 1 /\ chan[fds'[k]].memory = "live"
    <3> TAKE k \in 1..Len(fds')
    <3>1. fds'[k] \in Channels
      BY <2>2, ElementOfSeq
    <3> QED
      BY <2>2, <3>1 DEF LoopInv, ListInv
  <2>4. FdsInv'
    <3>1. \A ch \in Channels : chan[ch].is_active = 1 => ch \in InList
      BY <1>1 DEF LoopInv, ListInv, ReleasedInv
    <3> QED
      BY <1>1, <2>1, <2>2, <2>3, <3>1 DEF LoopInv, FdsInv
  <2>5. FreedInv'
    BY <1>1, <2>3 DEF FreedInv
  <2> QED
    BY <1>2, <2>4, <2>5 DEF LoopInv
<1>4. CASE fds_dirty = 0
  <2>1. UNCHANGED <<fds, fds_dirty>> /\ pc' = "poll"
    BY <1>4 DEF Update
  <2>2. FdsInv'
    BY <1>1, <1>4, <2>1 DEF LoopInv, FdsInv
  <2>3. FreedInv'
    BY <1>1, <1>4, <2>1 DEF LoopInv, FreedInv
  <2> QED
    BY <1>2, <2>2, <2>3 DEF LoopInv
<1> QED
  BY <1>1, <1>3, <1>4

(* terminate_fds in the signal handler: every channel is released, and fds *)
(* has none, or the part of the active ones that update_fds had copied.    *)
LEMMA SignalStep ==
  ASSUME LoopInv, Signal, TypeOK'
  PROVE  LoopInv'
<1>1. /\ ~wild /\ fds_dirty' = 0 /\ stopping' = 1 /\ force_stop' = 1 /\ chan' = Terminated(chan)
      /\ UNCHANGED <<channels, current, wild>>
  BY DEF Signal
<1>2. chan \in [Channels -> Channel] /\ current \in Channels \cup {NoChannel}
  BY ListTypes DEF LoopInv, TypeOK, ListTypeOK
<1>3. \A ch \in Channels : /\ chan'[ch].memory = chan[ch].memory
                           /\ ch \in InList => chan'[ch].is_active = 0
                           /\ ch \notin InList => chan'[ch] = chan[ch]
  BY <1>1, <1>2 DEF Terminated, Channel
<1>4. ListInv'
  BY <1>1, <1>3 DEF LoopInv, ListInv, InList
<1>5. ReleasedInv'
  BY <1>3 DEF LoopInv, ReleasedInv
<1>6. /\ Distinct(fds')
      /\ \A k \in 1..Len(fds') : chan[fds'[k]].memory = "live" /\ fds'[k] \in Channels
  <2>1. CASE fds' = << >>
    BY <2>1 DEF Distinct
  <2>2. CASE \E n \in 1..Len(ActiveChannels(channels, chan)) :
               fds' = SubSeq(ActiveChannels(channels, chan), 1, n)
    <3> DEFINE active == ActiveChannels(channels, chan)
    <3>1. /\ active \in Seq(Channels) /\ Distinct(active)
          /\ \A k \in 1..Len(active) : active[k] \in Channels /\ active[k] \in InList
      <4>1. /\ active \in Seq(Channels) /\ Distinct(active)
            /\ \A ch \in Channels : (\E k \in 1..Len(active) : active[k] = ch) => ch \in InList
        BY ActiveChannelsProperties DEF LoopInv, ListInv
      <4>2. \A k \in 1..Len(active) : active[k] \in Channels
        BY <4>1, ElementOfSeq
      <4> QED
        BY <4>1, <4>2
    <3> HIDE DEF active
    <3>2. PICK n \in 1..Len(active) : fds' = SubSeq(active, 1, n)
      BY <2>2 DEF active
    <3>3. /\ Len(active) \in Nat /\ Len(fds') = n
          /\ \A k \in 1..n : fds'[k] = active[k]
      BY <3>1, <3>2, SubSeqProperties, LenProperties
    <3> QED
      BY <3>1, <3>3 DEF LoopInv, ListInv, Distinct
  <2> QED
    BY <2>1, <2>2 DEF Signal
<1>7. FdsInv'
  BY <1>1, <1>6 DEF FdsInv
<1>8. FreedInv'
  BY <1>1, <1>2, <1>3, <1>6 DEF LoopInv, FreedInv
<1> QED
  BY <1>4, <1>5, <1>7, <1>8 DEF LoopInv

(* A new loop has polled nothing and released nothing.                     *)
LEMMA LoopInit ==
  ASSUME Init
  PROVE  LoopInv
<1>1. TypeOK
  BY TypeInit
<1>2. \A ch \in Channels : chan[ch] = IF ch = Listener THEN NewChannel ELSE Unused
  BY DEF Init, OnInFd, Channels
<1>3. /\ NewChannel.memory = "live" /\ NewChannel.is_active = 1 /\ NewChannel.is_removable = 0
      /\ Unused.memory = "unused" /\ Unused.is_active = 0
  BY DEF NewChannel, Unused
<1>4. /\ Len(channels) = 1 /\ channels[1] = Listener /\ fds = << >> /\ current = NoChannel
      /\ fds_dirty = 1 /\ stopping = 0 /\ force_stop = 0 /\ pc = "test" /\ wild = FALSE
  BY DEF Init
<1>5. ListInv
  BY <1>2, <1>3, <1>4 DEF ListInv, InList, Distinct
<1>6. ReleasedInv
  BY <1>2, <1>3 DEF ReleasedInv
<1>7. FdsInv
  BY <1>4 DEF FdsInv, Distinct
<1>8. FreedInv
  BY <1>4 DEF FreedInv
<1> QED
  BY <1>1, <1>5, <1>6, <1>7, <1>8 DEF LoopInv

(* Every step keeps the invariant, if channels are released and not        *)
(* removed at once.                                                        *)
LEMMA LoopStep ==
  ASSUME LoopInv, [Next]_vars, RemovesAtOnce = FALSE, DescriptorsReused = FALSE
  PROVE  LoopInv'
<1>0. TypeOK'
  BY TypeStep DEF LoopInv
<1>1. /\ fds \in Seq(Channels) /\ Len(fds) \in Nat /\ \A k \in 1..Len(fds) : fds[k] \in Channels
      /\ i \in Nat \ {0} /\ current \in Channels \cup {NoChannel} /\ fds_dirty \in {0, 1}
      /\ (current # NoChannel) = (pc \in {"dispatch", "drain", "idle", "crashed"})
      /\ NoChannel \notin Channels
  BY ElementOfSeq, LenProperties, LoopAssumption DEF LoopInv, TypeOK, Channels
<1>2. current # NoChannel => chan[current].memory = "live" /\ current \in Channels
  BY <1>1 DEF LoopInv, FreedInv
<1>3. ASSUME UNCHANGED <<chan, channels, fds, fds_dirty, stopping, force_stop, wild>>,
             pc' = "poll" => pc = "poll" \/ fds_dirty = 0
      PROVE  ListInv' /\ ReleasedInv' /\ FdsInv'
  BY <1>3 DEF LoopInv, ListInv, InList, ReleasedInv, FdsInv
<1>4. CASE Test
  <2>1. /\ UNCHANGED <<chan, channels, fds, fds_dirty, stopping, force_stop, wild, i, current>>
        /\ pc = "test" /\ pc' \in {"update", "returned"}
        /\ pc' = "returned" => stopping # 0
        /\ pc' = "update" => stopping = 0 \/ force_stop = 0
    BY <1>4 DEF Test, At, loop
  <2>2. stopping \in {0, 1} /\ stopping = force_stop
    BY DEF LoopInv, TypeOK, FdsInv
  <2>3. FreedInv'
    BY <1>1, <2>1, <2>2 DEF LoopInv, FreedInv
  <2> QED
    BY <1>0, <1>3, <2>1, <2>3 DEF LoopInv
<1>5. CASE Poll
  <2>1. /\ UNCHANGED <<chan, channels, fds, fds_dirty, stopping, force_stop, wild, current>>
        /\ pc = "poll" /\ pc' = "walk"
    BY <1>5 DEF Poll, At, loop
  <2>2. FreedInv'
    BY <1>1, <2>1 DEF LoopInv, FreedInv
  <2> QED
    BY <1>0, <1>3, <2>1, <2>2 DEF LoopInv
<1>6. CASE Fetch
  <2>1. /\ UNCHANGED <<chan, channels, fds, fds_dirty, stopping, force_stop, wild>>
        /\ pc = "walk" /\ pc' \in {"dispatch", "remove"}
        /\ \/ i <= Len(fds) /\ current' = fds[i]
           \/ current' = NoChannel
    BY <1>6 DEF Fetch, At, loop
  <2>2. FreedInv'
    BY <1>1, <2>1 DEF LoopInv, FreedInv
  <2> QED
    BY <1>0, <1>3, <2>1, <2>2 DEF LoopInv
<1>7. CASE Error \/ HangUp \/ Invalid
  <2>1. /\ DeactivateChannel(current) \/ UNCHANGED <<chan, channels, fds_dirty>>
        /\ pc = "dispatch" /\ pc' \in {"idle", "drain"}
        /\ UNCHANGED <<fds, stopping, force_stop, current, wild>>
    BY <1>7 DEF Error, HangUp, Invalid, Handling, At
  <2>2. Harmless
    BY <1>1, <2>1, ReleaseIsHarmless, UnchangedIsHarmless
  <2> QED
    BY <1>0, <2>1, <2>2, HarmlessStep
<1>8. CASE Quiet
  <2>1. /\ ReleaseChannel(current) \/ UNCHANGED <<chan, channels, fds_dirty>>
        /\ pc = "dispatch" /\ pc' = "idle"
        /\ UNCHANGED <<fds, stopping, force_stop, current, wild>>
    BY <1>8 DEF Quiet, Handling, At
  <2>2. Harmless
    BY <1>1, <2>1, ReleaseIsHarmless, UnchangedIsHarmless
  <2> QED
    BY <1>0, <2>1, <2>2, HarmlessStep
<1>9. CASE Readable
  <2>1. /\ \/ sock[current].data > 0 /\ ReadCallback(current, sock[current].data - 1)
           \/ StatusCallback(current, "SOCKET_CONN_CLOSED")
           \/ UNCHANGED <<chan, channels, fds_dirty>>
        /\ pc = "dispatch" /\ pc' = "idle"
        /\ UNCHANGED <<fds, stopping, force_stop, current, wild>>
    BY <1>9 DEF Readable, Handling, At
  <2>2. Harmless
    BY <1>1, <2>1, CallbackIsHarmless, UnchangedIsHarmless
  <2> QED
    BY <1>0, <2>1, <2>2, HarmlessStep
<1>10. CASE Acceptable
  <2>1. /\ Accept \/ UNCHANGED <<chan, channels, fds_dirty>>
        /\ pc = "dispatch" /\ pc' \in {"idle", "crashed"}
        /\ UNCHANGED <<fds, stopping, force_stop, current, wild>>
    BY <1>10 DEF Acceptable, Handling, At
  <2>2. Harmless
    BY <1>1, <2>1, CallbackIsHarmless, UnchangedIsHarmless
  <2> QED
    BY <1>0, <2>1, <2>2, HarmlessStep
<1>11. CASE Drain
  <2>1. pc = "drain" /\ ~wild
    BY <1>11 DEF Drain, At
  <2>2. current \in Channels /\ chan[current].memory # "freed"
    BY <1>1, <1>2, <2>1
  <2>3. /\ \/ sock[current].data > 0 /\ ReadCallback(current, sock[current].data - 1)
           \/ StatusCallback(current, "SOCKET_CONN_CLOSED")
        /\ pc' \in {"drain", "idle"}
        /\ UNCHANGED <<fds, stopping, force_stop, current, wild>>
    BY <1>11, <2>1, <2>2 DEF Drain
  <2>4. Harmless
    BY <2>2, <2>3, CallbackIsHarmless
  <2> QED
    BY <1>0, <2>1, <2>3, <2>4, HarmlessStep
<1>12. CASE Idle
  <2>1. pc = "idle" /\ ~wild
    BY <1>12 DEF Idle, At
  <2>2. current \in Channels /\ chan[current].memory # "freed"
    BY <1>1, <1>2, <2>1
  <2>3. /\ \/ StatusCallback(current, "SOCKET_IDLE")
           \/ UNCHANGED <<chan, channels, fds_dirty>>
        /\ pc' = "walk" /\ current' = NoChannel
        /\ wild' = FALSE
        /\ UNCHANGED <<fds, stopping, force_stop>>
    BY <1>12, <2>2 DEF Idle
  <2>4. wild' = wild
    BY <2>1, <2>3 DEF LoopInv, TypeOK
  <2>5. Harmless
    BY <2>2, <2>3, CallbackIsHarmless, UnchangedIsHarmless
  <2> QED
    BY <1>0, <2>1, <2>3, <2>4, <2>5, HarmlessStep
<1>13. CASE Update
  BY <1>0, <1>13, UpdateStep
<1>14. CASE Remove
  BY <1>0, <1>14, RemoveStep
<1>15. CASE Signal
  BY <1>0, <1>15, SignalStep
<1>16. CASE \/ UNCHANGED vars
            \/ \E ch \in Connections : PeerCloses(ch) \/ TimePasses(ch)
  <2>1. UNCHANGED <<chan, channels, fds, loop, pc, i, current, wild>>
    BY <1>16 DEF vars, PeerCloses, TimePasses
  <2>2. UNCHANGED <<fds_dirty, stopping, force_stop>>
    BY <2>1 DEF loop
  <2>3. FreedInv'
    BY <2>1, <2>2 DEF LoopInv, FreedInv
  <2> QED
    BY <1>0, <1>3, <2>1, <2>2, <2>3 DEF LoopInv
<1> QED
  BY <1>4, <1>5, <1>6, <1>7, <1>8, <1>9, <1>10, <1>11, <1>12, <1>13, <1>14, <1>15, <1>16
     DEF Next, Run

(* The array of descriptors and the list of channels agree in every state. *)
LEMMA LoopCorrect ==
  ASSUME RemovesAtOnce = FALSE, DescriptorsReused = FALSE
  PROVE  Spec => []LoopInv
<1>1. Init => LoopInv
  BY LoopInit
<1>2. LoopInv /\ [Next]_vars => LoopInv'
  BY LoopStep
<1> QED
  BY <1>1, <1>2, PTL DEF Spec

(* eventloop_run of oml2-server never follows a pointer to a channel that  *)
(* has been freed, although fds_channels keeps such pointers from the      *)
(* removal of channels to the next update_fds, and callbacks and signals   *)
(* come in any order.                                                      *)
THEOREM ReleasedChannelsAreNotUsed ==
  ASSUME RemovesAtOnce = FALSE, DescriptorsReused = FALSE
  PROVE  Spec => []NoFreedChannelUsed
<1>1. LoopInv => NoFreedChannelUsed
  BY DEF LoopInv, FreedInv, NoFreedChannelUsed
<1> QED
  BY <1>1, LoopCorrect, PTL

(* The length of a list without repetition is the number of its elements.  *)
LEMMA DistinctCardinality ==
  ASSUME NEW S, NEW list \in Seq(S), Distinct(list)
  PROVE  Len(list) = Cardinality({list[k] : k \in 1..Len(list)})
<1> DEFINE T == {list[k] : k \in 1..Len(list)}
           f == [k \in 1..Len(list) |-> list[k]]
<1>1. Len(list) \in Nat
  BY LenProperties
<1>2. f \in Bijection(1..Len(list), T)
  BY DEF Bijection, Injection, IsInjective, Surjection, Distinct
<1>3. IsFiniteSet(1..Len(list)) /\ Cardinality(1..Len(list)) = Len(list)
  BY <1>1, FS_Interval, SMTT(40)
<1> HIDE DEF f, T
<1>4. Cardinality(T) = Cardinality(1..Len(list))
  BY <1>2, <1>3, FS_Bijection DEF ExistsBijection
<1> QED
  BY <1>3, <1>4 DEF T

(* Until it is stopped, the loop of oml2-server calls poll with each       *)
(* active channel once and no other.                                       *)
THEOREM ActiveChannelsArePolled ==
  ASSUME RemovesAtOnce = FALSE, DescriptorsReused = FALSE
  PROVE  Spec => []PollsTheActive
<1>1. ASSUME LoopInv, pc = "poll", stopping = 0
      PROVE  PollsTheActive
  <2>1. /\ fds \in Seq(Channels) /\ \A ch \in Channels : chan[ch] \in Channel
        /\ \A k \in 1..Len(fds) : fds[k] \in Channels
    <3>1. TypeOK /\ fds \in Seq(Channels)
      BY <1>1 DEF LoopInv, TypeOK
    <3> QED
      BY <3>1, ListTypes, ElementOfSeq
  <2>2. \A k \in 1..Len(fds) : chan[fds[k]].is_active = 1 /\ chan[fds[k]].memory = "live"
    BY <1>1, <2>1 DEF LoopInv, FdsInv, FreedInv, Channel
  <2>3. \A ch \in Channels : chan[ch].is_active = 1 => \E k \in 1..Len(fds) : fds[k] = ch
    BY <1>1 DEF LoopInv, FdsInv
  <2>4. {fds[k] : k \in 1..Len(fds)} = {ch \in Channels : chan[ch].memory = "live" /\ Active(ch)}
    BY <2>1, <2>2, <2>3 DEF Active
  <2>5. Len(fds) = Cardinality({fds[k] : k \in 1..Len(fds)})
    BY <1>1, <2>1, DistinctCardinality DEF LoopInv, FdsInv
  <2> QED
    BY <2>4, <2>5 DEF PollsTheActive
<1>2. LoopInv => PollsTheActive
  BY <1>1 DEF PollsTheActive
<1> QED
  BY <1>2, LoopCorrect, PTL
=============================================================================
