------------------------------ MODULE EventLoop ------------------------------
(***************************************************************************)
(* The event loop of OComm (lib/ocomm/eventloop.c): channels registered in *)
(* a linked list, the arrays `fds` and `fds_channels` built from the list  *)
(* for poll(2), the walk over the events, the removal of released          *)
(* channels, and eventloop_terminate called by a signal handler between    *)
(* any two steps.                                                          *)
(*                                                                         *)
(* The users of the loop are the listening sockets (lib/ocomm/socket.c)    *)
(* and the handlers of connections.  oml2-server releases a channel from   *)
(* within its callbacks and leaves its removal to the loop; the proxy      *)
(* removes it at once (RemovesAtOnce).                                     *)
(*                                                                         *)
(* No program registers a timer, so that poll waits without a timeout.     *)
(* Data is counted in reads, and time is whether a socket has been idle    *)
(* for longer than socket_timeout.                                         *)
(***************************************************************************)
EXTENDS Integers, Sequences, FiniteSets, Lists

CONSTANTS
  Listener,       \* the channel of the listening socket
  Connections,    \* channels of the connections that may come
  NoChannel,
  RemovesAtOnce,  \* whether callbacks remove their channel (proxy) or release it (server)
  DescriptorsReused, \* whether a descriptor that was closed is a file's once it is read
  MaxData,        \* bound: reads that a connection has data for
  MaxSignals      \* bound: termination signals

ASSUME LoopAssumption ==
  /\ Listener \notin Connections
  /\ NoChannel \notin Connections \cup {Listener}
  /\ RemovesAtOnce \in BOOLEAN /\ DescriptorsReused \in BOOLEAN
  /\ MaxData \in Nat /\ MaxSignals \in Nat

Channels == Connections \cup {Listener}

VARIABLES
  chan,       \* chan[ch]: the Channel structure, and whether it is allocated
  channels,   \* the linked list, newest first
  fds,        \* fds_channels, as long as `size` says
  revents,    \* revents[i]: what poll reported for fds[i]
  fds_dirty,  \* fds is to be rebuilt
  stopping, force_stop,
  pc,         \* where eventloop_run is
  i,          \* its position in fds
  current,    \* its local variable ch
  sock,       \* sock[ch]: descriptor, unread data, and what the peer did
  idle,       \* connections without data for longer than socket_timeout
  signals,    \* signals received
  wild        \* a freed channel has been used: what follows is undefined

loop == <<fds_dirty, stopping, force_stop>>
vars == <<chan, channels, fds, revents, loop, pc, i, current, sock, idle, signals, wild>>

Unused ==
  [memory |-> "unused", is_active |-> 0, is_removable |-> 0, is_shutting_down |-> 0]

NoSocket == [fd |-> "none", data |-> 0, peer |-> "none"]

(* channel_new.                                                            *)
NewChannel == [Unused EXCEPT !.memory = "live", !.is_active = 1]

(* eventloop_on_in_fd: a channel in front of the list.                     *)
OnInFd(c, ch) == [c EXCEPT ![ch] = NewChannel]

(* socket_in_new: an address of the machine is bound and listened on.      *)
Listening == [NoSocket EXCEPT !.fd = "listening"]

(* A connection with n reads of data.                                      *)
Accepted(n) == [fd |-> "open", data |-> n, peer |-> "open"]

(* eventloop_init and socket_server_new: the listening socket is           *)
(* registered before eventloop_run starts.                                 *)
Init ==
  /\ chan = OnInFd([ch \in Channels |-> Unused], Listener)
  /\ channels = <<Listener>>
  /\ fds = << >>
  /\ revents = << >>
  /\ fds_dirty = 1
  /\ stopping = 0
  /\ force_stop = 0
  /\ pc = "test"
  /\ i = 1
  /\ current = NoChannel
  /\ sock = [ch \in Channels |-> IF ch = Listener THEN Listening ELSE NoSocket]
  /\ idle = {}
  /\ signals = 0
  /\ wild = FALSE

-----------------------------------------------------------------------------
(* Operations on channels, as functions of the loop's data structures.     *)

Active(ch) == chan[ch].is_active = 1

(* update_fds.                                                             *)
ActiveChannels(list, c) == Kept(list, {ch \in Channels : c[ch].is_active = 1})

(* eventloop_socket_activate(ch, 0).                                       *)
Deactivated(c, ch) == [c EXCEPT ![ch].is_active = 0]

(* eventloop_socket_release.                                               *)
Released(c, ch) == [c EXCEPT ![ch].is_active = 0, ![ch].is_removable = 1]

(* Mutant of Dirty: releasing an active channel leaves the arrays alone.   *)
DirtyNever(c, ch) == fds_dirty

(* The arrays are to be rebuilt when a channel changes its activity.       *)
Dirty(c, ch) == IF c[ch].is_active = 1 THEN 1 ELSE fds_dirty

(* eventloop_socket_remove: unlink the channel and free it.                *)
Freed(c, ch) == [c EXCEPT ![ch].is_active = 0, ![ch].memory = "freed"]
Unlinked(ch) == Kept(channels, Channels \ {ch})

(* Mutant of ReleaseChannel: the channel is removed at once.               *)
ReleaseAtOnce(ch) ==
  /\ chan' = Freed(chan, ch)
  /\ fds_dirty' = Dirty(chan, ch)
  /\ channels' = Unlinked(ch)

ReleaseChannel(ch) ==
  /\ chan' = Released(chan, ch)
  /\ fds_dirty' = Dirty(chan, ch)
  /\ UNCHANGED channels

RemoveChannel(ch) ==
  /\ chan' = Freed(chan, ch)
  /\ fds_dirty' = Dirty(chan, ch)
  /\ channels' = Unlinked(ch)

DeactivateChannel(ch) ==
  /\ chan' = Deactivated(chan, ch)
  /\ fds_dirty' = Dirty(chan, ch)
  /\ UNCHANGED channels

(* socket_close.                                                           *)
ClosedSocket(ch) == [sock EXCEPT ![ch] = [NoSocket EXCEPT !.fd = "closed"]]

-----------------------------------------------------------------------------
(* Callbacks of the users.                                                 *)

(* The handler takes leave of its connection: client_handler_free in the   *)
(* server, status_callback and client_callback in the proxy.               *)
Dispose(ch) ==
  /\ sock' = ClosedSocket(ch)
  /\ IF RemovesAtOnce THEN RemoveChannel(ch) ELSE ReleaseChannel(ch)

(* do_read_callback: the handler goes on, or disconnects after a protocol  *)
(* error.  A released channel is not called back.  n reads remain.         *)
ReadCallback(ch, n) ==
  \/ /\ sock' = [sock EXCEPT ![ch].data = n]
     /\ UNCHANGED <<chan, channels, fds_dirty>>
  \/ /\ chan[ch].is_removable = 0
     /\ Dispose(ch)

(* do_status_callback with SOCKET_CONN_CLOSED or SOCKET_IDLE.  The proxy   *)
(* ignores SOCKET_IDLE.                                                    *)
StatusCallback(ch, status) ==
  IF chan[ch].is_removable = 1 \/ (RemovesAtOnce /\ status = "SOCKET_IDLE")
    THEN UNCHANGED <<chan, channels, fds_dirty, sock>>
    ELSE Dispose(ch)

(* on_client_connect: accept a connection and register it (on_connect,     *)
(* client_handler_new).                                                    *)
Accept ==
  \/ \E new \in Connections :
       /\ chan[new].memory = "unused"
       /\ chan' = OnInFd(chan, new)
       /\ channels' = <<new>> \o channels
       /\ fds_dirty' = 1
       /\ \E n \in 0..MaxData : sock' = [sock EXCEPT ![new] = Accepted(n)]
  \/ UNCHANGED <<chan, channels, fds_dirty, sock>>

-----------------------------------------------------------------------------
(* eventloop_run.                                                          *)

At(label) == pc = label /\ ~wild

(* Mutant of Test: the loop goes on while there are channels in the list.  *)
TestChannels ==
  /\ At("test")
  /\ pc' = IF stopping = 0 \/ channels # << >> THEN "update" ELSE "returned"
  /\ UNCHANGED <<chan, channels, fds, revents, loop, i, current, sock, idle, signals, wild>>

(* The condition of the loop.                                              *)
Test ==
  /\ At("test")
  /\ pc' = IF stopping = 0 \/ (fds # << >> /\ force_stop = 0) THEN "update" ELSE "returned"
  /\ UNCHANGED <<chan, channels, fds, revents, loop, i, current, sock, idle, signals, wild>>

Update ==
  /\ At("update")
  /\ IF fds_dirty = 1
       THEN /\ fds' = ActiveChannels(channels, chan)
            /\ fds_dirty' = 0
            /\ pc' = IF fds' = << >> THEN "test" ELSE "poll"
       ELSE /\ pc' = "poll"
            /\ UNCHANGED <<fds, fds_dirty>>
  /\ UNCHANGED <<chan, channels, revents, stopping, force_stop, i, current, sock, idle,
                 signals, wild>>

(* What poll may report for a channel.                                     *)
Events(ch) ==
  CASE sock[ch].fd = "closed" -> {"POLLNVAL"}
    [] sock[ch].fd = "listening" -> {"none", "POLLIN"}
    [] sock[ch].peer = "reset" -> {"POLLERR"}
    [] sock[ch].peer = "closed" -> {"POLLIN", "POLLHUP"}
    [] sock[ch].data > 0 -> {"POLLIN"}
    [] OTHER -> {"none"}

Poll ==
  /\ At("poll")
  /\ \E reported \in [1..Len(fds) -> UNION {Events(ch) : ch \in Channels}] :
       /\ \A k \in 1..Len(fds) : reported[k] \in Events(fds[k])
       /\ \E k \in 1..Len(fds) : reported[k] # "none"
       /\ revents' = reported
  /\ pc' = "walk"
  /\ i' = 1
  /\ UNCHANGED <<chan, channels, fds, loop, current, sock, idle, signals, wild>>

Fetch ==
  /\ At("walk")
  /\ IF i <= Len(fds)
       THEN current' = fds[i] /\ pc' = "dispatch" /\ UNCHANGED i
       ELSE current' = NoChannel /\ pc' = "remove" /\ i' = 1
  /\ UNCHANGED <<chan, channels, fds, revents, loop, sock, idle, signals, wild>>

Handling(event) ==
  /\ At("dispatch")
  /\ revents[i] = event
  /\ UNCHANGED <<fds, revents, stopping, force_stop, i, current, signals, wild>>

(* POLLERR: what is still to be read is read before the error, and thrown  *)
(* away; then the channel is deactivated.  status_callback does nothing    *)
(* about SOCKET_UNKNOWN.                                                   *)
Error ==
  /\ Handling("POLLERR")
  /\ \/ /\ sock[current].data > 0
        /\ sock' = [sock EXCEPT ![current].data = @ - 1]
        /\ UNCHANGED <<chan, channels, fds_dirty>>
     \/ /\ sock[current].data = 0
        /\ DeactivateChannel(current)
        /\ UNCHANGED sock
  /\ pc' = "idle"
  /\ UNCHANGED idle

HangUp ==
  /\ Handling("POLLHUP")
  /\ DeactivateChannel(current)
  /\ pc' = "drain"
  /\ UNCHANGED <<sock, idle>>

(* One round of the loop that reads the last data, and the status callback *)
(* once there is none left.                                                *)
Drain ==
  /\ At("drain")
  /\ IF chan[current].memory = "freed"
       THEN wild' = TRUE /\ UNCHANGED <<chan, channels, fds_dirty, sock, pc>>
       ELSE /\ UNCHANGED wild
            /\ \/ /\ sock[current].data > 0
                  /\ ReadCallback(current, sock[current].data - 1)
                  /\ UNCHANGED pc
               \/ /\ sock[current].data = 0
                  /\ StatusCallback(current, "SOCKET_CONN_CLOSED")
                  /\ pc' = "idle"
  /\ UNCHANGED <<fds, revents, stopping, force_stop, i, current, idle, signals>>

(* POLLIN on a connection: data, the end of the connection, or an error.   *)
(* The error of a reset that came after poll is only logged; having been   *)
(* reported once, it leaves a closed connection.  A descriptor that a      *)
(* signal has closed meanwhile is only logged too, but is removed at once  *)
(* where it has become a file's (ENOTSOCK).                                *)
Readable ==
  /\ Handling("POLLIN")
  /\ current # Listener
  /\ \/ /\ sock[current].data > 0
        /\ ReadCallback(current, sock[current].data - 1)
     \/ /\ sock[current].data = 0
        /\ sock[current].fd = "open"
        /\ sock[current].peer # "reset"
        /\ StatusCallback(current, "SOCKET_CONN_CLOSED")
     \/ /\ sock[current].data = 0
        /\ sock[current].peer = "reset"
        /\ sock' = [sock EXCEPT ![current].peer = "closed"]
        /\ UNCHANGED <<chan, channels, fds_dirty>>
     \/ /\ sock[current].fd = "closed"
        /\ IF DescriptorsReused
             THEN RemoveChannel(current)
             ELSE UNCHANGED <<chan, channels, fds_dirty>>
        /\ UNCHANGED sock
  /\ idle' = idle \ {current}
  /\ pc' = "idle"

(* POLLIN on the listening socket.  do_monitor_callback does not ask       *)
(* whether the channel has been released: on_client_connect dereferences   *)
(* the handle, which eventloop_socket_release has set to NULL.             *)
Acceptable ==
  /\ Handling("POLLIN")
  /\ current = Listener
  /\ \/ chan[current].is_removable = 0 /\ Accept /\ pc' = "idle"
     \/ /\ chan[current].is_removable = 1
        /\ pc' = "crashed"
        /\ UNCHANGED <<chan, channels, fds_dirty, sock>>
  /\ UNCHANGED idle

(* No event.  A channel that is shutting down is released; only            *)
(* eventloop_stop, which nobody calls but eventloop_terminate, would shut  *)
(* one down.                                                               *)
Quiet ==
  /\ Handling("none")
  /\ IF chan[current].is_shutting_down = 1
       THEN ReleaseChannel(current)
       ELSE UNCHANGED <<chan, channels, fds_dirty>>
  /\ pc' = "idle"
  /\ UNCHANGED <<sock, idle>>

(* POLLNVAL: the handlers do nothing about SOCKET_DROPPED.                 *)
Invalid ==
  /\ Handling("POLLNVAL")
  /\ DeactivateChannel(current)
  /\ pc' = "idle"
  /\ UNCHANGED <<sock, idle>>

(* The test of last_activity that ends the round.                          *)
Idle ==
  /\ At("idle")
  /\ wild' = (chan[current].memory = "freed")
  /\ IF current \in idle /\ ~wild'
       THEN StatusCallback(current, "SOCKET_IDLE")
       ELSE UNCHANGED <<chan, channels, fds_dirty, sock>>
  /\ pc' = "walk"
  /\ i' = i + 1
  /\ current' = NoChannel
  /\ UNCHANGED <<fds, revents, stopping, force_stop, idle, signals>>

(* Mutant of Removable: channels are removed when the loop ends.           *)
RemovableAtEnd(k) == k <= Len(fds) /\ stopping = 1

Removable(k) == k <= Len(fds)

Remove ==
  /\ At("remove")
  /\ IF Removable(i)
       THEN /\ wild' = (chan[fds[i]].memory = "freed")
            /\ IF chan[fds[i]].is_removable = 1 /\ ~wild'
                 THEN RemoveChannel(fds[i])
                 ELSE UNCHANGED <<chan, channels, fds_dirty>>
            /\ i' = i + 1
            /\ UNCHANGED pc
       ELSE /\ pc' = "test"
            /\ i' = 1
            /\ UNCHANGED <<chan, channels, fds_dirty, wild>>
  /\ UNCHANGED <<fds, revents, stopping, force_stop, current, sock, idle, signals>>

-----------------------------------------------------------------------------
(* Signals and peers.                                                      *)

InList == {channels[k] : k \in 1..Len(channels)}

(* terminate_fds with force_stop: release every channel and close those    *)
(* that are not listening, then rebuild the arrays.                        *)
Terminated(c) ==
  [ch \in Channels |->
     IF ch \in InList THEN [c[ch] EXCEPT !.is_active = 0, !.is_removable = 1] ELSE c[ch]]

(* sighandler and eventloop_terminate.  A signal that comes while poll     *)
(* waits interrupts it; one that comes before the call does not.  One that *)
(* comes within update_fds leaves there the channels already copied.       *)
Signal ==
  /\ ~wild
  /\ pc \notin {"returned", "crashed"}
  /\ signals < MaxSignals
  /\ signals' = signals + 1
  /\ force_stop' = 1
  /\ stopping' = 1
  /\ chan' = Terminated(chan)
  /\ sock' = [ch \in Channels |->
                IF ch \in InList /\ Active(ch) /\ ch # Listener
                  THEN [NoSocket EXCEPT !.fd = "closed"] ELSE sock[ch]]
  /\ fds_dirty' = 0
  /\ \/ fds' = << >> /\ UNCHANGED pc
     \/ pc = "poll" /\ fds' = << >> /\ pc' = "test"
     \/ /\ pc = "update" /\ fds_dirty = 1
        /\ \E n \in 1..Len(ActiveChannels(channels, chan)) :
             fds' = SubSeq(ActiveChannels(channels, chan), 1, n)
        /\ pc' = "poll"
  /\ UNCHANGED <<channels, revents, i, current, idle, wild>>

PeerCloses(ch) ==
  /\ ~wild
  /\ sock[ch].peer = "open"
  /\ \E end \in {"closed", "reset"} : sock' = [sock EXCEPT ![ch].peer = end]
  /\ UNCHANGED <<chan, channels, fds, revents, loop, pc, i, current, idle, signals, wild>>

(* socket_timeout goes by without data.                                    *)
TimePasses(ch) ==
  /\ At("poll")
  /\ chan[ch].memory = "live"
  /\ sock[ch].data = 0
  /\ idle' = idle \cup {ch}
  /\ UNCHANGED <<chan, channels, fds, revents, loop, pc, i, current, sock, signals, wild>>

Run ==
  \/ Test \/ Update \/ Poll \/ Fetch \/ Error \/ HangUp \/ Drain \/ Readable \/ Acceptable
  \/ Quiet \/ Invalid \/ Idle \/ Remove

Next ==
  \/ Run
  \/ Signal
  \/ \E ch \in Connections : PeerCloses(ch) \/ TimePasses(ch)

Spec == Init /\ [][Next]_vars

(* The thread of the loop is scheduled.                                    *)
FairSpec == Spec /\ WF_vars(Run)

-----------------------------------------------------------------------------
(* Properties.                                                             *)

(* Every variable has its type, and the loop has a current channel from    *)
(* fetching it to the end of its round.                                    *)
TypeOK ==
  /\ chan \in [Channels ->
       [memory : {"unused", "live", "freed"}, is_active : {0, 1}, is_removable : {0, 1},
        is_shutting_down : {0, 1}]]
  /\ channels \in Seq(Channels) /\ fds \in Seq(Channels)
  /\ sock \in [Channels ->
       [fd : {"none", "listening", "open", "closed"}, data : 0..MaxData,
        peer : {"none", "open", "closed", "reset"}]]
  /\ fds_dirty \in {0, 1} /\ stopping \in {0, 1} /\ force_stop \in {0, 1}
  /\ pc \in {"test", "update", "poll", "walk", "dispatch", "drain", "idle", "remove",
              "returned", "crashed"}
  /\ i \in Nat \ {0}
  /\ current \in Channels \cup {NoChannel}
  /\ (current # NoChannel) = (pc \in {"dispatch", "drain", "idle", "crashed"})
  /\ idle \subseteq Connections /\ wild \in BOOLEAN
  /\ signals \in 0..MaxSignals

(* While callbacks register and release channels and signals terminate the *)
(* loop, eventloop_run never looks at a channel that has been freed: the   *)
(* pointers that fds_channels keeps until the next update_fds are not      *)
(* followed.                                                               *)
NoFreedChannelUsed == ~wild

(* Until the loop is stopped it polls each active channel once and nothing *)
(* else, whatever was registered, released or reported in the last round:  *)
(* no change of the list is missed by fds_dirty.                           *)
PollsTheActive ==
  pc = "poll" /\ stopping = 0 =>
    /\ {fds[k] : k \in 1..Len(fds)} = {ch \in Channels : chan[ch].memory = "live" /\ Active(ch)}
    /\ Len(fds) = Cardinality({fds[k] : k \in 1..Len(fds)})

(* The channel of a connection that its peer closes is freed in the end,   *)
(* unless the loop is stopped: the handler is told, releases it, and the   *)
(* loop removes it.  So is that of a reset that a read reports, not of one *)
(* that poll reports: there the handler does nothing.                      *)
ClosedPeerIsFreed ==
  \A ch \in Connections :
    sock[ch].peer = "closed" ~> chan[ch].memory = "freed" \/ stopping = 1

(* A loop that is stopped ends, unless the signal comes between its test   *)
(* of `stopping` and its call of poll: then poll waits for ever, on no     *)
(* descriptor at all, or only for the next connection.                     *)
StoppedLoopEnds ==
  stopping = 1 /\ pc \notin {"update", "poll"} ~> pc \in {"returned", "crashed"}

(* The comment of eventloop_terminate: "Terminate the eventloop".          *)
TerminateEnds == stopping = 1 ~> pc \in {"returned", "crashed"}

(* The comment of eventloop_socket_release: after this function is called  *)
(* on a socket, the eventloop will no longer generate callbacks for it.    *)
NoCallbackOnceReleased == pc # "crashed"
=============================================================================
