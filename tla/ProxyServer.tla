----------------------------- MODULE ProxyServer -----------------------------
(***************************************************************************)
(* The proxy (proxy_server/): one thread runs the event loop, reads the    *)
(* headers and the messages of each client, and takes commands; each       *)
(* client has a thread that sends what is stored to the server downstream, *)
(* on as many connections as that takes.  A client's mutex and condition   *)
(* variable guard its queue of messages; the state of the client and of    *)
(* the session, and the list of clients, are shared without a lock.        *)
(*                                                                         *)
(* Bytes are abstracted to cells: <<u, k>> is cell k of unit u of what a   *)
(* client sends.  The headers are two cells, the header lines and the      *)
(* blank line; a message is MessageLength cells, the first one its first   *)
(* byte, the last one its end.                                             *)
(***************************************************************************)
EXTENDS Integers, Sequences, SequencesExt, FiniteSets, CBuffer

CONSTANTS
  Clients, NoClient,
  Scripts,        \* what the clients may send: sets of scripts, see script
  MessageLength,  \* cells of a message
  MaxCommands,    \* bound: commands
  MaxFailures     \* bound: connections downstream that fail

ASSUME ProxyAssumption ==
  /\ NoClient \notin Clients
  /\ \A s \in Scripts : \A c \in Clients : s[c] \in Seq(STRING)
  /\ MessageLength \in Nat \ {0, 1}
  /\ MaxCommands \in Nat /\ MaxFailures \in Nat

VARIABLES
  script,     \* script[c]: the kinds of the units that c sends.  The first one is the
              \* headers: of a "text" or "binary" stream, or "malformed"; the others are
              \* a "message" or "garbage".  A client without script does not come.
  session,    \* session->state
  clients,    \* session->clients
  next,       \* next[c]
  mem,        \* mem[c]: whether the structure of c is allocated
  state,      \* state[c]: enum ClientState
  headers,    \* headers[c]: the header table of c is filled
  sent,       \* sent[c]: cells that the peer has sent and the proxy has read
  mbuf,       \* mbuf[c]: the cells that wait in client->mbuf
  messages,   \* messages[c]: the queue, of [cursor, unit]
  cbuf,       \* cbuf[c]: the pages
  recv,       \* recv[c]: whether the channel of c is registered
  pc,         \* where the main thread is
  main,       \* the client the main thread is about
  spc,        \* spc[c]: where the sender of c is
  cursor,     \* cursor[c]: local variables of the sender: the position in the head
  length,     \* length[c]: ... and how many of its cells are left
  pred,       \* pred[c]: ... and the predecessor found by session_remove_client
  connected,  \* connected[c]: client->sender_connected
  down,       \* down[c]: what was sent on each connection downstream
  commands, failures,
  fault       \* "none", or what the program has just done that has no meaning

client == <<mem, state, headers, sent, mbuf, recv>>
store == <<messages, cbuf>>
sender == <<spc, cursor, length, pred, connected, down>>
list == <<clients, next>>
bounds == <<commands, failures>>
vars == <<script, session, list, client, store, sender, pc, main, bounds, fault>>

Cells(c, u) ==
  LET n == IF script[c][u] \in {"text", "binary", "malformed"} THEN 2 ELSE MessageLength
  IN  [k \in 1..n |-> <<u, k>>]
Stream(c) == FlattenSeq([u \in 1..Len(script[c]) |-> Cells(c, u)])

(* The sender's local variables when they are not in use.                  *)
NoCursor == [page |-> 0, index |-> 0]

Init ==
  /\ script \in Scripts
  /\ session = "PAUSED"
  /\ clients = NoClient
  /\ next = [c \in Clients |-> NoClient]
  /\ mem = [c \in Clients |-> "unused"]
  /\ state = [c \in Clients |-> "C_HEADER"]
  /\ headers = [c \in Clients |-> FALSE]
  /\ sent = [c \in Clients |-> 0]
  /\ mbuf = [c \in Clients |-> << >>]
  /\ messages = [c \in Clients |-> << >>]
  /\ cbuf = [c \in Clients |-> NewChain]
  /\ recv = [c \in Clients |-> FALSE]
  /\ pc = "poll"
  /\ main = NoClient
  /\ spc = [c \in Clients |-> "none"]
  /\ cursor = [c \in Clients |-> NoCursor]
  /\ length = [c \in Clients |-> 0]
  /\ pred = [c \in Clients |-> NoClient]
  /\ connected = [c \in Clients |-> FALSE]
  /\ down = [c \in Clients |-> << >>]
  /\ commands = 0
  /\ failures = 0
  /\ fault = "none"

(* The sender of c holds the mutex from one step to the next only while it *)
(* takes leave of a connection: it sleeps for a second there.              *)
Held(c) == spc[c] \in {"pausing", "closing", "unlink", "free"}

(* pthread_cond_signal: a signal for which nobody waits is lost.           *)
Signalled(c) == IF spc[c] = "wait" THEN [spc EXCEPT ![c] = "woken"] ELSE spc

Main(label) == fault = "none" /\ pc = label

-----------------------------------------------------------------------------
(* The main thread: connections, data, and their end.                      *)

(* on_connect and the first half of session_add_client.                    *)
OnConnect(c) ==
  /\ Main("poll")
  /\ script[c] # << >>
  /\ mem[c] = "unused"
  /\ mem' = [mem EXCEPT ![c] = "live"]
  /\ next' = [next EXCEPT ![c] = clients]
  /\ main' = c
  /\ pc' = "link"
  /\ UNCHANGED <<script, session, clients, state, headers, sent, mbuf, recv, store, sender,
                 bounds, fault>>

(* The rest of session_add_client and of on_connect.                       *)
Link ==
  /\ Main("link")
  /\ clients' = main
  /\ recv' = [recv EXCEPT ![main] = TRUE]
  /\ spc' = [spc EXCEPT ![main] = "start"]
  /\ main' = NoClient
  /\ pc' = "poll"
  /\ UNCHANGED <<script, session, next, mem, state, headers, sent, mbuf, store, cursor,
                 length, pred, connected, down, bounds, fault>>

Unit(cell) == cell[1]

Content(c) == script[c][1]

(* text_read_msg_start and bin_read_msg_start: -1 is an error, 0 a message *)
(* that is not complete.  A binary message of which there is one byte is   *)
(* an error, as bin_find_sync finds no sync bytes.                         *)
MsgStart(c, buf) ==
  CASE Content(c) = "text" /\ Len(buf) < MessageLength -> 0
    [] Content(c) = "binary" /\ Len(buf) < 2 -> -1
    [] script[c][Unit(Head(buf))] = "garbage" -> -1
    [] Len(buf) < MessageLength -> 0
    [] OTHER -> MessageLength

(* store_received_message.                                                 *)
Stored(c, buf) ==
  /\ ~Held(c)
  /\ messages' = [messages EXCEPT
       ![c] = Append(@, [cursor |-> WriteCursor(cbuf[c]), unit |-> Unit(Head(buf))])]
  /\ cbuf' = [cbuf EXCEPT ![c] = Write(@, SubSeq(buf, 1, MessageLength))]

(* read_header, as often as there are lines, and C_CONFIGURE, which ends   *)
(* in C_DATA even if it has found an error.                                *)
ReadHeaders(c, buf) ==
  /\ headers' = [headers EXCEPT ![c] = @ \/ script[c][1] # "malformed"]
  /\ \/ /\ script[c][1] = "malformed"
        /\ state' = [state EXCEPT ![c] = "C_PROTOCOL_ERROR"]
        /\ mbuf' = [mbuf EXCEPT ![c] = Tail(buf)]
     \/ /\ script[c][1] # "malformed"
        /\ \/ <<1, 2>> \notin Range(buf) /\ UNCHANGED state
           \/ <<1, 2>> \in Range(buf) /\ state' = [state EXCEPT ![c] = "C_DATA"]
        /\ mbuf' = [mbuf EXCEPT ![c] = SelectSeq(buf, LAMBDA cell : Unit(cell) # 1)]

(* C_DATA: one message, though the buffer may hold several.                *)
ReadMessage(c, buf) ==
  \/ /\ MsgStart(c, buf) = -1
     /\ state' = [state EXCEPT ![c] = "C_PROTOCOL_ERROR"]
     /\ mbuf' = [mbuf EXCEPT ![c] = buf]
     /\ UNCHANGED store
  \/ /\ MsgStart(c, buf) = 0
     /\ mbuf' = [mbuf EXCEPT ![c] = buf]
     /\ UNCHANGED <<state, store>>
  \/ /\ MsgStart(c, buf) > 0
     /\ Stored(c, buf)
     /\ mbuf' = [mbuf EXCEPT ![c] = SubSeq(buf, MessageLength + 1, Len(buf))]
     /\ UNCHANGED state

(* client_callback, up to its signal: proxy_message_loop, and the channel  *)
(* that is removed after a protocol error.                                 *)
ClientCallback(c) ==
  /\ Main("poll")
  /\ recv[c]
  /\ \E n \in (sent[c] + 1)..Len(Stream(c)) :
       LET buf == mbuf[c] \o SubSeq(Stream(c), sent[c] + 1, n)
       IN  /\ sent' = [sent EXCEPT ![c] = n]
           /\ \/ state[c] = "C_HEADER" /\ ReadHeaders(c, buf) /\ UNCHANGED store
              \/ state[c] = "C_DATA" /\ ReadMessage(c, buf) /\ UNCHANGED headers
  /\ recv' = [recv EXCEPT ![c] = state'[c] # "C_PROTOCOL_ERROR"]
  /\ main' = c
  /\ pc' = "signal"
  /\ UNCHANGED <<script, session, list, mem, sender, bounds, fault>>

(* The end of client_callback.                                             *)
Signal ==
  /\ Main("signal")
  /\ ~Held(main)
  /\ spc' = Signalled(main)
  /\ main' = NoClient
  /\ pc' = "poll"
  /\ UNCHANGED <<script, session, list, client, store, cursor, length, pred, connected,
                 down, bounds, fault>>

(* status_callback: the client has closed its connection, possibly in the  *)
(* middle of a message.                                                    *)
StatusCallback(c) ==
  /\ Main("poll")
  /\ recv[c]
  /\ ~Held(c)
  /\ recv' = [recv EXCEPT ![c] = FALSE]
  /\ state' = [state EXCEPT ![c] = "C_DISCONNECTED"]
  /\ spc' = Signalled(c)
  /\ UNCHANGED <<script, session, list, mem, headers, sent, mbuf, store, cursor, length,
                 pred, connected, down, pc, main, bounds, fault>>

-----------------------------------------------------------------------------
(* The main thread: commands.                                              *)

(* stdin_handler, up to its walk over the clients.                         *)
StdinHandler ==
  /\ Main("poll")
  /\ commands < MaxCommands
  /\ commands' = commands + 1
  /\ \E command \in {"SENDING", "PAUSED", "STOPPED"} :
       /\ command # session \/ command = "SENDING"
       /\ session' = command
       /\ IF command = "SENDING" /\ clients # NoClient
            THEN pc' = "walk" /\ main' = clients
            ELSE UNCHANGED <<pc, main>>
  /\ UNCHANGED <<script, list, client, store, sender, failures, fault>>

(* Lock, signal and unlock the current client; its structure may be freed. *)
Walk ==
  /\ Main("walk")
  /\ ~Held(main)
  /\ fault' = IF mem[main] = "freed" THEN "wild" ELSE "none"
  /\ spc' = IF mem[main] = "freed" THEN spc ELSE Signalled(main)
  /\ pc' = "advance"
  /\ UNCHANGED <<script, session, list, client, store, cursor, length, pred, connected,
                 down, main, bounds>>

(* current = current->next.                                                *)
Advance ==
  /\ Main("advance")
  /\ fault' = IF mem[main] = "freed" THEN "wild" ELSE "none"
  /\ main' = next[main]
  /\ pc' = IF next[main] = NoClient THEN "poll" ELSE "walk"
  /\ UNCHANGED <<script, session, list, client, store, sender, bounds>>

-----------------------------------------------------------------------------
(* The thread of a client: client_send_thread.                             *)

Sender(c, label) == fault = "none" /\ spc[c] = label

(* Mutant of AfterMessage: one message for each signal.                    *)
AfterMessageWait(c, q, conn) ==
  IF state[c] = "C_DISCONNECTED" /\ q = << >> THEN "closing" ELSE
  IF q # << >> /\ conn /\ spc[c] # "send" THEN "send" ELSE "wait"

(* The loop over the messages, and what follows it: q and conn are the     *)
(* queue and whether the sender is connected by then.                      *)
AfterMessage(c, q, conn) ==
  IF q # << >> /\ conn THEN "send"
  ELSE IF state[c] = "C_DISCONNECTED" /\ q = << >> THEN "closing"
  ELSE "wait"

(* The first pthread_cond_wait.                                            *)
Start(c) ==
  /\ Sender(c, "start")
  /\ spc' = [spc EXCEPT ![c] = "wait"]
  /\ UNCHANGED <<script, session, list, client, store, cursor, length, pred, connected,
                 down, pc, main, bounds, fault>>

(* pthread_cond_wait returns.                                              *)
WakeWhileSending(c) ==
  /\ session = "SENDING"
  /\ spc' = [spc EXCEPT ![c] =
       IF connected[c] THEN AfterMessage(c, messages[c], TRUE)
       ELSE IF state[c] = "C_HEADER" THEN "wait" ELSE "connect"]
  /\ UNCHANGED connected

WakeWhilePaused(c) ==
  /\ session = "PAUSED"
  /\ spc' = [spc EXCEPT ![c] = IF connected[c] THEN "pausing" ELSE "wait"]

WakeWhileStopped(c) ==
  /\ session = "STOPPED"
  /\ spc' = [spc EXCEPT ![c] = "wait"]

Wake(c) ==
  /\ Sender(c, "woken")
  /\ \/ WakeWhileSending(c)
     \/ (WakeWhilePaused(c) \/ WakeWhileStopped(c)) /\ UNCHANGED connected
  /\ UNCHANGED <<script, session, list, client, store, cursor, length, pred, down, pc, main,
                 bounds, fault>>

(* client_sender_connect, until it succeeds or the session is no longer    *)
(* sending.                                                                *)
Connect(c) ==
  /\ Sender(c, "connect")
  /\ \/ /\ session # "SENDING"
        /\ spc' = [spc EXCEPT ![c] = AfterMessage(c, messages[c], FALSE)]
        /\ UNCHANGED <<connected, down, failures>>
     \/ /\ session = "SENDING"
        /\ connected' = [connected EXCEPT ![c] = TRUE]
        /\ down' = [down EXCEPT ![c] = Append(@, << >>)]
        /\ spc' = [spc EXCEPT ![c] = "headers"]
        /\ UNCHANGED failures
     \/ /\ session = "SENDING"
        /\ failures < MaxFailures
        /\ failures' = failures + 1
        /\ UNCHANGED <<spc, connected, down>>
  /\ UNCHANGED <<script, session, list, client, store, cursor, length, pred, pc, main,
                 commands, fault>>

(* What is added to the last connection.                                   *)
SentDown(c, cells) == [down EXCEPT ![c][Len(down[c])] = @ \o cells]

(* client_send_header: when send(2) takes a part of a line, as many bytes  *)
(* as are left are sent from the beginning of the line again, so that its  *)
(* end never comes.                                                        *)
Spoilt == <<1, 0>>

HeaderLines == {<<1, 1>>, Spoilt}

(* client_send_headers: without headers it follows a null pointer.         *)
SendHeaders(c) ==
  /\ Sender(c, "headers")
  /\ \/ /\ ~headers[c]
        /\ fault' = "null"
        /\ UNCHANGED <<spc, connected, down, failures>>
     \/ /\ headers[c]
        /\ \E lines \in HeaderLines : down' = SentDown(c, <<lines, <<1, 2>>>>)
        /\ spc' = [spc EXCEPT ![c] = AfterMessage(c, messages[c], TRUE)]
        /\ UNCHANGED <<connected, failures, fault>>
     \/ /\ headers[c]
        /\ failures < MaxFailures
        /\ failures' = failures + 1
        /\ \/ UNCHANGED down
           \/ \E lines \in HeaderLines : down' = SentDown(c, <<lines>>)
        /\ connected' = [connected EXCEPT ![c] = FALSE]
        /\ spc' = [spc EXCEPT ![c] = "wait"]
        /\ UNCHANGED fault
  /\ UNCHANGED <<script, session, list, client, store, cursor, length, pred, pc, main,
                 commands>>

(* Mutant of Dequeued: the head stays in the queue.                        *)
DequeuedNot(c) == messages[c]

(* msg_queue_remove.                                                       *)
Dequeued(c) == Tail(messages[c])

(* msg_queue_head and the local variables of the loop over its cells.      *)
Position(c) == IF length[c] = 0 THEN Head(messages[c]).cursor ELSE cursor[c]
Left(c) == IF length[c] = 0 THEN MessageLength ELSE length[c]

(* send(2) without the mutex has taken n cells: advance, and at the end of *)
(* the message consume it.                                                 *)
SendCells(c) ==
  /\ Sender(c, "send")
  /\ LET page == PageRemaining(cbuf[c], Position(c), Left(c))
         toWrite == IF Left(c) < page THEN Left(c) ELSE page
     IN  \E n \in (IF toWrite = 0 THEN {0} ELSE 1..toWrite) :
           /\ down' = SentDown(c, CellsAt(cbuf[c], Position(c), n))
           /\ length' = [length EXCEPT ![c] = Left(c) - n]
           /\ \/ /\ n < Left(c)
                 /\ cursor' = [cursor EXCEPT ![c] = Advanced(cbuf[c], Position(c), n)]
                 /\ UNCHANGED <<store, spc>>
              \/ /\ n = Left(c)
                 /\ cursor' = [cursor EXCEPT ![c] = NoCursor]
                 /\ cbuf' = [cbuf EXCEPT
                      ![c] = Consumed(@, Head(messages[c]).cursor, MessageLength)]
                 /\ messages' = [messages EXCEPT ![c] = Dequeued(c)]
                 /\ spc' = [spc EXCEPT ![c] = AfterMessage(c, Dequeued(c), TRUE)]
  /\ UNCHANGED <<script, session, list, client, pred, connected, pc, main, bounds, fault>>

(* Mutant of Rewound: the message is resumed on the next connection.       *)
RewoundNot(c) == length[c]

(* After a failure the head of the queue is sent from its beginning.       *)
Rewound(c) == 0

(* send(2) fails: the sender waits for its next signal.                    *)
SendFails(c) ==
  /\ Sender(c, "send")
  /\ failures < MaxFailures
  /\ failures' = failures + 1
  /\ connected' = [connected EXCEPT ![c] = FALSE]
  /\ spc' = [spc EXCEPT ![c] = AfterMessage(c, messages[c], FALSE)]
  /\ length' = [length EXCEPT ![c] = Rewound(c)]
  /\ UNCHANGED <<script, session, list, client, store, cursor, pred, down, pc, main,
                 commands, fault>>

(* PAUSE: the connection is shut down and closed.                          *)
Pause(c) ==
  /\ Sender(c, "pausing")
  /\ connected' = [connected EXCEPT ![c] = FALSE]
  /\ spc' = [spc EXCEPT ![c] = "wait"]
  /\ UNCHANGED <<script, session, list, client, store, cursor, length, pred, down, pc, main,
                 bounds, fault>>

(* The walk of session_remove_client over the list.                        *)
Predecessors(c) ==
  LET found == {p \in Clients : mem[p] = "live" /\ next[p] = c}
  IN  IF found = {} THEN {NoClient} ELSE found

(* The client has disconnected and its queue is empty: shutdown, sleep,    *)
(* close, and session_remove_client: the head of the list, or the client   *)
(* before c.                                                               *)
SessionRemove(c) ==
  /\ Sender(c, "closing")
  /\ \/ /\ clients = c
        /\ clients' = next[c]
        /\ spc' = [spc EXCEPT ![c] = "free"]
        /\ UNCHANGED pred
     \/ /\ clients # c
        /\ \E p \in Predecessors(c) :
             /\ pred' = [pred EXCEPT ![c] = p]
             /\ spc' = [spc EXCEPT ![c] = IF p = NoClient THEN "free" ELSE "unlink"]
        /\ UNCHANGED clients
  /\ UNCHANGED <<script, session, next, client, store, cursor, length, connected, down, pc,
                 main, bounds, fault>>

(* current->next = current->next->next.                                    *)
Unlink(c) ==
  /\ Sender(c, "unlink")
  /\ fault' = IF mem[pred[c]] = "freed" THEN "wild" ELSE "none"
  /\ next' = [next EXCEPT ![pred[c]] = next[next[pred[c]]]]
  /\ spc' = [spc EXCEPT ![c] = "free"]
  /\ pred' = [pred EXCEPT ![c] = NoClient]
  /\ UNCHANGED <<script, session, clients, client, store, cursor, length, connected, down,
                 pc, main, bounds>>

(* client_free, with the mutex locked, and pthread_exit.                   *)
ClientFree(c) ==
  /\ Sender(c, "free")
  /\ mem' = [mem EXCEPT ![c] = "freed"]
  /\ spc' = [spc EXCEPT ![c] = "exited"]
  /\ UNCHANGED <<script, session, list, state, headers, sent, mbuf, recv, store, cursor,
                 length, pred, connected, down, pc, main, bounds, fault>>

-----------------------------------------------------------------------------
MainThread == Link \/ Signal \/ Walk \/ Advance

SenderThread(c) ==
  \/ Start(c) \/ Wake(c) \/ Connect(c) \/ SendHeaders(c) \/  SendCells(c)
  \/ SendFails(c) \/ Pause(c) \/ SessionRemove(c) \/ Unlink(c) \/ ClientFree(c)

Next ==
  \/ MainThread
  \/ StdinHandler
  \/ \E c \in Clients :
       OnConnect(c) \/ ClientCallback(c) \/ StatusCallback(c) \/ SenderThread(c)

Spec == Init /\ [][Next]_vars

(* The threads are scheduled.  Nothing is assumed of clients and commands. *)
FairSpec ==
  /\ Spec
  /\ WF_vars(MainThread)
  /\ \A c \in Clients : WF_vars(SenderThread(c))

-----------------------------------------------------------------------------
(* Properties.                                                             *)

Messages(c) == SelectSeq([u \in 1..Len(script[c]) |-> u], LAMBDA u : script[c][u] = "message")

Completed(cells) ==
  SelectSeq(cells, LAMBDA cell : cell # Outside /\ cell[1] # 1 /\ cell[2] = MessageLength)

(* The messages that were sent to their end, on any connection of c.       *)
Forwarded(c) == [k \in 1..Len(Completed(FlattenSeq(down[c]))) |->
                   Unit(Completed(FlattenSeq(down[c]))[k])]

Queued(c) == [k \in 1..Len(messages[c]) |-> messages[c][k].unit]

(* Each message stored for the server downstream is sent to its end once,  *)
(* in the order in which the client sent them, however often the           *)
(* connection fails, the session pauses, or the thread of the sender meets *)
(* the one that stores: what was forwarded, followed by what is queued, is *)
(* a beginning of what the client sends.                                   *)
EachMessageOnce == \A c \in Clients : IsPrefix(Forwarded(c) \o Queued(c), Messages(c))

(* A connection downstream begins with the headers and continues with      *)
(* whole messages; only its last unit may be cut short, and the next       *)
(* connection begins that unit anew.  The cells are those that the client  *)
(* has sent: a message that crosses pages is read back as it was stored.   *)
(* Two things the code does not keep: a header line that send(2) took in   *)
(* parts is spoilt, though as long as it should be; and MessageLength and  *)
(* PageSize are such that no message ends where its page ends (Replayed).  *)
WellFormed(c, conn) ==
  \A j \in 1..Len(conn) :
    \/ j = 1 /\ conn[j] \in HeaderLines
    \/ j = 2 /\ conn[j] = <<1, 2>>
    \/ /\ j > 2
       /\ \E u \in Range(Messages(c)) : conn[j] = <<u, 1 + ((j - 3) % MessageLength)>>
       /\ conn[j][2] > 1 => conn[j][1] = conn[j - 1][1]

ConnectionsWellFormed ==
  \A c \in Clients : \A k \in 1..Len(down[c]) : WellFormed(c, down[c][k])

(* A sender that waits while it is connected and the session is sending    *)
(* has nothing to send, unless the main thread is on its way to signal it: *)
(* no signal is lost at the wrong time, although the state of the session  *)
(* is read without a lock.                                                 *)
SignalToCome(c) == pc \in {"walk", "advance"} \/ (pc = "signal" /\ main = c)

NoMessageForgotten ==
  \A c \in Clients :
    fault = "none" /\ spc[c] = "wait" /\ connected[c] /\ session = "SENDING" =>
      messages[c] = << >> \/ SignalToCome(c)

(* A sender that goes on to send empties its queue, unless its connection  *)
(* fails or another thread breaks the program.                             *)
SenderDrains ==
  \A c \in Clients :
    spc[c] = "send" ~> messages[c] = << >> \/ ~connected[c] \/ fault # "none"

(* The manual page: the proxy "sends all buffered measurements to the      *)
(* upstream server".  When the sender has exited, the messages that the    *)
(* proxy had received from its client were forwarded.                      *)
Received(c) ==
  LET cells == Range(SubSeq(Stream(c), 1, sent[c]))
  IN  SelectSeq(Messages(c), LAMBDA u : <<u, MessageLength>> \in cells)

ReceivedIsForwarded ==
  \A c \in Clients : spc[c] = "exited" => Forwarded(c) = Received(c)

(* The manual page: "the client measurement streams are stored in the      *)
(* buffer without translation, and then simply replayed".  Nothing is sent *)
(* that the client has not sent.                                           *)
Replayed ==
  \A c \in Clients : \A conn \in Range(down[c]) : Range(conn) \subseteq Range(Stream(c))

(* The program does not follow the null pointer of a header that has not   *)
(* come.                                                                   *)
NoNullHeader == fault # "null"
=============================================================================
