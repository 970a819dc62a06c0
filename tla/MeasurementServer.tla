--------------------------- MODULE MeasurementServer ---------------------------
(***************************************************************************)
(* oml2-server with its SQLite backend: the handler of each connection     *)
(* (server/client_handler.c), the databases that handlers share            *)
(* (server/database.c), their transactions, sender identifiers and         *)
(* metadata (server/sqlite_adapter.c, server/database_adapter.c), and the  *)
(* event loop as its callbacks see it (lib/ocomm/eventloop.c).             *)
(*                                                                         *)
(* The event loop runs one callback at a time, to completion; a signal may *)
(* come between any two steps.  A callback reads part of what the socket   *)
(* holds and processes what the handler has buffered message by message.   *)
(*                                                                         *)
(* Data abstraction.  A client's session is the sequence of the messages   *)
(* it sends on one connection; a message is a tuple, its kind first:       *)
(*   <<"domain", d>>, <<"start-time", t>>, <<"sender-id", s>>,             *)
(*   <<"content", state>>: header lines with these keys;                   *)
(*   <<"schema", i, name, fields>>: stream i is named and typed;           *)
(*   <<"key">>: protocol and app-name, which leave no trace;               *)
(*   <<"note">>: a key the server does not know;                           *)
(*   <<"bad">>: a header line with an unacceptable value;                  *)
(*   <<"end">>: the empty line after the headers;                          *)
(*   <<"row", i, n>>: a measurement of stream i with n values;             *)
(*   <<"meta", line>>: a row of stream 0 that carries a header line;       *)
(*   <<"garbage">>: a line without separators, or a binary packet of an    *)
(*   unsupported type.                                                     *)
(* Messages are received whole.  The name of a table is a sequence: the    *)
(* name that a client gave, and the number added to tell its schema from   *)
(* others.  The fields of a schema are the sequence of their types.        *)
(***************************************************************************)
EXTENDS Integers, Sequences, FiniteSets

CONSTANTS
  Clients,           \* clients, one connection each at a time
  Domains,           \* databases
  Script,            \* Script[s]: the messages of session s
  MAX_TABLE_RENAME,  \* attempts at naming a table, 10
  MetaTable,         \* the table of stream 0, _experiment_metadata
  MetaFields,        \* its fields
  WideFields,        \* fields whose description exceeds a statement of sq3_set_key_value
  NoClient, NoSession, NoDatabase, NoTable,
  BackendMayFail,    \* whether opening, creating tables and committing may fail
  MayReset,          \* whether connections are reset and sockets idle
  MayCrash,          \* whether the server crashes
  MaxConnections,    \* bound: connections of each client
  MaxRestarts        \* bound: restarts of the server

ASSUME ServerAssumption ==
  /\ IsFiniteSet(Clients)
  /\ NoClient \notin Clients
  /\ NoDatabase \notin Domains
  /\ NoSession \notin DOMAIN Script
  /\ MAX_TABLE_RENAME \in Nat /\ MAX_TABLE_RENAME >= 2
  /\ BackendMayFail \in BOOLEAN /\ MayReset \in BOOLEAN /\ MayCrash \in BOOLEAN
  /\ MaxConnections \in Nat /\ MaxRestarts \in Nat

(* A row of stream 0 carries a header line.                                *)
HeaderLine(m) == IF m[1] = "meta" THEN m[2] ELSE m

(* The values that process_meta and process_schema can read; others are    *)
(* "bad".                                                                  *)
WellFormed(line) ==
  /\ line[1] = "domain" => line[2] \in Domains
  /\ line[1] = "start-time" => line[2] \in Int
  /\ line[1] = "content" => line[2] \in {"C_TEXT_DATA", "C_BINARY_DATA"}
  /\ line[1] = "schema" => line[2] \in Nat

Messages == UNION {{Script[s][p] : p \in DOMAIN Script[s]} : s \in DOMAIN Script}

ASSUME ScriptAssumption ==
  /\ \A s \in DOMAIN Script : Script[s] \in Seq(Messages)
  /\ \A m \in Messages : WellFormed(HeaderLine(m))

VARIABLES
  server,       \* "up", "stopping" once terminated, "down"
  phase,        \* what eventloop_run is doing
  current,      \* the handler whose channel it is dealing with
  link,         \* link[c]: the connection as the kernel sees it
  sock,         \* sock[c]: messages sent and not yet read
  session,      \* session[c]: the session of the connection
  connections,  \* connections[c]: how often c has connected
  handler,      \* handler[c]: the ClientHandler of the connection
  db,           \* db[d]: the Database structure, if ref_count > 0
  work,         \* work[d]: the content as the open transaction sees it
  stored,       \* stored[d]: the content as committed
  restarts      \* restarts of the server

net == <<link, sock, session, connections>>
storage == <<db, work, stored>>
vars == <<server, phase, current, net, handler, storage, restarts>>

-----------------------------------------------------------------------------
(* Structures.  received counts the messages that mbuf has ever held.      *)

Put(f, x, y) == [z \in DOMAIN f \cup {x} |-> IF z = x THEN y ELSE f[z]]

NoHandler ==
  [state |-> "none", content |-> "C_TEXT_DATA", mbuf |-> << >>, received |-> 0,
   database |-> NoDatabase, sender_id |-> 0, time_offset |-> 0, tables |-> << >>,
   is_active |-> 0]

NewHandler == [NoHandler EXCEPT !.state = "C_HEADER", !.is_active = 1]

Closed ==
  [ref_count |-> 0, start_time |-> 0, first_table |-> << >>, sender_cnt |-> 0,
   overdue |-> 0]

(* metadata holds the names of the tables whose schema is recorded.        *)
Empty ==
  [tables |-> << >>, metadata |-> {}, senders |-> << >>, start_time |-> 0, rows |-> {}]

Init ==
  /\ server = "up"
  /\ phase = "poll"
  /\ current = NoClient
  /\ link = [c \in Clients |-> "none"]
  /\ sock = [c \in Clients |-> << >>]
  /\ session = [c \in Clients |-> NoSession]
  /\ connections = [c \in Clients |-> 0]
  /\ handler = [c \in Clients |-> NoHandler]
  /\ db = [d \in Domains |-> Closed]
  /\ work = [d \in Domains |-> Empty]
  /\ stored = [d \in Domains |-> Empty]
  /\ restarts = 0

-----------------------------------------------------------------------------
(* Databases.                                                              *)

(* sq3_get_table_list and database_init: tables without a schema in the    *)
(* metadata are ignored.                                                   *)
LoadTables(s) == [n \in DOMAIN s.tables \cap s.metadata |-> s.tables[n]]

(* database_init and dba_table_create_meta: the default tables.            *)
WithMetaTable(s) ==
  IF MetaTable \in DOMAIN s.tables THEN s
  ELSE [s EXCEPT !.tables = Put(@, MetaTable, MetaFields), !.metadata = @ \cup {MetaTable}]

(* database_find: one more client, or open the database.                   *)
FindDatabase(d) ==
  /\ IF db[d].ref_count > 0
       THEN /\ db' = [db EXCEPT ![d].ref_count = @ + 1]
            /\ UNCHANGED work
       ELSE LET s == WithMetaTable(stored[d]) IN
            /\ work' = [work EXCEPT ![d] = s]
            /\ db' = [db EXCEPT ![d] =
                 [Closed EXCEPT !.ref_count = 1, !.start_time = s.start_time,
                                !.first_table = LoadTables(s)]]
  /\ UNCHANGED stored

(* sq3_release: the transaction is ended and the connection closed.        *)
Close(d) ==
  /\ db' = [db EXCEPT ![d] = Closed]
  /\ stored' = [stored EXCEPT ![d] = work[d]]
  /\ UNCHANGED work

(* Mutant of LastClient: the database goes with any of its clients.        *)
AnyClient(d) == TRUE

LastClient(d) == db[d].ref_count = 1

(* database_release.                                                       *)
Release(d) ==
  IF d = NoDatabase THEN UNCHANGED storage
  ELSE IF LastClient(d) THEN Close(d)
  ELSE /\ db' = [db EXCEPT ![d].ref_count = @ - 1]
       /\ UNCHANGED <<work, stored>>

(* Mutant of NextSenderId: the identifiers in the database are forgotten.  *)
CountedSenderId(d) == db[d].sender_cnt + 1

(* sq3_add_sender_id: the largest identifier is read once per opening.     *)
NextSenderId(d) ==
  LET ids == {work[d].senders[s] : s \in DOMAIN work[d].senders} IN
  1 + IF db[d].sender_cnt > 0 THEN db[d].sender_cnt
      ELSE CHOOSE i \in ids \cup {0} : \A j \in ids : j <= i

(* The name of the i-th attempt at finding a table.                        *)
Renamed(name, i) == IF i = 1 THEN name ELSE Append(name, i)

(* The names that tables can be given for the schemas of clients.          *)
TableNames ==
  {Renamed(HeaderLine(m)[3], i) :
     m \in {n \in Messages : HeaderLine(n)[1] = "schema"}, i \in 1..(MAX_TABLE_RENAME - 1)}

ASSUME TableAssumption == NoTable \notin Domains \X TableNames

(* Mutant of Fits: any table of that name will do.                         *)
FitsByName(known, name, fields) == TRUE

(* schema_diff finds no difference, or there is no table of that name.     *)
Fits(known, name, fields) == name \in DOMAIN known => known[name] = fields

(* database_find_or_create_table: the attempts that the loop makes.        *)
Attempts(d, name, fields) ==
  {i \in 1..(MAX_TABLE_RENAME - 1) : Fits(db[d].first_table, Renamed(name, i), fields)}

(* dba_table_create_from_schema: the table is created, and its schema      *)
(* recorded unless the statement that does it is too long.                 *)
WithTable(s, name, fields) ==
  [s EXCEPT !.tables = Put(@, name, fields),
            !.metadata = IF fields \in WideFields THEN @ ELSE @ \cup {name}]

-----------------------------------------------------------------------------
(* The steps of a callback.  h is the handler with the message consumed.   *)

(* The messages of its session that the handler has processed, and the     *)
(* position of the one that is being processed.                            *)
Done(c) == handler[c].received - Len(handler[c].mbuf)
Position(c) == Done(c) + 1

Becomes(c, h) == handler' = [handler EXCEPT ![c] = h]

Fails(c, h) == Becomes(c, [h EXCEPT !.state = "C_PROTOCOL_ERROR"]) /\ UNCHANGED storage

MetaDomain(c, h, d) ==
  \/ /\ Becomes(c, [h EXCEPT !.database = d])
     /\ FindDatabase(d)
  \/ /\ BackendMayFail
     /\ db[d].ref_count = 0
     /\ Fails(c, [h EXCEPT !.database = NoDatabase])

(* Mutant of MetaStartTime: every client sets the base.                    *)
MetaOwnStartTime(c, h, t) ==
  IF h.database = NoDatabase THEN Fails(c, h)
  ELSE LET d == h.database IN
    /\ db' = [db EXCEPT ![d].start_time = t]
    /\ work' = [work EXCEPT ![d].start_time = t]
    /\ UNCHANGED stored
    /\ Becomes(c, [h EXCEPT !.time_offset = t - db'[d].start_time])

(* The first client's start-time is the base of the timestamps.  It holds  *)
(* even if it could not be recorded.                                       *)
MetaStartTime(c, h, t) ==
  IF h.database = NoDatabase THEN Fails(c, h)
  ELSE LET d == h.database IN
    /\ IF db[d].start_time = 0
         THEN /\ db' = [db EXCEPT ![d].start_time = t]
              /\ \/ work' = [work EXCEPT ![d].start_time = t]
                 \/ BackendMayFail /\ UNCHANGED work
              /\ UNCHANGED stored
         ELSE UNCHANGED storage
    /\ Becomes(c, [h EXCEPT !.time_offset = t - db'[d].start_time])

MetaSenderId(c, h, s) ==
  IF h.database = NoDatabase THEN Fails(c, h)
  ELSE LET d == h.database IN
    IF s \in DOMAIN work[d].senders
      THEN /\ Becomes(c, [h EXCEPT !.sender_id = work[d].senders[s]])
           /\ UNCHANGED storage
      ELSE /\ Becomes(c, [h EXCEPT !.sender_id = NextSenderId(d)])
           /\ db' = [db EXCEPT ![d].sender_cnt = NextSenderId(d)]
           /\ \/ work' = [work EXCEPT ![d].senders = Put(@, s, NextSenderId(d))]
              \/ BackendMayFail /\ UNCHANGED work
           /\ UNCHANGED stored

(* client_realloc_tables, then tables[i] = <<d, name>>.                    *)
WithStream(h, i, table) ==
  [h EXCEPT !.tables =
     [j \in DOMAIN @ \cup 0..i |->
        IF j = i THEN table ELSE IF j \in DOMAIN @ THEN @[j] ELSE NoTable]]

(* process_schema.                                                         *)
ProcessSchema(c, h, i, name, fields) ==
  LET d == h.database IN
  IF d = NoDatabase \/ Attempts(d, name, fields) = {} THEN Fails(c, h)
  ELSE LET first == CHOOSE k \in Attempts(d, name, fields) :
                      \A l \in Attempts(d, name, fields) : k <= l
           actual == Renamed(name, first)
       IN
       IF actual \in DOMAIN db[d].first_table
         THEN Becomes(c, WithStream(h, i, <<d, actual>>)) /\ UNCHANGED storage
         ELSE \/ /\ actual \notin DOMAIN work[d].tables
                 /\ Becomes(c, WithStream(h, i, <<d, actual>>))
                 /\ db' = [db EXCEPT ![d].first_table = Put(@, actual, fields)]
                 /\ work' = [work EXCEPT ![d] = WithTable(@, actual, fields)]
                 /\ UNCHANGED stored
              \/ /\ BackendMayFail \/ actual \in DOMAIN work[d].tables
                 /\ Fails(c, h)

(* process_meta but for unknown keys: a header line, or a row of stream 0  *)
(* once the headers are over.                                              *)
ProcessMeta(c, h, line) ==
  \/ /\ line[1] = "schema"
     /\ ProcessSchema(c, h, line[2], line[3], line[4])
  \/ /\ line[1] \notin {"schema", "note"}
     /\ h.state # "C_HEADER"
     /\ Becomes(c, h)
     /\ UNCHANGED storage
  \/ /\ h.state = "C_HEADER"
     /\ \/ line[1] = "domain" /\ MetaDomain(c, h, line[2])
        \/ line[1] = "start-time" /\ MetaStartTime(c, h, line[2])
        \/ line[1] = "sender-id" /\ MetaSenderId(c, h, line[2])
        \/ /\ line[1] = "content"
           /\ Becomes(c, [h EXCEPT !.content = line[2]])
           /\ UNCHANGED storage
        \/ line[1] = "key" /\ Becomes(c, h) /\ UNCHANGED storage
        \/ line[1] = "bad" /\ Fails(c, h)

(* Mutant of Committed: the transaction holds the last row alone.          *)
CommittedAlone(d, row) == [stored[d] EXCEPT !.rows = @ \cup {row}]

(* The content that ending the transaction leaves.                         *)
Committed(d, row) == work[d]

(* sq3_insert: a transaction older than a second is committed first; if    *)
(* that, or the insertion, fails the row is lost: nobody looks at the      *)
(* result.                                                                 *)
Insert(c, h, table) ==
  LET d == h.database
      row == [client |-> <<c, connections[c]>>, session |-> session[c],
              at |-> Position(c), table |-> table[2], sender_id |-> h.sender_id,
              time_offset |-> h.time_offset]
  IN
  /\ Becomes(c, h)
  /\ \/ BackendMayFail /\ UNCHANGED storage
     \/ /\ db' = [db EXCEPT ![d].overdue = 0]
        /\ stored' = IF db[d].overdue = 1 THEN [stored EXCEPT ![d] = Committed(d, row)] ELSE stored
        /\ \/ work' = [work EXCEPT ![table[1]].rows = @ \cup {row}]
           \/ BackendMayFail /\ UNCHANGED work

(* process_text_data_message and process_bin_data_message up to the        *)
(* insertion: the stream must be known and the number of values right.     *)
ProcessRow(c, h, i, width) ==
  IF i \notin DOMAIN h.tables THEN Becomes(c, h) /\ UNCHANGED storage
  ELSE LET table == h.tables[i] IN
    IF table = NoTable THEN Becomes(c, h) /\ UNCHANGED storage
    ELSE IF Len(db[table[1]].first_table[table[2]]) # width
      THEN Becomes(c, h) /\ UNCHANGED storage
      ELSE Insert(c, h, table)

(* A row of stream 0: the handler looks its table up if need be.           *)
ProcessMetaRow(c, h, line) ==
  IF 0 \notin DOMAIN h.tables THEN Becomes(c, h) /\ UNCHANGED storage
  ELSE LET table == IF h.tables[0] = NoTable THEN <<h.database, MetaTable>> ELSE h.tables[0]
           h0 == WithStream(h, 0, table)
       IN
       IF line[1] = "note" THEN Insert(c, h0, table) ELSE ProcessMeta(c, h0, line)

-----------------------------------------------------------------------------
(* client_callback.                                                        *)

InCallback(c) == phase \in {"read", "last"} /\ current = c

Message(c) == Head(handler[c].mbuf)

Consumed(c) == [handler[c] EXCEPT !.mbuf = Tail(@)]

(* The callback returns; after the last bytes of a connection the loop     *)
(* tries to read more.                                                     *)
Returns ==
  IF phase = "read" THEN phase' = "poll" /\ current' = NoClient
  ELSE phase' = "drain" /\ UNCHANGED current

(* process_header.                                                         *)
ProcessHeader(c) ==
  /\ InCallback(c)
  /\ handler[c].state = "C_HEADER"
  /\ handler[c].mbuf # << >>
  /\ LET m == Message(c)
         h == Consumed(c)
     IN
     \/ m[1] = "end" /\ Becomes(c, [h EXCEPT !.state = h.content]) /\ UNCHANGED storage
     \/ m[1] \in {"garbage", "row", "meta"} /\ Fails(c, handler[c])
     \/ m[1] = "note" /\ Becomes(c, h) /\ UNCHANGED storage
     \/ m[1] \notin {"end", "garbage", "note", "row", "meta"} /\ ProcessMeta(c, h, m)
  /\ UNCHANGED <<server, phase, current, net, restarts>>

(* process_text_message and process_bin_message.                           *)
ProcessMessage(c) ==
  /\ InCallback(c)
  /\ handler[c].state \in {"C_TEXT_DATA", "C_BINARY_DATA"}
  /\ handler[c].mbuf # << >>
  /\ LET m == Message(c)
         h == Consumed(c)
     IN
     \/ m[1] = "row" /\ ProcessRow(c, h, m[2], m[3])
     \/ m[1] = "meta" /\ ProcessMetaRow(c, h, m[2])
  /\ UNCHANGED <<server, phase, current, net, restarts>>

(* A message that is not a measurement ends the callback, and those that   *)
(* follow it in the buffer wait for the next one.                          *)
SkipGarbage(c) ==
  /\ InCallback(c)
  /\ handler[c].state \in {"C_TEXT_DATA", "C_BINARY_DATA"}
  /\ handler[c].mbuf # << >>
  /\ Message(c)[1] \notin {"row", "meta"}
  /\ Becomes(c, Consumed(c))
  /\ Returns
  /\ UNCHANGED <<server, net, storage, restarts>>

(* client_handler_free: the channel is released, so that the loop calls    *)
(* back no more, and the socket closed.                                    *)
FreeHandler(c) ==
  /\ Release(handler[c].database)
  /\ handler' = [handler EXCEPT ![c] = NoHandler]
  /\ link' = [link EXCEPT ![c] = "none"]
  /\ sock' = [sock EXCEPT ![c] = << >>]
  /\ session' = [session EXCEPT ![c] = NoSession]
  /\ UNCHANGED connections

(* The case C_PROTOCOL_ERROR of client_callback.                           *)
Disconnect(c) ==
  /\ InCallback(c)
  /\ handler[c].state = "C_PROTOCOL_ERROR"
  /\ FreeHandler(c)
  /\ Returns
  /\ UNCHANGED <<server, restarts>>

CallbackDone(c) ==
  /\ InCallback(c)
  /\ handler[c].state # "C_PROTOCOL_ERROR"
  /\ handler[c].mbuf = << >>
  /\ Returns
  /\ UNCHANGED <<server, net, handler, storage, restarts>>

-----------------------------------------------------------------------------
(* eventloop_run.                                                          *)

Polls(c) == server = "up" /\ phase = "poll" /\ handler[c].is_active = 1

(* on_client_connect, on_connect and client_handler_new.                   *)
Connect(c) ==
  /\ server = "up"
  /\ phase = "poll"
  /\ link[c] = "none"
  /\ connections[c] < MaxConnections
  /\ link' = [link EXCEPT ![c] = "open"]
  /\ \E s \in DOMAIN Script :
       /\ sock' = [sock EXCEPT ![c] = Script[s]]
       /\ session' = [session EXCEPT ![c] = s]
  /\ connections' = [connections EXCEPT ![c] = @ + 1]
  /\ handler' = [handler EXCEPT ![c] = NewHandler]
  /\ UNCHANGED <<server, phase, current, storage, restarts>>

(* recv returns the first n messages that the socket holds.                *)
Receive(c, n) ==
  /\ n \in 1..Len(sock[c])
  /\ handler' = [handler EXCEPT ![c].mbuf = @ \o SubSeq(sock[c], 1, n),
                                ![c].received = @ + n]
  /\ sock' = [sock EXCEPT ![c] = SubSeq(@, n + 1, Len(@))]
  /\ UNCHANGED <<server, link, session, connections, storage, restarts>>

(* POLLIN with data.                                                       *)
Read(c, n) ==
  /\ Polls(c)
  /\ link[c] # "reset"
  /\ Receive(c, n)
  /\ phase' = "read"
  /\ current' = c

(* POLLIN without data: the client has closed the connection.              *)
EndOfFile(c) ==
  /\ Polls(c)
  /\ link[c] = "closed"
  /\ sock[c] = << >>
  /\ FreeHandler(c)
  /\ UNCHANGED <<server, phase, current, restarts>>

(* POLLHUP: what the socket still holds is read first.                     *)
HangUp(c) ==
  /\ Polls(c)
  /\ link[c] = "closed"
  /\ handler' = [handler EXCEPT ![c].is_active = 0]
  /\ phase' = "drain"
  /\ current' = c
  /\ UNCHANGED <<server, net, storage, restarts>>

ReadLast(c, n) ==
  /\ phase = "drain"
  /\ current = c
  /\ server = "up"
  /\ Receive(c, n)
  /\ phase' = "last"
  /\ UNCHANGED current

(* Mutant of Drained: the status callback comes at once.                   *)
NotDrained(c) == TRUE

Drained(c) == sock[c] = << >>

(* Mutant of DrainEnd: the status callback does not come.                  *)
DrainEndSilently(c) ==
  /\ phase = "drain"
  /\ current = c
  /\ phase' = "poll"
  /\ current' = NoClient
  /\ UNCHANGED <<server, net, handler, storage, restarts>>

(* The status callback with SOCKET_CONN_CLOSED, unless the channel has     *)
(* been released meanwhile, by a protocol error or by a signal.            *)
DrainEnd(c) ==
  /\ phase = "drain"
  /\ current = c
  /\ \/ server = "up" /\ link[c] # "none" /\ Drained(c) /\ FreeHandler(c)
     \/ (server # "up" \/ link[c] = "none") /\ UNCHANGED <<net, handler, storage>>
  /\ phase' = "poll"
  /\ current' = NoClient
  /\ UNCHANGED <<server, restarts>>

(* POLLERR: the channel is deactivated, and status_callback does nothing   *)
(* about SOCKET_UNKNOWN.                                                   *)
Error(c) ==
  /\ Polls(c)
  /\ link[c] = "reset"
  /\ handler' = [handler EXCEPT ![c].is_active = 0]
  /\ UNCHANGED <<server, phase, current, net, storage, restarts>>

(* The socket has been idle for too long.                                  *)
Idle(c) ==
  /\ Polls(c)
  /\ MayReset
  /\ link[c] = "open"
  /\ FreeHandler(c)
  /\ UNCHANGED <<server, phase, current, restarts>>

-----------------------------------------------------------------------------
(* The world around.                                                       *)

(* The client has sent everything and closes the connection.               *)
ClientCloses(c) ==
  /\ link[c] = "open"
  /\ link' = [link EXCEPT ![c] = "closed"]
  /\ UNCHANGED <<server, phase, current, sock, session, connections, handler, storage,
                 restarts>>

(* The connection is reset, and what had not been read is lost.            *)
Reset(c) ==
  /\ MayReset
  /\ link[c] \in {"open", "closed"}
  /\ link' = [link EXCEPT ![c] = "reset"]
  /\ sock' = [sock EXCEPT ![c] = << >>]
  /\ UNCHANGED <<server, phase, current, session, connections, handler, storage, restarts>>

(* A second passes since the last commit.                                  *)
SecondPasses(d) ==
  /\ db[d].ref_count > 0
  /\ db[d].overdue = 0
  /\ db' = [db EXCEPT ![d].overdue = 1]
  /\ UNCHANGED <<server, phase, current, net, handler, work, stored, restarts>>

(* sighandler: eventloop_terminate releases and closes every channel.      *)
Terminate ==
  /\ server = "up"
  /\ server' = "stopping"
  /\ handler' = [c \in Clients |-> [handler[c] EXCEPT !.is_active = 0]]
  /\ UNCHANGED <<phase, current, net, storage, restarts>>

(* What is left when the process ends: what was committed.                 *)
Vanish ==
  /\ server' = "down"
  /\ phase' = "poll"
  /\ current' = NoClient
  /\ link' = [c \in Clients |-> "none"]
  /\ sock' = [c \in Clients |-> << >>]
  /\ session' = [c \in Clients |-> NoSession]
  /\ handler' = [c \in Clients |-> NoHandler]
  /\ db' = [d \in Domains |-> Closed]
  /\ work' = stored
  /\ UNCHANGED <<connections, stored, restarts>>

(* eventloop_run returns, and so does main.                                *)
Exit ==
  /\ server = "stopping"
  /\ phase = "poll"
  /\ Vanish

Crash ==
  /\ MayCrash
  /\ server # "down"
  /\ Vanish

Restart ==
  /\ server = "down"
  /\ restarts < MaxRestarts
  /\ restarts' = restarts + 1
  /\ server' = "up"
  /\ UNCHANGED <<phase, current, net, handler, storage>>

Callback(c) ==
  \/ ProcessHeader(c) \/ ProcessMessage(c) \/ SkipGarbage(c)
  \/ Disconnect(c) \/ CallbackDone(c)

EventLoop(c) ==
  \/ \E n \in 1..Len(sock[c]) : Read(c, n) \/ ReadLast(c, n)
  \/ EndOfFile(c) \/ HangUp(c) \/ DrainEnd(c) \/ Error(c)

Next ==
  \/ \E c \in Clients :
       \/ Callback(c) \/ EventLoop(c) \/ Connect(c) \/ Idle(c)
       \/ ClientCloses(c) \/ Reset(c)
  \/ \E d \in Domains : SecondPasses(d)
  \/ Terminate \/ Exit \/ Crash \/ Restart

Spec == Init /\ [][Next]_vars

(* A callback runs to its end.  Each round of the loop deals with every    *)
(* channel that has something to report, whatever the others do, but only  *)
(* between callbacks.  Once stopped, eventloop_run returns.                *)
FairSpec ==
  /\ Spec
  /\ \A c \in Clients : WF_vars(Callback(c)) /\ SF_vars(EventLoop(c))
  /\ WF_vars(Exit)

-----------------------------------------------------------------------------
(* What the sessions say.                                                  *)

Positions(s, key) == {p \in DOMAIN Script[s] : Script[s][p][1] = key}

(* What the client library sends: each header once and the schema of a     *)
(* stream, nothing that the server does not understand, the empty line,    *)
(* and measurements.  Nobody starts at the time 0.                         *)
Proper ==
  {s \in DOMAIN Script :
     /\ \A key \in {"domain", "start-time", "sender-id"} :
          \E p \in DOMAIN Script[s] : Positions(s, key) = {p}
     /\ \A p \in Positions(s, "start-time") : Script[s][p][2] # 0
     /\ \E e \in Positions(s, "end") :
          /\ \E p \in 1..(e - 1) : Script[s][p][1] = "schema"
          /\ \A p \in 1..(e - 1) : Script[s][p][1] \in
               {"domain", "start-time", "sender-id", "content", "key", "schema"}
          /\ \A p \in DOMAIN Script[s] : p > e => Script[s][p][1] \in {"row", "meta"}}

HeaderValue(key) ==
  [s \in Proper |-> Script[s][CHOOSE p \in Positions(s, key) : TRUE][2]]

Domain == HeaderValue("domain")
StartTime == HeaderValue("start-time")
Sender == HeaderValue("sender-id")

(* Where the schema of stream i that is in force at p is declared.         *)
Declarations(s, p, i) ==
  {q \in 1..(p - 1) : LET line == HeaderLine(Script[s][q]) IN
                      line[1] = "schema" /\ line[2] = i}

Schema(s, p, i) ==
  LET last == CHOOSE q \in Declarations(s, p, i) : \A r \in Declarations(s, p, i) : r <= q
      line == HeaderLine(Script[s][last])
  IN [name |-> line[3], fields |-> line[4]]

(* The measurements of a session that agree with their schema, and that    *)
(* schema.                                                                 *)
Samples ==
  [s \in DOMAIN Script |->
     {p \in Positions(s, "row") :
        /\ Declarations(s, p, Script[s][p][2]) # {}
        /\ Len(Schema(s, p, Script[s][p][2]).fields) = Script[s][p][3]}]

SampleSchema ==
  [s \in DOMAIN Script |-> [p \in Samples[s] |-> Schema(s, p, Script[s][p][2])]]

SchemaOf(r) == SampleSchema[r.session][r.at]

ProperRows(rows) == {r \in rows : r.session \in Proper}

Measurements(rows) == {r \in ProperRows(rows) : r.at \in Samples[r.session]}

-----------------------------------------------------------------------------
(* Properties.                                                             *)

(* Every variable has its type, the loop is in a callback only of a        *)
(* handler that exists, and the messages that are buffered are those of    *)
(* the session that follow what has been processed.                        *)
TypeOK ==
  /\ server \in {"up", "stopping", "down"}
  /\ phase \in {"poll", "read", "drain", "last"}
  /\ current \in Clients \cup {NoClient}
  /\ (phase = "poll") = (current = NoClient)
  /\ link \in [Clients -> {"none", "open", "closed", "reset"}]
  /\ sock \in [Clients -> Seq(Messages)]
  /\ session \in [Clients -> DOMAIN Script \cup {NoSession}]
  /\ connections \in [Clients -> 0..MaxConnections]
  /\ DOMAIN handler = Clients
  /\ \A c \in Clients :
       /\ DOMAIN handler[c] = DOMAIN NoHandler
       /\ handler[c].state \in
            {"none", "C_HEADER", "C_TEXT_DATA", "C_BINARY_DATA", "C_PROTOCOL_ERROR"}
       /\ handler[c].content \in {"C_TEXT_DATA", "C_BINARY_DATA"}
       /\ handler[c].mbuf \in Seq(Messages) /\ handler[c].received \in Nat
       /\ handler[c].database \in Domains \cup {NoDatabase}
       /\ handler[c].is_active \in {0, 1}
       /\ (handler[c].state = "none") = (link[c] = "none")
       /\ (handler[c].state = "none") = (session[c] = NoSession)
       /\ handler[c].state = "none" => handler[c] = NoHandler /\ sock[c] = << >>
       /\ current = c /\ phase \in {"read", "last"} => handler[c].state # "none"
       /\ handler[c].state # "none" =>
            /\ Len(handler[c].mbuf) <= handler[c].received
            /\ handler[c].received + Len(sock[c]) <= Len(Script[session[c]])
            /\ \A k \in 1..Len(handler[c].mbuf) :
                 handler[c].mbuf[k] = Script[session[c]][Done(c) + k]
            /\ \A k \in 1..Len(sock[c]) :
                 sock[c][k] = Script[session[c]][handler[c].received + k]
  /\ DOMAIN db = Domains /\ DOMAIN work = Domains /\ DOMAIN stored = Domains
  /\ \A d \in Domains :
       /\ DOMAIN db[d] = DOMAIN Closed
       /\ DOMAIN work[d] = DOMAIN Empty /\ DOMAIN stored[d] = DOMAIN Empty
       /\ db[d].ref_count \in Int /\ db[d].overdue \in {0, 1}
       /\ \A r \in work[d].rows \cup stored[d].rows :
            /\ r.client \in Clients \X (0..MaxConnections)
            /\ r.session \in DOMAIN Script /\ r.at \in DOMAIN Script[r.session]
  /\ restarts \in 0..MaxRestarts

(* However clients of a database come and go, the database and the tables  *)
(* that a handler points to have not been freed: database_release and      *)
(* client_handler_free.                                                    *)
HandlersPointToLiveData ==
  \A c \in Clients :
    /\ handler[c].database # NoDatabase => db[handler[c].database].ref_count > 0
    /\ \A i \in DOMAIN handler[c].tables :
         LET table == handler[c].tables[i] IN
         table # NoTable => /\ db[table[1]].ref_count > 0
                            /\ table[2] \in DOMAIN db[table[1]].first_table

(* A measurement is in a table that has the fields of its schema and a     *)
(* name made from its name, whatever other clients, now or before a        *)
(* restart, use the name for; and all measurements of that schema are in   *)
(* that one: database_find_or_create_table.                                *)
RowsInTheirTable ==
  \A d \in Domains : \A r \in Measurements(work[d].rows) :
    /\ r.table \in DOMAIN work[d].tables
    /\ work[d].tables[r.table] = SchemaOf(r).fields
    /\ \E i \in 1..(MAX_TABLE_RENAME - 1) : r.table = Renamed(SchemaOf(r).name, i)
    /\ \A q \in Measurements(work[d].rows) : SchemaOf(q) = SchemaOf(r) => q.table = r.table

(* The sender identifier of a row tells who sent it: within a database, no *)
(* two senders share one and none has two, across crashes and reopenings.  *)
SenderIdsIdentify ==
  \A d \in Domains : \A q, r \in ProperRows(work[d].rows) :
    (q.sender_id = r.sender_id)
      = (Sender[q.session] = Sender[r.session])

(* All timestamps of a database are relative to one date, the one it has   *)
(* recorded, whichever client came first and however often the server was  *)
(* restarted (the page timestamps in client_handler.c).                    *)
OneTimeBase ==
  \A d \in Domains : \A r \in ProperRows(work[d].rows) :
    StartTime[r.session] - r.time_offset = work[d].start_time

(* What is committed of a connection is an initial part of what it sent:   *)
(* a crash loses the last measurements, never one in between.              *)
CommittedIsPrefix ==
  \A d \in Domains : \A r \in ProperRows(stored[d].rows) :
    \A p \in Samples[r.session] :
      p < r.at => \E q \in stored[d].rows : q.client = r.client /\ q.at = p

(* When a client that closed its connection is taken leave of, each of its *)
(* measurements has been inserted, and committed if it was the last client *)
(* of the database.                                                        *)
ClosingLosesNothing ==
  [][\A c \in Clients :
       /\ link[c] = "closed" /\ link'[c] = "none" /\ server' = "up"
       /\ session[c] \in Proper
       => LET d == Domain[session[c]]
              kept == IF db'[d].ref_count = 0 THEN stored'[d].rows ELSE work'[d].rows
          IN \A p \in Samples[session[c]] :
               \E r \in kept : r.client = <<c, connections[c]>> /\ r.at = p]_vars

(* A connection that its client closes is taken leave of eventually.       *)
ClosedIsFreed == \A c \in Clients : link[c] = "closed" ~> link[c] # "closed"

(* The manual page: on SIGINT and SIGTERM the server terminates            *)
(* gracefully, emptying the buffers and closing client connections.  So    *)
(* the rows that have been inserted are committed when it exits.           *)
ExitCommits ==
  [][server = "stopping" /\ server' = "down"
     => \A d \in Domains : work[d].rows \subseteq stored'[d].rows]_vars

(* The comment of db_adapter_release: it is called when the last active    *)
(* client leaves.  So a database that no client is connected to is         *)
(* released eventually.                                                    *)
LastClientCloses ==
  \A d \in Domains :
    (\A c \in Clients : link[c] \in {"none", "reset"})
      ~> (db[d].ref_count = 0 \/ \E c \in Clients : link[c] \in {"open", "closed"})
=============================================================================
