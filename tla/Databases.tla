------------------------------ MODULE Databases -------------------------------
(***************************************************************************)
(* The databases of oml2-server (server/database.c) on each of its         *)
(* backends: SQLite, PostgreSQL (SqlAdapter) and the triple store of       *)
(* server/fuseki_adapter.c; the event hook (server/hook.c); and the        *)
(* clients that share them, as server/client_handler.c calls them.         *)
(*                                                                         *)
(* The server deals with one line or packet of a client at a time.  A      *)
(* client sends its headers in the order of liboml2: domain, start time,   *)
(* sender, schemas; then rows and, as metadata, further schemas.           *)
(*                                                                         *)
(* A table of an open database is [schema, handle, template]; its handle   *)
(* is "none", "ready", or "freed" once table_create has failed.  Tables    *)
(* are in the order of their registration and found from the last; one     *)
(* that is unlinked becomes Unlinked.  The triple store is reached through *)
(* globals of fuseki_adapter.c that all clients share.                     *)
(***************************************************************************)
EXTENDS SqlAdapter

CONSTANTS
  Clients, Domains, Backends,
  StreamsOf,          \* StreamsOf[b][c]: the schemas that client c may declare on backend b
  SenderOf,           \* SenderOf[c]: its sender-id
  StartOf,            \* StartOf[c]: its start-time
  MAX_TABLE_RENAME,   \* attempts at naming a table, 10
  NoDomain,
  StatementsLeft,     \* bound: statements that a dying link still carries
  MaxRows,            \* bound: rows of each client on each backend
  MaxVisits,          \* bound: connections of each client
  MaxFaults           \* bound: crashes, dead links and hooks of a run, on each backend

(* What schema_from_meta can give: fields of types that oml_value knows.   *)
IsSchema(s) ==
  /\ DOMAIN s = {"name", "fields"}
  /\ s.fields \in Seq(Range(s.fields))
  /\ \A i \in DOMAIN s.fields : /\ DOMAIN s.fields[i] = {"name", "type", "concepts"}
                               /\ s.fields[i].type \in OmlTypes

ASSUME DatabasesAssumption ==
  /\ IsFiniteSet(Clients)
  /\ \A b \in Backends : \A c \in Clients : \A s \in StreamsOf[b][c] : IsSchema(s)
  /\ NoDomain \notin Domains
  /\ StatementsLeft \subseteq Nat
  /\ MAX_TABLE_RENAME \in Nat /\ MAX_TABLE_RENAME >= 2
  /\ Backends \subseteq {"sqlite", "postgresql", "fuseki"}

VARIABLES
  backend,   \* that the server was started with
  server,    \* "up" or "down"
  hook,      \* "off", "on", or "dead" with its pipe still open
  told,      \* told[d]: the last event about d, and the rows stored then
  db,        \* db[d]: [ref_count, start_time, tables] while it is open
  conn,      \* conn[d]: its connection; what it holds outlives the server
  client,    \* client[c]: the handler of c
  sem,       \* the globals of fuseki_adapter.c
  graph,     \* the triple store: services, measurements
  taken,     \* taken[d]: the rows that insert took since d was opened
  failed,    \* failed[d]: whether a statement failed since then
  faults, visits

vars == <<backend, server, hook, told, db, conn, client, sem, graph, taken, failed, faults, visits>>

(* What the runs count and the code does not have.                         *)
ghosts == <<taken, failed>>

Closed == [ref_count |-> 0, start_time |-> 0, tables |-> <<>>]
Gone == [phase |-> "gone", domain |-> NoDomain, sender |-> 0, streams |-> <<>>]
NoSender == "nobody"
NoGlobals == [sid |-> NoSender, sender_uri |-> NoSender, domain_uri |-> NoDomain, starttime |-> 0]
NoTemplate == [sender |-> NoSender, domain |-> NoDomain, service |-> FALSE, starttime |-> 0]

IsOpen(d) == db[d].ref_count > 0
Semantic == backend = "fuseki"

-----------------------------------------------------------------------------
(* A table in the list, and the newest of a name.                          *)
Table(schema, handle) == [schema |-> SchemaCopy(schema), handle |-> handle, template |-> NoTemplate]

Unlinked == [schema |-> NoSchema, handle |-> "unlinked", template |-> NoTemplate]

Linked(tables) == {i \in DOMAIN tables : tables[i] # Unlinked}

FindTable(tables, name) ==
  LET same == {i \in Linked(tables) : tables[i].schema.name = name} IN
  IF same = {} THEN 0 ELSE Greatest(same)

(* The name that a new stream gets: its own, or with the first number that *)
(* is free or has the same schema.                                         *)
Attempts == 1..(MAX_TABLE_RENAME - 1)

NameOf(schema, i) == IF i = 1 THEN schema.name ELSE Append(schema.name, i)

(* Mutant of Takes: a table with other columns is taken.                   *)
TakesLonger(tables, schema, i) ==
  LET t == FindTable(tables, NameOf(schema, i)) IN
  t = 0 \/ SchemaDiff([schema EXCEPT !.name = NameOf(schema, i)], tables[t].schema) >= 0

Takes(tables, schema, i) ==
  LET t == FindTable(tables, NameOf(schema, i)) IN
  t = 0 \/ SchemaDiff([schema EXCEPT !.name = NameOf(schema, i)], tables[t].schema) = 0

Renamed(tables, schema) ==
  LET fitting == {i \in Attempts : Takes(tables, schema, i)} IN
  IF fitting = {}
  THEN NoSchema
  ELSE [schema EXCEPT !.name = NameOf(schema, CHOOSE i \in fitting : \A j \in fitting : i <= j)]

-----------------------------------------------------------------------------
(* Events.  A hook that is gone costs the server a SIGPIPE.                *)
Event(command, d) == [command |-> command, rows |-> conn'[d].disk.rows]

(* The server dies: what was not committed is lost, handlers are gone.     *)
Dies ==
  /\ server' = "down" /\ hook' = "off"
  /\ db' = [d \in Domains |-> Closed]
  /\ conn' = [d \in Domains |-> Fresh(conn[d].disk)]
  /\ client' = [c \in Clients |-> Gone]
  /\ sem' = NoGlobals

HookSendEvent(command, d) ==
  told' = [told EXCEPT ![d] = Event(IF hook = "on" THEN command ELSE "none", d)]

-----------------------------------------------------------------------------
(* database_init: the tables that the backend lists, then the two of its   *)
(* own that are missing.                                                   *)
Known(c) ==
  LET names == SetToSeq(TableList(backend, c.view) \ {Senders}) IN
  [i \in DOMAIN names |-> ListedSchema(c.view, names[i])]

Register(o, schema) ==
  LET r == Prepare(backend, Start(o.c), schema.name) IN
  [o EXCEPT !.c = r.c, !.tables = Append(@, Table(schema, IF r.ok THEN "ready" ELSE "freed"))]

Registered(c, schemas) ==
  LET after[n \in 0..Len(schemas)] ==
        IF n = 0 THEN [c |-> c, ok |-> TRUE, tables |-> <<>>]
        ELSE Register(after[n - 1], schemas[n])
  IN  after[Len(schemas)]

WithSenders(o, listed) ==
  LET r == CreateSenders(backend, Start(o.c)) IN
  IF Senders \in listed THEN o ELSE [o EXCEPT !.c = r.c, !.ok = r.ok]

CreateMetadata(o) ==
  LET r == CreateFromSchema(backend, o.c, MetadataSchema)
      q == Prepare(backend, r, Metadata)
  IN  IF ~r.ok
      THEN [o EXCEPT !.c = r.c, !.ok = FALSE]
      ELSE [o EXCEPT !.c = Described(backend, q, MetadataSchema).c,
                     !.tables = Append(@, Table(MetadataSchema, "ready"))]

WithMetadata(o, listed) ==
  IF Metadata \in listed \/ ~o.ok THEN o ELSE CreateMetadata(o)

DatabaseInit(c) ==
  LET listed == TableList(backend, c.view) IN
  WithMetadata(WithSenders(Registered(c, Known(c)), listed), listed)

StartTime(view) == IF StartTimeKey \in DOMAIN view.meta THEN view.meta[StartTimeKey] ELSE 0

(* database_find for a database that is not open.                          *)
OpenDatabase(d) ==
  IF Semantic
  THEN [c |-> conn[d], ok |-> TRUE, tables |-> <<>>]
  ELSE DatabaseInit(Open(backend, conn[d].disk))

-----------------------------------------------------------------------------
Enter(c, d) ==
  client' = [client EXCEPT ![c] = [Gone EXCEPT !.phase = "start", !.domain = d]]

FindOpen(c, d) ==
  /\ IsOpen(d)
  /\ db' = [db EXCEPT ![d].ref_count = @ + 1]
  /\ Enter(c, d)
  /\ UNCHANGED <<server, hook, told, conn, sem, ghosts>>

Opened(c, d, o) ==
  /\ db' = [db EXCEPT ![d] = [ref_count |-> 1, start_time |-> StartTime(o.c.view),
                              tables |-> o.tables]]
  /\ conn' = [conn EXCEPT ![d] = o.c]
  /\ HookSendEvent(IF StartTime(o.c.view) = 0 THEN "DBCREATED" ELSE "DBOPENED", d)
  /\ Enter(c, d)
  /\ taken' = [taken EXCEPT ![d] = {}]
  /\ failed' = [failed EXCEPT ![d] = FALSE]
  /\ UNCHANGED <<server, hook, sem>>

(* database_release does not know the database yet: its connection stays,  *)
(* with nothing committed.                                                 *)
NotOpened(d, o) ==
  /\ conn' = [conn EXCEPT ![d] = Fresh(o.c.disk)]
  /\ UNCHANGED <<server, hook, told, db, client, sem, ghosts>>

FindNew(c, d) ==
  /\ ~IsOpen(d)
  /\ \E o \in {OpenDatabase(d)} :
       IF o.ok
       THEN IF hook = "dead" THEN Dies /\ UNCHANGED <<told, ghosts>> ELSE Opened(c, d, o)
       ELSE NotOpened(d, o)

(* The backend does not let the server in: no database, nothing changes.   *)
ProcessDomain(c, d) ==
  /\ server = "up" /\ client[c].phase = "gone" /\ visits[c] < MaxVisits
  /\ visits' = [visits EXCEPT ![c] = @ + 1]
  /\ \/ FindOpen(c, d)
     \/ FindNew(c, d)
     \/ /\ ~IsOpen(d)
        /\ UNCHANGED <<server, hook, told, db, conn, client, sem, ghosts>>
  /\ UNCHANGED <<backend, graph, faults>>

-----------------------------------------------------------------------------
(* What an operation on the connection leaves behind.                      *)
Connect(d, c) ==
  /\ conn' = [conn EXCEPT ![d] = c]
  /\ failed' = [failed EXCEPT ![d] = @ \/ c.txn = "aborted" \/ c.link # -1]

(* The first start time of a database is kept; the semantic backend takes  *)
(* each client's.                                                          *)
ProcessStartTime(c) ==
  LET d == client[c].domain
      takes == db[d].start_time = 0 \/ Semantic
  IN
  /\ server = "up" /\ client[c].phase = "start"
  /\ client' = [client EXCEPT ![c].phase = "sender"]
  /\ db' = IF takes THEN [db EXCEPT ![d].start_time = StartOf[c]] ELSE db
  /\ Connect(d, IF takes /\ ~Semantic
                THEN SetMetadata(backend, conn[d], StartTimeKey, StartOf[c]) ELSE conn[d])
  /\ sem' = IF Semantic THEN [sem EXCEPT !.starttime = StartOf[c]] ELSE sem
  /\ UNCHANGED <<backend, server, hook, told, graph, taken, faults, visits>>

ProcessSqlSender(c, d) ==
  \E r \in {AddSenderId(backend, conn[d], SenderOf[c])} :
    /\ Connect(d, r.c)
    /\ client' = [client EXCEPT ![c].phase = "data", ![c].sender = r.id]
    /\ UNCHANGED sem

(* sem_add_sender_id keeps the name in a global and returns 0.             *)
ProcessSemSender(c) ==
  /\ sem' = [sem EXCEPT !.sid = SenderOf[c]]
  /\ client' = [client EXCEPT ![c].phase = "data"]
  /\ UNCHANGED <<conn, failed>>

ProcessSenderId(c) ==
  /\ server = "up" /\ client[c].phase = "sender"
  /\ IF Semantic THEN ProcessSemSender(c) ELSE ProcessSqlSender(c, client[c].domain)
  /\ UNCHANGED <<backend, server, hook, told, db, graph, taken, faults, visits>>

-----------------------------------------------------------------------------
(* The stream s of c is stored in the table at place t; 0: it is refused,  *)
(* and c is dropped (CloseClient) after what came with it.                 *)
Assign(c, s, t) ==
  client' = [client EXCEPT ![c].streams = Put(@, s, [table |-> t, rows |-> 0])]

(* database_create_table registers the caller's table; table_create has    *)
(* create_from_schema register another one, which is found from now on.    *)
Registration(made, schema) ==
  CASE made = "nothing" -> <<Unlinked>>
    [] made = "inner" -> <<Unlinked, Table(schema, "freed")>>
    [] made = "outer" -> <<Unlinked, Table(schema, "ready")>>
    [] made = "both" -> <<Table(schema, "ready"), Table(schema, "ready")>>

CreateSqlTable(c, d, s, schema) ==
  \E r \in {TableCreate(backend, conn[d], schema)} :
    /\ Connect(d, r.c)
    /\ db' = [db EXCEPT ![d].tables = @ \o Registration(r.made, schema)]
    /\ Assign(c, s, IF r.made = "both" THEN Len(db[d].tables) + 1 ELSE 0)
    /\ UNCHANGED <<server, hook, sem>>

UseSqlTable(c, s, t) ==
  /\ Assign(c, s, t)
  /\ UNCHANGED <<server, hook, db, conn, sem, failed>>

ProcessSqlSchema(c, d, s) ==
  \E schema \in {Renamed(db[d].tables, s)} :
    LET t == FindTable(db[d].tables, schema.name) IN
    CASE schema = NoSchema -> Assign(c, s, 0) /\ UNCHANGED <<server, hook, db, conn, sem, failed>>
      [] schema # NoSchema /\ t = 0 -> CreateSqlTable(c, d, s, schema)
      [] schema # NoSchema /\ t # 0 -> UseSqlTable(c, s, t)

-----------------------------------------------------------------------------
(* The RDF types; sem_table_create refuses a schema as the others do.      *)
RdfTypes ==
  [t \in OmlTypes \cup {"primary key"} |->
     CASE t \in {"primary key", "int64"} -> "xsd:long"
       [] t = "int32" -> "xsd:integer"
       [] t = "uint32" -> "xsd:unsignedInt"
       [] t \in {"uint64", "guid"} -> "xsd:unsignedLong"
       [] t = "double" -> "xsd:double"
       [] t \in {"string", "blob", "vector"} -> "xsd:string"
       [] t = "bool" -> "xsd:boolean"
       [] t = "datetime" -> "xsd:dateTime"]

SemRefuses(c, d, s) ==
  /\ db' = [db EXCEPT ![d].tables = Append(@, Unlinked)]
  /\ Assign(c, s, 0)
  /\ UNCHANGED sem

(* sem_prepare.  The store is asked for the domain's service of this       *)
(* sender; without an answer the URIs of the last stream stay.  If there   *)
(* is none yet, mstring_buf gives NULL, which printf writes as a name of   *)
(* its own: NoSender, NoDomain.                                            *)
HasConcepts(schema) == \E i \in DOMAIN schema.fields : schema.fields[i].concepts # <<>>

Uris(d, reply) ==
  IF reply = "answer" THEN [sem EXCEPT !.sender_uri = sem.sid, !.domain_uri = d] ELSE sem

Template(d, reply) ==
  LET u == Uris(d, reply) IN
  [sender |-> u.sender_uri, domain |-> u.domain_uri,
   service |-> reply = "answer" /\ ~\E v \in graph.services : v.domain = d /\ v.sender = sem.sid,
   starttime |-> sem.starttime]

Templated(schema, d, reply) ==
  IF HasConcepts(schema)
  THEN [Table(schema, "ready") EXCEPT !.template = Template(d, reply)]
  ELSE Table(schema, "ready")

(* Mutant of SemTables: create_from_schema registers nothing.              *)
SemTablesOnce(tables, schema, d, t, reply) ==
  IF t = 0
  THEN Append(tables, Templated(schema, d, reply))
  ELSE [tables EXCEPT ![t] = Templated(schema, d, reply)]

(* The table at place t, or a new one, gets a statement of its own, and    *)
(* create_from_schema registers one more that has none.                    *)
SemTables(tables, schema, d, t, reply) ==
  IF t = 0
  THEN tables \o <<Templated(schema, d, reply), Table(schema, "none")>>
  ELSE Append([tables EXCEPT ![t] = Templated(schema, d, reply)], Table(schema, "none"))

SemTableCreate(c, d, s, schema, reply) ==
  LET t == FindTable(db[d].tables, schema.name) IN
  /\ db' = [db EXCEPT ![d].tables = SemTables(@, schema, d, t, reply)]
  /\ Assign(c, s, IF t = 0 THEN Len(db[d].tables) + 1 ELSE t)
  /\ sem' = IF HasConcepts(schema) THEN Uris(d, reply) ELSE sem

(* When the request fails, an uninitialised status code decides between an *)
(* error and the parsing of nothing, which ends the server.                *)
ProcessSemSchema(c, d, s) ==
  \E schema \in {Renamed(db[d].tables, s)}, reply \in {"answer", "error", "crash"} :
    /\ schema # NoSchema
    /\ ~HasConcepts(schema) => reply = "answer"
    /\ CASE reply = "crash" -> Dies
         [] reply # "crash" /\ ~HasSql(schema, RdfTypes) ->
              SemRefuses(c, d, s) /\ UNCHANGED <<server, hook, conn>>
         [] reply # "crash" /\ HasSql(schema, RdfTypes) ->
              SemTableCreate(c, d, s, schema, reply) /\ UNCHANGED <<server, hook, conn>>
    /\ UNCHANGED failed

ProcessSchema(c, s) ==
  /\ server = "up" /\ client[c].phase = "data"
  /\ s \notin DOMAIN client[c].streams
  /\ IF Semantic
     THEN ProcessSemSchema(c, client[c].domain, s)
     ELSE ProcessSqlSchema(c, client[c].domain, s)
  /\ UNCHANGED <<backend, told, graph, taken, faults, visits>>

-----------------------------------------------------------------------------
Count(c, s) == client' = [client EXCEPT ![c].streams[s].rows = @ + 1]

StreamId(c, s) == [client |-> c, visit |-> visits[c], declared |-> s]

Row(c, s, table) ==
  [table |-> table.schema.name, stream |-> StreamId(c, s),
   seq |-> client[c].streams[s].rows + 1, sender |-> client[c].sender]

InsertSql(c, d, s, table, value) ==
  \E row \in {Row(c, s, table)} : \E r \in {Insert(backend, conn[d], row, value)} :
    /\ Connect(d, r.c)
    /\ taken' = IF r.ok THEN [taken EXCEPT ![d] = @ \cup {row}] ELSE taken
    /\ UNCHANGED graph

(* sem_insert reports success whatever the store answers.  A statement     *)
(* without concepts is empty, and not sent.                                *)
Posted(c, s, template) ==
  [services |-> IF template.service
                THEN graph.services \cup {[domain |-> template.domain, sender |-> template.sender,
                                           starttime |-> template.starttime]}
                ELSE graph.services,
   measurements |-> graph.measurements \cup
     {[stream |-> StreamId(c, s), seq |-> client[c].streams[s].rows + 1,
       sender |-> template.sender, domain |-> template.domain]}]

InsertSem(c, s, table) ==
  /\ \/ table.template # NoTemplate /\ graph' = Posted(c, s, table.template)
     \/ UNCHANGED graph
  /\ UNCHANGED <<conn, failed, taken>>

(* How many rows c has sent, for the bound.                                *)
RowsOf(c) == FoldFunction(LAMBDA stream, n : stream.rows + n, 0, client[c].streams)

ProcessRow(c, s, value) ==
  LET d == client[c].domain IN
  /\ server = "up" /\ s \in DOMAIN client[c].streams
  /\ client[c].streams[s].table # 0 /\ RowsOf(c) < MaxRows[backend][c]
  /\ Count(c, s)
  /\ \E table \in {db[d].tables[client[c].streams[s].table]} :
       IF Semantic THEN InsertSem(c, s, table) ELSE InsertSql(c, d, s, table, value)
  /\ UNCHANGED <<backend, server, hook, told, db, sem, faults, visits>>

-----------------------------------------------------------------------------
(* database_release: the last client closes the connection, which ends the *)
(* transaction, before the hook hears of it.                               *)
ReleaseShared(c, d) ==
  /\ db[d].ref_count > 1
  /\ db' = [db EXCEPT ![d].ref_count = @ - 1]
  /\ client' = [client EXCEPT ![c] = Gone]
  /\ UNCHANGED <<server, hook, told, conn, sem>>

Released(d) == IF Semantic THEN conn[d] ELSE Close(backend, conn[d])

ReleaseLast(c, d) ==
  /\ db[d].ref_count = 1
  /\ IF hook = "dead"
     THEN /\ server' = "down" /\ hook' = "off" /\ sem' = NoGlobals
          /\ db' = [e \in Domains |-> Closed]
          /\ conn' = [e \in Domains |-> IF e = d THEN Released(d) ELSE Fresh(conn[e].disk)]
          /\ client' = [e \in Clients |-> Gone]
     ELSE /\ db' = [db EXCEPT ![d] = Closed]
          /\ conn' = [conn EXCEPT ![d] = Released(d)]
          /\ client' = [client EXCEPT ![c] = Gone]
          /\ UNCHANGED <<server, hook, sem>>
  /\ HookSendEvent("DBCLOSED", d)

CloseClient(c) ==
  /\ server = "up" /\ client[c].phase # "gone"
  /\ ReleaseShared(c, client[c].domain) \/ ReleaseLast(c, client[c].domain)
  /\ UNCHANGED <<backend, graph, ghosts, faults, visits>>

-----------------------------------------------------------------------------
(* A second begins; the next row commits those before it.                  *)
NextSecond(d) ==
  /\ server = "up" /\ ~Semantic /\ IsOpen(d) /\ ~conn[d].due
  /\ conn' = [conn EXCEPT ![d].due = TRUE]
  /\ UNCHANGED <<backend, server, hook, told, db, client, sem, graph, ghosts, faults, visits>>

Fault == faults < MaxFaults[backend] /\ faults' = faults + 1

(* The server is killed, or terminated: nothing closes its databases.      *)
Crash ==
  /\ server = "up" /\ Fault /\ Dies
  /\ UNCHANGED <<backend, told, graph, ghosts, visits>>

(* PostgreSQL goes away after some more statements.                        *)
LinkDies(d) ==
  /\ server = "up" /\ backend = "postgresql" /\ IsOpen(d) /\ conn[d].link = -1 /\ Fault
  /\ \E n \in StatementsLeft : Connect(d, [conn[d] EXCEPT !.link = n])
  /\ UNCHANGED <<backend, server, hook, told, db, client, sem, graph, taken, visits>>

HookDies ==
  /\ hook = "on" /\ Fault
  /\ hook' = "dead"
  /\ UNCHANGED <<backend, server, told, db, conn, client, sem, graph, ghosts, visits>>

(* hook_setup: without a hook or its banner the pipes are closed, but one  *)
(* that has exited counts as in place.                                     *)
StartServer ==
  /\ server = "down"
  /\ server' = "up"
  /\ hook' \in {"off", "on", "dead"}
  /\ UNCHANGED <<backend, told, db, conn, client, sem, graph, ghosts, faults, visits>>

-----------------------------------------------------------------------------
Init ==
  /\ backend \in Backends
  /\ server = "down" /\ hook = "off"
  /\ told = [d \in Domains |-> [command |-> "none", rows |-> {}]]
  /\ db = [d \in Domains |-> Closed]
  /\ conn = [d \in Domains |-> Fresh(Empty)]
  /\ client = [c \in Clients |-> Gone]
  /\ sem = NoGlobals
  /\ graph = [services |-> {}, measurements |-> {}]
  /\ taken = [d \in Domains |-> {}]
  /\ failed = [d \in Domains |-> FALSE]
  /\ faults = 0
  /\ visits = [c \in Clients |-> 0]

Next ==
  \/ \E c \in Clients, d \in Domains : ProcessDomain(c, d)
  \/ \E c \in Clients : ProcessStartTime(c)
  \/ \E c \in Clients : ProcessSenderId(c)
  \/ \E c \in Clients : \E s \in StreamsOf[backend][c] : ProcessSchema(c, s)
  \/ \E c \in Clients : \E s \in StreamsOf[backend][c], value \in {"small", "big"} : ProcessRow(c, s, value)
  \/ \E c \in Clients : CloseClient(c)
  \/ \E d \in Domains : NextSecond(d)
  \/ Crash
  \/ \E d \in Domains : LinkDies(d)
  \/ HookDies
  \/ StartServer

Spec == Init /\ [][Next]_vars

-----------------------------------------------------------------------------
(* A committed row is in a table that exists, and the metadata describe    *)
(* that table: whoever opens the database again finds the schema of every  *)
(* row.  What is stored comes from psql_table_create, dba_table_create_    *)
(* from_schema and the commits of psql_insert, in several transactions     *)
(* that other clients' failures may undo.  Two kinds of rows are excepted, *)
(* which the code does not describe: those of the metadata table itself    *)
(* (schema 0), whose entry can be undone, and those of a schema whose      *)
(* entry is too long for the 512 bytes of sq3_set_key_value.               *)
DescriptionFits(row) ==
  EntryFits(backend, [row.stream.declared EXCEPT !.name = row.table])

RowsAreDescribed ==
  \A d \in Domains : \A row \in conn[d].disk.rows :
    LET disk == conn[d].disk IN
    row.table # Metadata /\ DescriptionFits(row) =>
    /\ row.table \in DOMAIN disk.tables
    /\ Recorded(disk, row.table)
    /\ SchemaToSql(ListedSchema(disk, row.table), OmlToType(backend)).columns
         = disk.tables[row.table]

(* The table that a handler keeps for a stream is in the list, ready for   *)
(* insert, has the fields of the stream and a statement prepared on this   *)
(* connection, unless the connection is breaking down: psql_insert and     *)
(* sem_insert follow table->handle without asking.                         *)
TablesInUseAreReady ==
  \A c \in Clients : \A s \in DOMAIN client[c].streams :
    LET d == client[c].domain
        t == client[c].streams[s].table
    IN
    t # 0 /\ conn[d].link = -1 =>
      /\ db[d].tables[t] # Unlinked
      /\ db[d].tables[t].handle = "ready"
      /\ FirstDifference(db[d].tables[t].schema, s) = 0
      /\ ~Semantic => db[d].tables[t].schema.name \in conn[d].prepared

(* When the hook hears that a database is closed, every row that insert    *)
(* took is stored, unless a statement failed since it was opened; the      *)
(* manual tells hooks to process the data then (doc/oml2-server.1.txt:     *)
(* 257-259).  database_release commits before it sends DBCLOSED.           *)
ClosedMeansStored ==
  \A d \in Domains :
    told[d].command = "DBCLOSED" /\ ~failed[d] => taken[d] \subseteq told[d].rows

(* All measurements of a stream in the triple store name one sender and    *)
(* one domain, though sender-id, URIs and templates are globals or shared  *)
(* tables of fuseki_adapter.c that every other client changes.             *)
StreamsKeepTheirSender ==
  \A m, n \in graph.measurements :
    m.stream = n.stream => m.sender = n.sender /\ m.domain = n.domain
=============================================================================
