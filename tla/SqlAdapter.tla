------------------------------ MODULE SqlAdapter ------------------------------
(***************************************************************************)
(* The connection of a database to its SQL backend: PostgreSQL             *)
(* (server/psql_adapter.c), SQLite (server/sqlite_adapter.c) and the       *)
(* transactions that both share (server/database_adapter.c).               *)
(*                                                                         *)
(* A connection is                                                         *)
(*   link        how many statements it will still carry, -1 for ever,     *)
(*   txn         "none", "open", or "aborted" after a statement failed,    *)
(*   disk, view  what is committed, and what this transaction sees,        *)
(*   prepared    the names of its prepared INSERT statements,              *)
(*   due         whether a second has begun since the last commit,         *)
(*   sender_cnt  the last identifier given (SQLite).                       *)
(* Contents are [tables, meta, senders, rows]: columns of each table,      *)
(* schema or start time by key, identifier by sender, and the rows.        *)
(*                                                                         *)
(* An operator that issues statements works on [c, ok]: once a statement   *)
(* has failed the ones after it are not issued.                            *)
(***************************************************************************)
EXTENDS Schemas, FiniteSets, TLC

CONSTANTS
  Hidden,     \* names of tables that begin with "pg" or "sql"
  TooLong     \* the <<table, key, value>> that take 512 bytes or more to store

Nothing == <<>>
Empty == [tables |-> Nothing, meta |-> Nothing, senders |-> Nothing, rows |-> {}]

Senders == <<"_senders">>
Metadata == <<"_experiment_metadata">>

Fresh(disk) ==
  [link |-> -1, txn |-> "none", disk |-> disk, view |-> disk, prepared |-> {},
   due |-> FALSE, sender_cnt |-> 0]

(* Types of the two backends: PostgreSQL promotes integers without a sign, *)
(* neither has a date.                                                     *)
Stored == (OmlTypes \ {"datetime"}) \cup {"primary key"}

PsqlTypes ==
  [t \in Stored |->
     CASE t = "primary key" -> "SERIAL PRIMARY KEY"
       [] t = "int32" -> "INT4"
       [] t \in {"uint32", "int64"} -> "INT8"
       [] t \in {"uint64", "guid"} -> "BIGINT"
       [] t = "double" -> "FLOAT8"
       [] t \in {"string", "vector"} -> "TEXT"
       [] t = "blob" -> "BYTEA"
       [] t = "bool" -> "BOOLEAN"]

Sq3Types ==
  [t \in Stored |->
     CASE t = "primary key" -> "INTEGER PRIMARY KEY"
       [] t \in {"int32", "bool"} -> "INTEGER"
       [] t = "uint32" -> "UNSIGNED INTEGER"
       [] t = "int64" -> "BIGINT"
       [] t \in {"uint64", "guid"} -> "UNSIGNED BIGINT"
       [] t = "double" -> "REAL"
       [] t \in {"string", "vector"} -> "TEXT"
       [] t = "blob" -> "BLOB"]

OmlToType(backend) == IF backend = "postgresql" THEN PsqlTypes ELSE Sq3Types

-----------------------------------------------------------------------------
(* What the server of the database accepts.  A value is "small", or "big"  *)
(* when it needs 64 bits without a sign, which BIGINT does not hold.       *)
Holds(columns, value) ==
  value = "big" => \A i \in DOMAIN columns : columns[i].type # "BIGINT"

Unambiguous(table) == Cardinality(ColumnNames(table)) = Len(table.columns)

Accepted(view, s) ==
  CASE s.op = "CREATE TABLE" -> s.table.name \notin DOMAIN view.tables /\ Unambiguous(s.table)
    [] s.op = "PREPARE" -> s.name \in DOMAIN view.tables
    [] s.op = "DESCRIBE" -> FALSE
    [] s.op = "SELECT" -> s.from \in DOMAIN view.tables
    [] s.op = "STORE" -> s.into \in DOMAIN view.tables
    [] s.op = "INSERT" -> /\ s.row.table \in DOMAIN view.tables
                          /\ Holds(view.tables[s.row.table], s.value)

(* The function f, with the value y at x.                                  *)
Put(f, x, y) == [z \in DOMAIN f \cup {x} |-> IF z = x THEN y ELSE f[z]]

Effect(view, s) ==
  CASE s.op = "CREATE TABLE" -> [view EXCEPT !.tables = Put(@, s.table.name, s.table.columns)]
    [] s.op = "STORE" /\ s.into = Metadata -> [view EXCEPT !.meta = Put(@, s.key, s.value)]
    [] s.op = "STORE" /\ s.into = Senders -> [view EXCEPT !.senders = Put(@, s.key, s.value)]
    [] s.op = "INSERT" -> [view EXCEPT !.rows = @ \cup {s.row}]
    [] OTHER -> view

(* COMMIT of an aborted transaction undoes it, and is no error; PostgreSQL *)
(* aborts the transaction when a statement fails, SQLite does not.         *)
Carry(c) == IF c.link > 0 THEN [c EXCEPT !.link = @ - 1] ELSE c

Committed(c) == IF c.txn = "aborted" THEN c.disk ELSE c.view

Exec(backend, r, s) ==
  LET c == Carry(r.c) IN
  CASE ~r.ok -> r
    [] r.ok /\ r.c.link = 0 -> [r EXCEPT !.ok = FALSE]
    [] r.ok /\ r.c.link # 0 /\ s.op = "END" ->
         [r EXCEPT !.c = [c EXCEPT !.txn = "none", !.disk = Committed(c), !.view = Committed(c)],
                   !.ok = c.txn # "none" \/ backend = "postgresql"]
    [] r.ok /\ r.c.link # 0 /\ s.op = "BEGIN" -> [r EXCEPT !.c = [c EXCEPT !.txn = "open"]]
    [] r.ok /\ r.c.link # 0 /\ s.op \notin {"END", "BEGIN"} ->
         IF c.txn # "aborted" /\ Accepted(c.view, s)
         THEN [r EXCEPT !.c = [c EXCEPT !.view = Effect(@, s)]]
         ELSE [c |-> IF backend = "postgresql" THEN [c EXCEPT !.txn = "aborted"] ELSE c,
               ok |-> FALSE]

Start(c) == [c |-> c, ok |-> TRUE]
Begin == [op |-> "BEGIN"]
End == [op |-> "END"]
Reopen(backend, r) == Exec(backend, Exec(backend, r, End), Begin)

-----------------------------------------------------------------------------
(* The INSERT statement of a table.  psql_table_create asks whether the    *)
(* connection has it, which aborts the transaction if not.                 *)
Unaware(r) ==
  IF r.ok /\ r.c.link # 0 THEN [r EXCEPT !.c = [Carry(r.c) EXCEPT !.txn = "aborted"]] ELSE r

Prepared(r, name) ==
  IF r.ok THEN [r EXCEPT !.c.prepared = @ \cup {name}] ELSE r

(* sq3_prepare: the INSERT with one place for each column.                 *)
PrepareInsert(name) == [op |-> "PREPARE", name |-> name]

PsqlPrepare(r, name) ==
  LET q == Reopen("postgresql", r) IN
  IF q.ok /\ q.c.link # 0 /\ name \in q.c.prepared
  THEN [q EXCEPT !.c = Carry(@)]
  ELSE Prepared(Exec("postgresql", Reopen("postgresql", Unaware(q)), PrepareInsert(name)), name)

Sq3Prepare(r, name) == Prepared(Exec("sqlite", r, PrepareInsert(name)), name)

Prepare(backend, r, name) ==
  IF backend = "postgresql" THEN PsqlPrepare(r, name) ELSE Sq3Prepare(r, name)

(* get_key_value and set_key_value on a table of pairs: the key is read    *)
(* before it is inserted or updated.  sq3_set_key_value writes its         *)
(* statement into 512 bytes, and issues none that does not fit; nobody     *)
(* looks at its result.                                                    *)
Fits(backend, table, key, value) == backend = "sqlite" => <<table, key, value>> \notin TooLong

Select(table) == [op |-> "SELECT", from |-> table]

Store(table, key, value) == [op |-> "STORE", into |-> table, key |-> key, value |-> value]

SetKeyValue(backend, c, table, key, value) ==
  LET r == Exec(backend, Start(c), Select(table)) IN
  IF Fits(backend, table, key, value) THEN Exec(backend, r, Store(table, key, value)).c ELSE r.c

SetMetadata(backend, c, key, value) == SetKeyValue(backend, c, Metadata, key, value)

TableKey(name) == <<"table", name>>
StartTimeKey == <<"start_time", <<>>>>

(* dba_table_create_from_schema, called by table_create, which then        *)
(* prepares the statement once more: how far they come.                    *)
CreateFromSchema(backend, c, schema) ==
  Exec(backend, Start(c), [op |-> "CREATE TABLE",
                           table |-> SchemaToSql(schema, OmlToType(backend))])

(* Whether the entry that describes a table of this schema can be stored.  *)
EntryFits(backend, schema) ==
  Fits(backend, Metadata, TableKey(schema.name), SchemaToMeta(schema))

Described(backend, r, schema) ==
  [r EXCEPT !.c = SetMetadata(backend, @, TableKey(schema.name), SchemaToMeta(schema))]

(* "nothing": no table.  "inner": the table that create_from_schema adds   *)
(* is not ready.  "outer": that one is, the caller's is not.  "both".      *)
Outcome(create, inner, outer) ==
  CASE ~create.ok -> [c |-> create.c, made |-> "nothing"]
    [] create.ok /\ ~inner.ok -> [c |-> inner.c, made |-> "inner"]
    [] create.ok /\ inner.ok /\ ~outer.ok -> [c |-> outer.c, made |-> "outer"]
    [] create.ok /\ inner.ok /\ outer.ok -> [c |-> outer.c, made |-> "both"]

(* Mutant of TableCreate: the metadata is written when all is prepared.    *)
TableCreateLate(backend, c, schema) ==
  LET create == CreateFromSchema(backend, c, schema)
      inner == IF create.ok THEN Prepare(backend, create, schema.name) ELSE create
      outer == IF inner.ok THEN Prepare(backend, inner, schema.name) ELSE inner
  IN  IF ~HasSql(schema, OmlToType(backend))
      THEN [c |-> c, made |-> "nothing"]
      ELSE Outcome(create, inner, IF outer.ok THEN Described(backend, outer, schema) ELSE outer)

TableCreate(backend, c, schema) ==
  LET create == CreateFromSchema(backend, c, schema)
      inner == IF create.ok THEN Prepare(backend, create, schema.name) ELSE create
      outer == IF inner.ok
               THEN Prepare(backend, Described(backend, inner, schema), schema.name)
               ELSE inner
  IN  IF ~HasSql(schema, OmlToType(backend))
      THEN [c |-> c, made |-> "nothing"]
      ELSE Outcome(create, inner, outer)

-----------------------------------------------------------------------------
(* Identifiers of senders.  When PostgreSQL does not answer the new sender *)
(* gets 0.                                                                 *)
Greatest(ids) == CHOOSE i \in ids : \A j \in ids : j <= i

MaxSenderId(view) ==
  IF DOMAIN view.senders = {} THEN 0
  ELSE Greatest({view.senders[s] : s \in DOMAIN view.senders})

FreshId(backend, r) ==
  CASE backend = "postgresql" -> IF r.ok THEN MaxSenderId(r.c.view) + 1 ELSE 0
    [] backend = "sqlite" ->
         1 + (IF r.c.sender_cnt = 0 /\ r.ok THEN MaxSenderId(r.c.view) ELSE r.c.sender_cnt)

NewSender(backend, r, name) ==
  LET id == FreshId(backend, r) IN
  [id |-> id,
   c |-> SetKeyValue(backend, [r.c EXCEPT !.sender_cnt = IF backend = "sqlite" THEN id ELSE @],
                     Senders, name, id)]

AddSenderId(backend, c, name) ==
  LET r == Exec(backend, Start(c), Select(Senders)) IN
  IF r.ok /\ name \in DOMAIN r.c.view.senders
  THEN [id |-> r.c.view.senders[name], c |-> r.c]
  ELSE NewSender(backend, Exec(backend, Start(r.c), Select(Senders)), name)

-----------------------------------------------------------------------------
(* sq3_insert: a row is bound to the places of its INSERT.                 *)
InsertRow(row, value) == [op |-> "INSERT", row |-> row, value |-> value]

(* A row; once a second the transaction before it is committed.            *)
Insert(backend, c, row, value) ==
  LET r == IF c.due THEN Reopen(backend, Start(c)) ELSE Start(c) IN
  Exec(backend, [r EXCEPT !.c = IF r.ok THEN [@ EXCEPT !.due = FALSE] ELSE @],
       InsertRow(row, value))

-----------------------------------------------------------------------------
(* The tables of a database that exists, for database_init: those whose    *)
(* schema the metadata has.  PostgreSQL leaves those out whose names look  *)
(* like its own.                                                           *)
Listed(backend, view) ==
  {name \in DOMAIN view.tables : backend = "postgresql" => name \notin Hidden}

Recorded(view, name) == TableKey(name) \in DOMAIN view.meta

TableList(backend, view) ==
  IF Metadata \notin Listed(backend, view)
  THEN {}
  ELSE {name \in Listed(backend, view) : name = Senders \/ Recorded(view, name)}

ListedSchema(view, name) == SchemaFromMeta(view.meta[TableKey(name)])

MetadataSchema ==
  SchemaFromMeta([name |-> Metadata,
                  fields |-> <<[name |-> "subject", type |-> "string", concepts |-> <<>>],
                               [name |-> "key", type |-> "string", concepts |-> <<>>],
                               [name |-> "value", type |-> "string", concepts |-> <<>>]>>])

(* _senders from its SQL, _experiment_metadata from its schema.            *)
SendersTable ==
  [name |-> Senders, columns |-> <<[name |-> "name", type |-> "TEXT"], [name |-> "id", type |-> "INTEGER"]>>]

CreateSenders(backend, r) == Exec(backend, r, [op |-> "CREATE TABLE", table |-> SendersTable])

Open(backend, disk) == Exec(backend, Start(Fresh(disk)), Begin).c

(* Mutant of Close: the connection goes with its transaction open.         *)
CloseAtOnce(backend, c) == Fresh(c.disk)

(* psql_release and sq3_release end the transaction.                       *)
Close(backend, c) == Fresh(Exec(backend, Start(c), End).c.disk)
=============================================================================
